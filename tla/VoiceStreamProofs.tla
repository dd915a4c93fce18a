--------------------------- MODULE VoiceStreamProofs ---------------------------
(***************************************************************************)
(* VoiceStream, for every set of transcripts, every queue and any number of *)
(* frames and messages.                                                     *)
(*                                                                          *)
(* Two arguments share one invariant. What has been shown as final is never *)
(* above _last_finalized_turn, and the transcript that waits for ready_sent *)
(* is above all of it: so a turn is handed on as final once. And the tasks  *)
(* are torn down in an order that leaves none behind: the connection before *)
(* the gather, the stream before the reports, the reader and the upload     *)
(* before the connection is closed.                                         *)
(*                                                                          *)
(* A third one, on top of it, is about a clean end (DrainInv): until        *)
(* something fails, the frames lie in order from the provider back to the   *)
(* receiver's hands, every final transcript but the one in the reader's     *)
(* hands has been carried out, and the stream task reports success only     *)
(* when the upload, the reader and the close have all come to their ends.   *)
(*                                                                          *)
(* The last one follows the turns the provider has finalized (FinalsInv):   *)
(* the final transcript of each is on the client's screen, with the reader  *)
(* that waits for ready_sent, or among the messages still to be read with   *)
(* nothing before it that would make it old; and a reader that has seen the *)
(* Termination has read them all.                                           *)
(***************************************************************************)
EXTENDS VoiceStream, TLAPS

SocketTypeOK ==
    /\ main \in {"connecting", "readying", "streaming", "draining", "expired", "gathering",
                 "reporting", "closing", "close expired", "done"}
    /\ receive \in {"receiving", "blocked"} \cup ReceiveEnded
    /\ held \in 0..MaxFrames
    /\ audio \in Seq(0..MaxFrames) /\ Len(audio) <= AUDIO_QUEUE_MAXSIZE
    /\ {ready, accepting, client} \subseteq BOOLEAN
    /\ code \in CloseCode
    /\ frames \in 0..MaxFrames
    /\ shown \in Seq([order : Order, final : BOOLEAN]) /\ commanded \in Seq(Order)

(* While a transcript is handed on it is one the provider has sent. *)
TurnInHand == task.reader \in Callback => turn \in Turn

(* What was shown as final is not above _last_finalized_turn, and a turn    *)
(* that is about to be shown is above it.                                   *)
FinalsKnown ==
    /\ \A i \in DOMAIN shown : shown[i].final => shown[i].order <= session.last
    /\ task.reader = "waiting" =>
        /\ turn.final => turn.order <= session.last
        /\ \A i \in DOMAIN shown : shown[i].final => shown[i].order < turn.order

(* The tasks of the session: what has ended when. *)
TasksSound ==
    /\ cancel => task.stream \in {"streaming", "closing"}
    /\ session.begun \/ task.stream # "none" \/ task.close # "no" => task.connect # "connecting"
    /\ task.stream = "closing" => task.close # "no"
    /\ task.close # "no" => session.closing
    /\ task.close \in {"disconnecting", "closed"} => task.reader \notin Live /\ task.upload \notin Live

(* The handler: what has ended where it is. *)
HandlerSound ==
    /\ main \in {"gathering", "reporting", "closing", "close expired", "done"} => ~accepting
    /\ ~accepting => task.connect # "connecting" /\ receive \in ReceiveEnded
    /\ main \in {"reporting", "closing", "close expired", "done"} => task.stream \in StreamEnded
    /\ main = "done" => task.close = "closed"

VInv ==
    /\ SessionTypeOK /\ SocketTypeOK /\ TurnInHand
    /\ FinalsKnown /\ TasksSound /\ HandlerSound

-----------------------------------------------------------------------------
(* Types. *)

LEMMA MessageKinds ==
  ASSUME NEW m \in Message
  PROVE  /\ m.kind = "Turn" => m \in Turn
         /\ m \in Turn => m.order \in Order /\ m.order \in Nat /\ m.final \in BOOLEAN
  BY ProviderAssumption DEF Message, Order

LEMMA NonEmpty ==
  ASSUME NEW S, NEW q \in Seq(S), q # <<>>
  PROVE  /\ Head(q) \in S /\ Tail(q) \in Seq(S)
         /\ Len(q) \in Nat /\ Len(Tail(q)) = Len(q) - 1
  OBVIOUS

LEMMA Appended ==
  ASSUME NEW S, NEW q \in Seq(S), NEW x \in S
  PROVE  /\ Append(q, x) \in Seq(S)
         /\ Len(q) \in Nat /\ Len(Append(q, x)) = Len(q) + 1
  OBVIOUS

LEMMA HeadsAreMessages ==
  ASSUME inbox \in Seq(Message), inbox # <<>>
  PROVE  Head(inbox) \in Message /\ Tail(inbox) \in Seq(Message)
  OBVIOUS

LEMMA ShownTyped ==
  ASSUME SocketTypeOK, NEW i \in DOMAIN shown
  PROVE  shown[i].order \in Int /\ shown[i].order \in Order /\ shown[i].final \in BOOLEAN
<1>1. \A S : \A q \in Seq(S) : \A j \in DOMAIN q : q[j] \in S
  OBVIOUS
<1>2. shown[i] \in [order : Order, final : BOOLEAN]
  BY <1>1 DEF SocketTypeOK
<1>3. \A o \in Order : o \in Int
  BY ProviderAssumption DEF Order
<1>4. QED
  BY <1>2, <1>3

LEMMA VInvInitially == Init => VInv
<1> SUFFICES ASSUME Init PROVE VInv
  OBVIOUS
<1>0. /\ <<>> \in Seq(Message) /\ <<>> \in Seq(Nat) /\ <<>> \in Seq(0..MaxFrames)
      /\ <<>> \in Seq([order : Order, final : BOOLEAN]) /\ <<>> \in Seq(Order)
  OBVIOUS
<1>1. SessionTypeOK
  <2>1. task \in Tasks
    BY DEF Init, SessionInit, Tasks
  <2>2. [messages |-> 0, finals |-> {}] \in [messages : 0..MaxMessages, finals : SUBSET Order] /\ 0 \in Nat
    BY ProviderAssumption
  <2>3. QED
    BY <1>0, <2>1, <2>2 DEF Init, SessionInit, SessionTypeOK
<1>2. SocketTypeOK
  <2>1. 0 \in 0..MaxFrames /\ Len(<<>>) <= AUDIO_QUEUE_MAXSIZE
    BY StreamAssumption
  <2>2. QED
    BY <1>0, <2>1 DEF Init, SocketTypeOK, CloseCode, Stop
<1>3. TurnInHand /\ FinalsKnown /\ TasksSound /\ HandlerSound
  BY DEF Init, SessionInit, TurnInHand, FinalsKnown, TasksSound, HandlerSound, Callback
<1>4. QED
  BY <1>1, <1>2, <1>3 DEF VInv

(* The session's record with one of its flags raised. *)
LEMMA SessionFlags ==
  ASSUME SessionTypeOK
  PROVE  /\ Failed(session) \in [begun : BOOLEAN, closing : BOOLEAN, terminated : BOOLEAN,
                                 failed : BOOLEAN, last : Order \cup {-1}]
         /\ Failed(session).last = session.last /\ Failed(session).begun = session.begun
         /\ Failed(session).closing = session.closing
         /\ Termination(session) \in [begun : BOOLEAN, closing : BOOLEAN, terminated : BOOLEAN,
                                      failed : BOOLEAN, last : Order \cup {-1}]
         /\ Termination(session).last = session.last /\ Termination(session).begun = session.begun
         /\ Termination(session).closing = session.closing
  BY DEF SessionTypeOK, Failed, Termination

(* The task record with the reader and the upload torn down. *)
LEMMA TornDown ==
  ASSUME NEW t \in Tasks
  PROVE  /\ CancelIO(t) \in Tasks
         /\ CancelIO(t).connect = t.connect /\ CancelIO(t).stream = t.stream
         /\ CancelIO(t).close = t.close
         /\ CancelIO(t).reader \notin Live /\ CancelIO(t).upload \notin Live
<1>1. /\ Cancelled(t.reader) \in {"none", "done", "cancelled"}
      /\ Cancelled(t.upload) \in {"none", "done", "failed", "cancelled"}
  BY DEF Tasks, Cancelled, Live, Callback
<1>2. CancelIO(t) = [t EXCEPT !.reader = Cancelled(t.reader), !.upload = Cancelled(t.upload)]
  BY DEF CancelIO
<1>3. CancelIO(t) \in Tasks
  BY <1>1, <1>2 DEF Tasks
<1>4. /\ CancelIO(t).connect = t.connect /\ CancelIO(t).stream = t.stream
      /\ CancelIO(t).close = t.close
      /\ CancelIO(t).reader = Cancelled(t.reader) /\ CancelIO(t).upload = Cancelled(t.upload)
  BY <1>2 DEF Tasks
<1>5. QED
  BY <1>1, <1>3, <1>4 DEF Live, Callback

LEMMA TornDownFor ==
  ASSUME NEW t \in Tasks
  PROVE  /\ Disconnecting(t) \in Tasks /\ Disconnecting(t).close = "disconnecting"
         /\ Disconnecting(t).connect = t.connect /\ Disconnecting(t).stream = t.stream
         /\ Disconnecting(t).reader \notin Live /\ Disconnecting(t).upload \notin Live
<1> DEFINE c == CancelIO(t)
<1>1. c \in Tasks /\ c.connect = t.connect /\ c.stream = t.stream
      /\ c.reader \notin Live /\ c.upload \notin Live
  BY TornDown
<1>2. Disconnecting(t) = [c EXCEPT !.close = "disconnecting"]
  BY DEF Disconnecting
<1> HIDE DEF c
<1>3. QED
  BY <1>1, <1>2 DEF Tasks

LEMMA InterruptedFacts ==
  ASSUME NEW t \in Tasks
  PROVE  /\ Interrupted(t) \in Tasks /\ Interrupted(t).connect = t.connect
         /\ Interrupted(t).close \in {"disconnecting", "closed"}
         /\ Interrupted(t).stream = t.stream \/ (t.stream = "closing" /\ Interrupted(t).stream = "ended")
         /\ t.close = "disconnecting" => Interrupted(t).reader = t.reader /\ Interrupted(t).upload = t.upload
         /\ t.close # "disconnecting" => Interrupted(t).reader \notin Live /\ Interrupted(t).upload \notin Live
<1>1. CASE t.close = "disconnecting"
  BY <1>1 DEF Interrupted, Tasks
<1>2. CASE t.close # "disconnecting"
  BY <1>2, TornDownFor DEF Interrupted
<1>3. QED
  BY <1>1, <1>2

-----------------------------------------------------------------------------
(* Steps of the session's tasks that touch nothing of the socket. *)

Session ==
    [begun : BOOLEAN, closing : BOOLEAN, terminated : BOOLEAN, failed : BOOLEAN, last : Order \cup {-1}]

LEMMA SessionOnly ==
  ASSUME VInv, UNCHANGED socketVars, SessionTypeOK', TurnInHand', FinalsKnown', TasksSound',
         task.connect # "connecting" => task'.connect # "connecting",
         task.stream \in {"none", "done", "ended"} => task'.stream = task.stream,
         task.stream \in {"none", "done", "ended"} /\ task.close = "closed" => task'.close = "closed"
  PROVE  VInv'
<1>1. SocketTypeOK /\ HandlerSound
  BY DEF VInv
<1>2. SocketTypeOK'
  BY <1>1 DEF SocketTypeOK, socketVars
<1>3. HandlerSound'
  BY <1>1 DEF HandlerSound, socketVars, StreamEnded
<1>4. QED
  BY <1>2, <1>3 DEF VInv

(* Any step that neither hands on a turn nor takes one in keeps FinalsKnown. *)
LEMMA FinalsQuiet ==
  ASSUME FinalsKnown, UNCHANGED shown, session'.last = session.last,
         task'.reader = "waiting" => task.reader = "waiting" /\ turn' = turn
  PROVE  FinalsKnown'
  BY DEF FinalsKnown

Posted == [messages : 0..MaxMessages, finals : SUBSET Order]

(* What ProviderSays does with one message. *)
SaysMessage(m) ==
    /\ inbox' = Append(inbox, m)
    /\ provider' = IF m.kind = "Turn" THEN "up" ELSE "over"
    /\ posted' = [messages |-> posted.messages + 1,
                  finals |-> IF Finalizes(m) THEN posted.finals \cup {m.order} ELSE posted.finals]

LEMMA ProviderKeeps == VInv /\ ProviderStep => VInv'
<1> SUFFICES ASSUME VInv, ProviderStep PROVE VInv'
  OBVIOUS
<1>0. SessionTypeOK /\ SocketTypeOK /\ TurnInHand /\ FinalsKnown /\ TasksSound /\ HandlerSound
  BY DEF VInv
<1>1. UNCHANGED <<session, task, cancel, turn, chunk, sent>> /\ UNCHANGED socketVars
  BY DEF ProviderStep, ProviderSays, ConnectionLost
<1>2. /\ inbox' \in Seq(Message) /\ posted' \in Posted
      /\ provider' \in {"up", "over", "lost"}
  <2>1. CASE ConnectionLost
    BY <1>0, <2>1 DEF ConnectionLost, SessionTypeOK, Posted
  <2>2. CASE ProviderSays
    <3>1. PICK m \in Message : SaysMessage(m)
      BY <2>2 DEF ProviderSays, SaysMessage
    <3>2. posted.messages + 1 \in 0..MaxMessages /\ posted.finals \subseteq Order
      BY <1>0, <2>2, ProviderAssumption DEF ProviderSays, SessionTypeOK
    <3>3. Finalizes(m) => m.order \in Order
      BY MessageKinds DEF Finalizes
    <3>4. posted' \in Posted
      BY <3>1, <3>2, <3>3 DEF SaysMessage, Posted
    <3>5. QED
      BY <1>0, <3>1, <3>4 DEF SessionTypeOK, SaysMessage
  <2>3. QED
    BY <2>1, <2>2 DEF ProviderStep
<1>3. SessionTypeOK'
  BY <1>0, <1>1, <1>2 DEF SessionTypeOK, Posted
<1>4. TurnInHand' /\ TasksSound' /\ FinalsKnown'
  BY <1>0, <1>1 DEF TurnInHand, TasksSound, FinalsKnown, socketVars
<1>5. QED
  BY <1>1, <1>3, <1>4, SessionOnly

LEMMA ConnectKeeps == VInv /\ ConnectStep => VInv'
<1> SUFFICES ASSUME VInv, ConnectStep PROVE VInv'
  OBVIOUS
<1>0. SessionTypeOK /\ SocketTypeOK /\ TurnInHand /\ FinalsKnown /\ TasksSound
  BY DEF VInv
<1>1. /\ UNCHANGED <<cancel, turn, inbox, provider, posted, chunk, sent>> /\ UNCHANGED socketVars
      /\ task.connect = "connecting"
  BY DEF ConnectStep, Connects, ConnectFails
<1>2. /\ session' \in Session /\ session'.last = session.last /\ session'.closing = session.closing
  BY <1>0, SessionFlags DEF ConnectStep, Connects, ConnectFails, SessionTypeOK, Session
<1>3. /\ task' \in Tasks /\ task'.connect # "connecting"
      /\ task'.stream = task.stream /\ task'.close = task.close /\ task'.upload = task.upload
      /\ task'.reader = task.reader \/ task'.reader = "reading"
  BY <1>0 DEF ConnectStep, Connects, ConnectFails, SessionTypeOK, Tasks
<1>4. SessionTypeOK'
  BY <1>0, <1>1, <1>2, <1>3 DEF SessionTypeOK, Session
<1>5. TurnInHand' /\ FinalsKnown'
  BY <1>0, <1>1, <1>2, <1>3, FinalsQuiet DEF TurnInHand, socketVars, Callback
<1>6. TasksSound'
  BY <1>0, <1>1, <1>2, <1>3 DEF TasksSound
<1>7. QED
  BY <1>1, <1>3, <1>4, <1>5, <1>6, SessionOnly

(* A reader that has ended or reads on keeps everything as it is. *)
LEMMA ReaderMoves ==
  ASSUME VInv, UNCHANGED socketVars, UNCHANGED <<cancel, provider, posted, chunk, sent>>,
         session' \in Session, session'.last = session.last, session'.begun = session.begun,
         session'.closing = session.closing, turn' \in Turn \cup {NoTurn}, inbox' \in Seq(Message),
         NEW pc \in {"reading", "done"}, task' = [task EXCEPT !.reader = pc],
         task.reader \in Live
  PROVE  VInv'
<1>0. SessionTypeOK /\ FinalsKnown /\ TasksSound
  BY DEF VInv
<1>1. /\ task' \in Tasks /\ task'.reader = pc /\ task'.connect = task.connect
      /\ task'.upload = task.upload /\ task'.stream = task.stream /\ task'.close = task.close
  BY <1>0 DEF SessionTypeOK, Tasks
<1>2. SessionTypeOK'
  BY <1>0, <1>1 DEF SessionTypeOK, Session
<1>3. TurnInHand' /\ FinalsKnown'
  BY <1>0, <1>1, FinalsQuiet DEF TurnInHand, socketVars, Callback
<1>4. TasksSound'
  BY <1>0, <1>1 DEF TasksSound
<1>5. QED
  BY <1>1, <1>2, <1>3, <1>4, SessionOnly

LEMMA ReaderKeeps == VInv /\ ReaderStep => VInv'
<1> SUFFICES ASSUME VInv, ReaderStep PROVE VInv'
  OBVIOUS
<1>0. SessionTypeOK /\ TurnInHand /\ FinalsKnown /\ TasksSound
  BY DEF VInv
<1>1. /\ UNCHANGED <<cancel, provider, posted, chunk, sent>> /\ UNCHANGED socketVars
      /\ task.reader = "reading" /\ task.reader \in Live /\ session \in Session
  BY <1>0 DEF ReaderStep, ReadTurn, ReadEnd, ReadClosed, Live, SessionTypeOK, Session
<1>2. CASE ReadEnd \/ ReadClosed
  <2>1. /\ session' \in Session /\ session'.last = session.last
        /\ session'.begun = session.begun /\ session'.closing = session.closing
    BY <1>0, <1>2, SessionFlags DEF ReadEnd, ReadClosed, Session
  <2>2. inbox' \in Seq(Message) /\ turn' \in Turn \cup {NoTurn}
    BY <1>0, <1>2, HeadsAreMessages DEF ReadEnd, ReadClosed, SessionTypeOK
  <2>3. task' = [task EXCEPT !.reader = "done"]
    BY <1>2 DEF ReadEnd, ReadClosed
  <2>4. QED
    BY <1>1, <2>1, <2>2, <2>3, ReaderMoves
<1>3. CASE ReadTurn /\ ~News(session, Head(inbox))
  <2>1. PICK pc \in {"reading", "done"} : task' = [task EXCEPT !.reader = pc]
    BY <1>1, <1>3 DEF ReadTurn
  <2>2. UNCHANGED <<session, turn>> /\ inbox' \in Seq(Message)
    BY <1>0, <1>3, HeadsAreMessages DEF ReadTurn, SessionTypeOK
  <2>3. turn' \in Turn \cup {NoTurn}
    BY <1>0, <2>2 DEF SessionTypeOK
  <2>4. QED
    BY <1>1, <2>1, <2>2, <2>3, ReaderMoves
<1>4. CASE ReadTurn /\ News(session, Head(inbox))
  <2> DEFINE m == Head(inbox)
  <2>1. m \in Turn /\ m.order \in Order /\ m.order \in Nat /\ m.final \in BOOLEAN
    BY <1>0, <1>4, HeadsAreMessages, MessageKinds DEF ReadTurn, SessionTypeOK
  <2>2. /\ session' = IF m.final THEN [session EXCEPT !.last = m.order] ELSE session
        /\ task' = [task EXCEPT !.reader = "waiting"] /\ turn' = m
        /\ inbox' = Tail(inbox) /\ inbox # <<>> /\ m.order > session.last
    BY <1>4 DEF ReadTurn, News
  <2>3. inbox' \in Seq(Message)
    BY <1>0, <2>2, HeadsAreMessages DEF SessionTypeOK
  <2> HIDE DEF m
  <2>4. /\ session' \in Session /\ session'.begun = session.begun
        /\ session'.closing = session.closing
        /\ session'.last = IF m.final THEN m.order ELSE session.last
    BY <1>1, <2>1, <2>2 DEF Session
  <2>5. /\ task' \in Tasks /\ task'.reader = "waiting" /\ task'.connect = task.connect
        /\ task'.upload = task.upload /\ task'.stream = task.stream /\ task'.close = task.close
    BY <1>0, <2>2 DEF SessionTypeOK, Tasks, Callback
  <2>6. SessionTypeOK'
    BY <1>0, <1>1, <2>1, <2>2, <2>3, <2>4, <2>5 DEF SessionTypeOK, Session
  <2>7. TurnInHand'
    BY <2>1, <2>2 DEF TurnInHand
  <2>8. FinalsKnown'
    <3>1. session.last \in Int /\ shown' = shown
      BY <1>1, ProviderAssumption DEF Session, Order, socketVars
    <3>2. \A i \in DOMAIN shown : shown[i].final => shown[i].order \in Int
      BY ShownTyped DEF VInv
    <3>3. \A i \in DOMAIN shown' : shown'[i].final =>
             shown'[i].order < turn'.order /\ shown'[i].order <= session'.last
      BY <1>0, <2>1, <2>2, <2>4, <3>1, <3>2 DEF FinalsKnown
    <3>4. turn'.final => turn'.order <= session'.last
      BY <2>1, <2>2, <2>4
    <3>5. QED
      BY <3>3, <3>4 DEF FinalsKnown
  <2>9. TasksSound'
    BY <1>0, <1>1, <2>4, <2>5 DEF TasksSound
  <2>10. QED
    BY <1>1, <2>5, <2>6, <2>7, <2>8, <2>9, SessionOnly
<1>5. QED
  BY <1>2, <1>3, <1>4 DEF ReaderStep

(* The upload's own steps, on either side of the queue. *)
LEMMA UploadMoves ==
  ASSUME VInv, UNCHANGED <<session, cancel, turn, inbox, provider, posted>>,
         UNCHANGED <<main, receive, accepting, shown>>, SocketTypeOK',
         chunk' \in Nat, sent' \in Seq(Nat), task.upload \in Live,
         NEW pc \in {"pulling", "sending", "done", "failed"},
         task' = [task EXCEPT !.upload = pc]
  PROVE  VInv'
<1>0. SessionTypeOK /\ TurnInHand /\ FinalsKnown /\ TasksSound /\ HandlerSound
  BY DEF VInv
<1>1. /\ task' \in Tasks /\ task'.connect = task.connect /\ task'.reader = task.reader
      /\ task'.stream = task.stream /\ task'.close = task.close
  BY <1>0 DEF SessionTypeOK, Tasks
<1>2. SessionTypeOK'
  BY <1>0, <1>1 DEF SessionTypeOK
<1>3. TurnInHand' /\ FinalsKnown'
  BY <1>0, <1>1, FinalsQuiet DEF TurnInHand
<1>4. TasksSound'
  BY <1>0, <1>1 DEF TasksSound
<1>5. HandlerSound'
  BY <1>0, <1>1 DEF HandlerSound
<1>6. QED
  BY <1>2, <1>3, <1>4, <1>5 DEF VInv

LEMMA UploadKeeps == VInv /\ (UploadStep \/ UploadNext) => VInv'
<1> SUFFICES ASSUME VInv, UploadStep \/ UploadNext PROVE VInv'
  OBVIOUS
<1>0. SessionTypeOK /\ SocketTypeOK
  BY DEF VInv
<1>1. CASE UploadStep
  <2>1. UNCHANGED socketVars /\ UNCHANGED <<session, cancel, turn, inbox, provider, posted>>
        /\ task.upload = "sending"
    BY <1>1 DEF UploadStep, UploadSends, UploadFails
  <2>2. chunk' \in Nat /\ sent' \in Seq(Nat)
    <3>1. chunk \in Nat /\ sent \in Seq(Nat) /\ Append(sent, chunk) \in Seq(Nat) /\ 0 \in Nat
      BY <1>0 DEF SessionTypeOK
    <3>2. QED
      BY <1>1, <3>1 DEF UploadStep, UploadSends, UploadFails
  <2>3. PICK pc \in {"pulling", "failed"} : task' = [task EXCEPT !.upload = pc]
    BY <1>1 DEF UploadStep, UploadSends, UploadFails
  <2>4. SocketTypeOK'
    BY <1>0, <2>1 DEF SocketTypeOK, socketVars
  <2>5. QED
    BY <2>1, <2>2, <2>3, <2>4, UploadMoves DEF socketVars, Live
<1>2. CASE UploadNext
  <2>1. /\ UNCHANGED <<session, cancel, turn, inbox, provider, posted, sent>>
        /\ UNCHANGED <<main, receive, held, ready, accepting, code, client, frames, shown, commanded>>
        /\ task.upload = "pulling" /\ audio # <<>> /\ audio' = Tail(audio)
    BY <1>2 DEF UploadNext, UploadTakes, UploadEnds
  <2>2. Head(audio) \in 0..MaxFrames /\ Tail(audio) \in Seq(0..MaxFrames)
        /\ Len(audio) \in Nat /\ Len(Tail(audio)) = Len(audio) - 1
    BY <1>0, <2>1, NonEmpty DEF SocketTypeOK
  <2>3. SocketTypeOK'
    <3>0. Len(audio) <= AUDIO_QUEUE_MAXSIZE /\ Len(audio') = Len(audio) - 1
      BY <1>0, <2>1, <2>2 DEF SocketTypeOK
    <3>1. Len(audio') <= AUDIO_QUEUE_MAXSIZE
      BY <2>2, <3>0, StreamAssumption
    <3>2. QED
      BY <1>0, <2>1, <2>2, <3>1 DEF SocketTypeOK
  <2>4. chunk' \in Nat /\ sent' \in Seq(Nat)
    BY <1>0, <1>2, <2>1, <2>2, StreamAssumption DEF UploadNext, UploadTakes, UploadEnds, SessionTypeOK
  <2>5. PICK pc \in {"sending", "done"} : task' = [task EXCEPT !.upload = pc]
    BY <1>2 DEF UploadNext, UploadTakes, UploadEnds
  <2>6. QED
    BY <2>1, <2>3, <2>4, <2>5, UploadMoves DEF Live
<1>3. QED
  BY <1>1, <1>2

-----------------------------------------------------------------------------
(* stream() and close(). *)

(* A step of theirs changes the flags of the session and the tasks. *)
LEMMA StreamMoves ==
  ASSUME VInv, UNCHANGED socketVars, UNCHANGED <<turn, inbox, provider, posted, chunk, sent>>,
         session' \in Session, session'.last = session.last, session'.begun = session.begun,
         task' \in Tasks, task'.connect = task.connect, task'.reader \in {task.reader, "none", "reading", "done", "cancelled"},
         cancel' \in BOOLEAN, TasksSound',
         task.stream \in {"none", "done", "ended"} => task'.stream = task.stream,
         task.stream \in {"none", "done", "ended"} /\ task.close = "closed" => task'.close = "closed"
  PROVE  VInv'
<1>0. SessionTypeOK /\ TurnInHand /\ FinalsKnown
  BY DEF VInv
<1>1. SessionTypeOK'
  BY <1>0 DEF SessionTypeOK, Session
<1>2. TurnInHand' /\ FinalsKnown'
  BY <1>0, FinalsQuiet DEF TurnInHand, socketVars, Callback
<1>3. QED
  BY <1>1, <1>2, SessionOnly

(* A reader that is not live is not in a callback. *)
LEMMA NotLive ==
  ASSUME NEW t \in Tasks, t.reader \notin Live
  PROVE  t.reader \in {"none", "done", "cancelled"}
  BY DEF Tasks, Live, Callback

(* close() is entered: gracefully, or by tearing the tasks down. *)
LEMMA CloseBeginsFacts ==
  ASSUME SessionTypeOK, NEW stream \in {"none", "streaming", "closing", "done", "ended"},
         CloseBegins(task, stream)
  PROVE  /\ session' \in Session /\ session'.last = session.last /\ session'.begun = session.begun
         /\ session'.closing
         /\ task' \in Tasks /\ task'.connect = task.connect /\ task'.stream = stream
         /\ \/ /\ task'.close = "terminating"
               /\ task'.reader = task.reader /\ task'.upload = task.upload
            \/ /\ task'.close = "disconnecting"
               /\ task'.reader \notin Live /\ task'.upload \notin Live
<1>1. /\ session' \in Session /\ session'.last = session.last /\ session'.begun = session.begun
      /\ session'.closing
  BY DEF CloseBegins, SessionTypeOK, Session
<1>2. CASE task' = [task EXCEPT !.stream = stream, !.close = "terminating"]
  BY <1>1, <1>2 DEF SessionTypeOK, Tasks
<1>3. CASE task' = [CancelIO(task) EXCEPT !.stream = stream, !.close = "disconnecting"]
  <2> DEFINE c == CancelIO(task)
  <2>1. c \in Tasks /\ c.connect = task.connect /\ c.reader \notin Live /\ c.upload \notin Live
    BY TornDown DEF SessionTypeOK
  <2>2. task' = [c EXCEPT !.stream = stream, !.close = "disconnecting"]
    BY <1>3
  <2> HIDE DEF c
  <2>3. QED
    BY <1>1, <2>1, <2>2 DEF Tasks
<1>4. QED
  BY <1>2, <1>3 DEF CloseBegins

LEMMA StreamKeeps == VInv /\ StreamStep => VInv'
<1> SUFFICES ASSUME VInv, StreamStep PROVE VInv'
  OBVIOUS
<1>0. SessionTypeOK /\ TasksSound /\ task \in Tasks /\ session \in Session
  BY DEF VInv, SessionTypeOK, Session
<1>1. UNCHANGED socketVars /\ UNCHANGED <<turn, inbox, provider, posted, chunk, sent>>
  BY DEF StreamStep, StreamWakes, TerminateSent, ReaderAwaited, CloseFails, CloseEnds, StreamCancelled,
         CloseBegins
<1>2. CASE StreamWakes /\ StreamComplete
  <2>1. task.stream = "streaming" /\ ~cancel /\ cancel' = cancel /\ CloseBegins(task, "closing")
    BY <1>2 DEF StreamWakes
  <2>2. /\ session' \in Session /\ session'.last = session.last /\ session'.begun = session.begun
        /\ session'.closing
        /\ task' \in Tasks /\ task'.connect = task.connect /\ task'.stream = "closing"
        /\ \/ /\ task'.close = "terminating"
              /\ task'.reader = task.reader /\ task'.upload = task.upload
           \/ /\ task'.close = "disconnecting"
              /\ task'.reader \notin Live /\ task'.upload \notin Live
    BY <1>0, <2>1, CloseBeginsFacts
  <2>3. TasksSound'
    BY <1>0, <2>1, <2>2 DEF TasksSound
  <2>4. QED
    BY <1>0, <1>1, <2>1, <2>2, <2>3, NotLive, StreamMoves DEF SessionTypeOK
<1>3. CASE StreamWakes /\ ~StreamComplete
  <2> DEFINE c == CancelIO(task)
  <2>1. /\ task.stream = "streaming" /\ ~cancel /\ cancel' = cancel
        /\ session' = Failed(session) /\ task' = [c EXCEPT !.stream = "ended"]
    BY <1>3 DEF StreamWakes
  <2>2. /\ c \in Tasks /\ c.connect = task.connect /\ c.close = task.close
        /\ c.reader \notin Live /\ c.upload \notin Live
    BY <1>0, TornDown
  <2> HIDE DEF c
  <2>3. /\ task' \in Tasks /\ task'.connect = task.connect /\ task'.stream = "ended"
        /\ task'.close = task.close /\ task'.reader \notin Live /\ task'.upload \notin Live
    BY <2>1, <2>2 DEF Tasks
  <2>4. /\ session' \in Session /\ session'.last = session.last /\ session'.begun = session.begun
        /\ session'.closing = session.closing
    BY <1>0, <2>1, SessionFlags DEF Session
  <2>5. TasksSound'
    BY <1>0, <2>1, <2>3, <2>4 DEF TasksSound
  <2>6. QED
    BY <1>0, <1>1, <2>1, <2>3, <2>4, <2>5, NotLive, StreamMoves DEF SessionTypeOK
<1>4. CASE TerminateSent
  <2>1. /\ task.close = "terminating" /\ UNCHANGED <<session, cancel>>
        /\ task' = [task EXCEPT !.close = "awaiting"]
    BY <1>4 DEF TerminateSent
  <2>2. /\ task' \in Tasks /\ task'.connect = task.connect /\ task'.stream = task.stream
        /\ task'.close = "awaiting" /\ task'.reader = task.reader /\ task'.upload = task.upload
    BY <1>0, <2>1 DEF Tasks
  <2>3. TasksSound'
    BY <1>0, <2>1, <2>2 DEF TasksSound
  <2>4. QED
    BY <1>0, <1>1, <2>1, <2>2, <2>3, StreamMoves DEF SessionTypeOK
<1>5. CASE ReaderAwaited \/ CloseFails
  <2>1. /\ task.close \in {"terminating", "awaiting"} /\ cancel' = cancel
        /\ task' = Disconnecting(task) /\ session' \in {session, Failed(session)}
    BY <1>5 DEF ReaderAwaited, CloseFails, Awaited
  <2>2. /\ session' \in Session /\ session'.last = session.last /\ session'.begun = session.begun
        /\ session'.closing = session.closing
    BY <1>0, <2>1, SessionFlags DEF Session
  <2>3. /\ task' \in Tasks /\ task'.close = "disconnecting" /\ task'.connect = task.connect
        /\ task'.stream = task.stream /\ task'.reader \notin Live /\ task'.upload \notin Live
    BY <1>0, <2>1, TornDownFor
  <2>4. TasksSound'
    BY <1>0, <2>1, <2>2, <2>3 DEF TasksSound
  <2>5. QED
    BY <1>0, <1>1, <2>1, <2>2, <2>3, <2>4, NotLive, StreamMoves DEF SessionTypeOK
<1>6. CASE CloseEnds
  <2>1. /\ task.close = "disconnecting" /\ ~cancel /\ cancel' = cancel
        /\ session' \in {session, Failed(session)}
    BY <1>6 DEF CloseEnds
  <2>2. PICK stream \in {task.stream, "ended", "done"} :
          /\ task' = [task EXCEPT !.close = "closed", !.stream = stream]
          /\ task.stream # "closing" => stream = task.stream
    BY <1>0, <1>6 DEF CloseEnds, Tasks
  <2>3. /\ session' \in Session /\ session'.last = session.last /\ session'.begun = session.begun
        /\ session'.closing = session.closing
    BY <1>0, <2>1, SessionFlags DEF Session
  <2>4. /\ task' \in Tasks /\ task'.close = "closed" /\ task'.connect = task.connect
        /\ task'.stream = stream /\ task'.reader = task.reader /\ task'.upload = task.upload
    BY <1>0, <2>2 DEF Tasks
  <2>5. TasksSound'
    BY <1>0, <2>1, <2>2, <2>3, <2>4 DEF TasksSound
  <2>6. QED
    BY <1>0, <1>1, <2>1, <2>2, <2>3, <2>4, <2>5, StreamMoves DEF SessionTypeOK
<1>7. CASE StreamCancelled
  <2>1. cancel /\ cancel' = FALSE /\ session' = session /\ task.stream \in {"streaming", "closing"}
    BY <1>0, <1>7 DEF StreamCancelled, TasksSound
  <2>2. CASE task.stream = "streaming"
    <3> DEFINE c == CancelIO(task)
    <3>1. task' = [c EXCEPT !.stream = "ended"]
      BY <1>7, <2>2 DEF StreamCancelled
    <3>2. /\ c \in Tasks /\ c.connect = task.connect /\ c.close = task.close
          /\ c.reader \notin Live /\ c.upload \notin Live
      BY <1>0, TornDown
    <3> HIDE DEF c
    <3>3. /\ task' \in Tasks /\ task'.connect = task.connect /\ task'.stream = "ended"
          /\ task'.close = task.close /\ task'.reader \notin Live /\ task'.upload \notin Live
      BY <3>1, <3>2 DEF Tasks
    <3>4. TasksSound'
      BY <1>0, <2>1, <2>2, <3>3 DEF TasksSound
    <3>5. QED
      BY <1>0, <1>1, <2>1, <2>2, <3>3, <3>4, NotLive, StreamMoves
  <2>3. CASE task.stream = "closing"
    <3>1. task' = Interrupted(task)
      BY <1>7, <2>3 DEF StreamCancelled
    <3>2. /\ task' \in Tasks /\ task'.connect = task.connect
          /\ task'.close \in {"disconnecting", "closed"}
          /\ task'.reader \notin Live /\ task'.upload \notin Live
      BY <1>0, <3>1, InterruptedFacts DEF TasksSound
    <3>3. TasksSound'
      BY <1>0, <2>1, <2>3, <3>2 DEF TasksSound
    <3>4. QED
      BY <1>0, <1>1, <2>1, <2>3, <3>2, <3>3, NotLive, StreamMoves
  <2>4. QED
    BY <2>1, <2>2, <2>3
<1>8. QED
  BY <1>2, <1>3, <1>4, <1>5, <1>6, <1>7 DEF StreamStep

-----------------------------------------------------------------------------
(* on_turn. *)

(* The reader's callback ends: on_turn has returned, or has raised. *)
LEMMA CallbackEnds ==
  ASSUME VInv, task.reader \in Callback, TurnReturns \/ TurnRaises,
         UNCHANGED <<main, receive, accepting, shown>>, SocketTypeOK'
  PROVE  VInv'
<1>0. SessionTypeOK /\ TurnInHand /\ FinalsKnown /\ TasksSound /\ HandlerSound
  BY DEF VInv
<1>1. /\ UNCHANGED <<cancel, inbox, provider, posted, chunk, sent>> /\ turn' = NoTurn
      /\ session' \in {session, Failed(session)}
  BY DEF TurnReturns, TurnRaises
<1>2. /\ session' \in Session /\ session'.last = session.last
      /\ session'.begun = session.begun /\ session'.closing = session.closing
  BY <1>0, <1>1, SessionFlags DEF Session, SessionTypeOK
<1>3. PICK pc \in {"reading", "done"} : task' = [task EXCEPT !.reader = pc]
  BY DEF TurnReturns, TurnRaises
<1>4. /\ task' \in Tasks /\ task'.reader = pc /\ task'.connect = task.connect
      /\ task'.upload = task.upload /\ task'.stream = task.stream /\ task'.close = task.close
  BY <1>0, <1>3 DEF SessionTypeOK, Tasks
<1>5. SessionTypeOK'
  BY <1>0, <1>1, <1>2, <1>4 DEF SessionTypeOK, Session
<1>6. TurnInHand' /\ FinalsKnown'
  BY <1>0, <1>2, <1>4, FinalsQuiet DEF TurnInHand, Callback
<1>7. TasksSound'
  BY <1>0, <1>1, <1>2, <1>4 DEF TasksSound, Live
<1>8. HandlerSound'
  BY <1>0, <1>4 DEF HandlerSound
<1>9. QED
  BY <1>5, <1>6, <1>7, <1>8 DEF VInv

(* The reader goes on inside its callback. *)
LEMMA CallbackGoesOn ==
  ASSUME VInv, NEW pc \in {"showing", "command"}, task.reader \in Callback,
         task' = [task EXCEPT !.reader = pc],
         UNCHANGED <<session, cancel, turn, inbox, provider, posted, chunk, sent>>,
         UNCHANGED <<main, receive, accepting>>, SocketTypeOK', FinalsKnown'
  PROVE  VInv'
<1>0. SessionTypeOK /\ TurnInHand /\ TasksSound /\ HandlerSound
  BY DEF VInv
<1>1. /\ task' \in Tasks /\ task'.reader = pc /\ task'.connect = task.connect
      /\ task'.upload = task.upload /\ task'.stream = task.stream /\ task'.close = task.close
  BY ZenonT(40), <1>0 DEF SessionTypeOK, Tasks, Callback
<1>2. SessionTypeOK'
  BY <1>0, <1>1 DEF SessionTypeOK
<1>3. TurnInHand' /\ TasksSound' /\ HandlerSound'
  BY <1>0, <1>1 DEF TurnInHand, TasksSound, HandlerSound, Live
<1>4. QED
  BY <1>2, <1>3 DEF VInv

(* A transcript is appended to what was shown. *)
LEMMA ShownGrows ==
  ASSUME VInv, task.reader = "waiting",
         shown' = Append(shown, [order |-> turn.order, final |-> turn.final])
  PROVE  /\ shown' \in Seq([order : Order, final : BOOLEAN])
         /\ \A i \in DOMAIN shown' : shown'[i].final => shown'[i].order <= session.last
         /\ turn \in Turn /\ [order |-> turn.order, final |-> turn.final] \in [order : Order, final : BOOLEAN]
<1>0. SocketTypeOK /\ TurnInHand /\ FinalsKnown
  BY DEF VInv
<1> DEFINE t == [order |-> turn.order, final |-> turn.final]
<1>1. turn \in Turn /\ turn.final \in BOOLEAN /\ turn.order \in Order
  BY <1>0, ProviderAssumption DEF TurnInHand, Callback, Order
<1>2. t \in [order : Order, final : BOOLEAN] /\ t.order = turn.order /\ t.final = turn.final
  BY <1>1
<1>3. shown \in Seq([order : Order, final : BOOLEAN]) /\ shown' = Append(shown, t)
  BY <1>0 DEF SocketTypeOK
<1> HIDE DEF t
<1>4. shown' \in Seq([order : Order, final : BOOLEAN])
  BY <1>2, <1>3
<1>5. ASSUME NEW i \in DOMAIN shown', shown'[i].final
      PROVE  shown'[i].order <= session.last
  <2>1. (i \in DOMAIN shown /\ shown'[i] = shown[i]) \/ shown'[i] = t
    BY <1>2, <1>3
  <2>2. QED
    BY <1>0, <1>2, <1>5, <2>1 DEF FinalsKnown
<1>6. QED
  BY <1>1, <1>2, <1>4, <1>5 DEF t

LEMMA TurnKeeps == VInv /\ TurnStep => VInv'
<1> SUFFICES ASSUME VInv, TurnStep PROVE VInv'
  OBVIOUS
<1>0. SessionTypeOK /\ SocketTypeOK /\ TurnInHand /\ FinalsKnown
  BY DEF VInv
<1>1. task.reader \in Callback
  BY DEF TurnStep, ShowTurn, TurnShown, CommandHandled, TurnFails, Callback
<1>2. CASE ShowTurn /\ accepting
  <2>1. /\ task.reader = "waiting" /\ task' = [task EXCEPT !.reader = "showing"]
        /\ shown' = Append(shown, [order |-> turn.order, final |-> turn.final])
        /\ UNCHANGED <<session, cancel, turn, inbox, provider, posted, chunk, sent>>
        /\ UNCHANGED <<main, receive, held, audio, ready, accepting, code, client, frames, commanded>>
    BY <1>2 DEF ShowTurn
  <2>2. /\ shown' \in Seq([order : Order, final : BOOLEAN])
        /\ \A i \in DOMAIN shown' : shown'[i].final => shown'[i].order <= session.last
    BY <2>1, ShownGrows
  <2>3. SocketTypeOK'
    BY <1>0, <2>1, <2>2 DEF SocketTypeOK
  <2>4. task'.reader = "showing"
    BY <1>0, <2>1 DEF SessionTypeOK, Tasks
  <2>5. FinalsKnown'
    BY <2>1, <2>2, <2>4 DEF FinalsKnown
  <2>6. QED
    BY <1>1, <2>1, <2>3, <2>5, CallbackGoesOn
<1>3. CASE ShowTurn /\ ~accepting
  <2>1. TurnReturns /\ UNCHANGED <<main, receive, held, audio, ready, accepting, code, client, frames,
                                   shown, commanded>>
    BY <1>3 DEF ShowTurn
  <2>2. SocketTypeOK'
    BY <1>0, <2>1 DEF SocketTypeOK
  <2>3. QED
    BY <1>1, <2>1, <2>2, CallbackEnds
<1>4. CASE TurnShown
  <2>1. SocketTypeOK' /\ UNCHANGED <<main, receive, accepting, shown>> /\ task.reader = "showing"
    BY <1>0, <1>4 DEF TurnShown, socketVars, SocketTypeOK
  <2>2. CASE turn.final
    <3>1. /\ task' = [task EXCEPT !.reader = "command"]
          /\ UNCHANGED <<session, cancel, turn, inbox, provider, posted, chunk, sent>>
      BY <1>4, <2>2 DEF TurnShown
    <3>2. task'.reader = "command"
      BY <1>0, <3>1 DEF SessionTypeOK, Tasks
    <3>3. FinalsKnown'
      BY <1>0, <2>1, <3>1, <3>2, FinalsQuiet
    <3>4. QED
      BY <1>1, <2>1, <3>1, <3>3, CallbackGoesOn
  <2>3. CASE ~turn.final
    BY <1>1, <1>4, <2>1, <2>3, CallbackEnds DEF TurnShown
  <2>4. QED
    BY <2>2, <2>3
<1>5. CASE CommandHandled
  <2>1. /\ TurnReturns /\ commanded' = Append(commanded, turn.order)
        /\ UNCHANGED <<main, receive, held, audio, ready, accepting, code, client, frames, shown>>
    BY <1>5 DEF CommandHandled
  <2>2. turn \in Turn /\ turn.order \in Order
    BY <1>0, <1>1 DEF TurnInHand, Order
  <2>3. commanded' \in Seq(Order)
    <3>1. commanded \in Seq(Order)
      BY <1>0 DEF SocketTypeOK
    <3>2. Append(commanded, turn.order) \in Seq(Order)
      BY <2>2, <3>1, Appended
    <3>3. QED
      BY <2>1, <3>2
  <2>4. SocketTypeOK'
    BY <1>0, <2>1, <2>3 DEF SocketTypeOK
  <2>5. QED
    BY <1>1, <2>1, <2>4, CallbackEnds
<1>6. CASE TurnFails
  <2>1. TurnRaises /\ SocketTypeOK' /\ UNCHANGED <<main, receive, accepting, shown>>
    BY <1>0, <1>6 DEF TurnFails, socketVars, SocketTypeOK
  <2>2. QED
    BY <1>1, <2>1, CallbackEnds
<1>7. QED
  BY <1>2, <1>3, <1>4, <1>5, <1>6 DEF TurnStep

-----------------------------------------------------------------------------
(* The receiver and the client. *)

LEMMA EnqueueFacts ==
  ASSUME SocketTypeOK, NEW item \in 0..MaxFrames, NEW next \in {"receiving", "stopped"},
         Enqueue(item, next)
  PROVE  /\ receive' \in {"receiving", "blocked"} \cup ReceiveEnded
         /\ held' \in 0..MaxFrames
         /\ audio' \in Seq(0..MaxFrames) /\ Len(audio') <= AUDIO_QUEUE_MAXSIZE
<1>1. audio \in Seq(0..MaxFrames) /\ Len(audio) <= AUDIO_QUEUE_MAXSIZE
  BY DEF SocketTypeOK
<1>2. /\ Append(audio, item) \in Seq(0..MaxFrames)
      /\ Len(audio) \in Nat /\ Len(Append(audio, item)) = Len(audio) + 1
  BY <1>1, Appended
<1>3. Stop \in 0..MaxFrames
  BY StreamAssumption DEF Stop
<1>4. CASE Len(audio) < AUDIO_QUEUE_MAXSIZE
  <2>1. audio' = Append(audio, item) /\ receive' = next /\ held' = Stop
    BY <1>4 DEF Enqueue
  <2>2. Len(audio') = Len(audio) + 1
    BY <1>2, <2>1
  <2>3. Len(audio') <= AUDIO_QUEUE_MAXSIZE
    BY <1>2, <1>4, <2>2, StreamAssumption
  <2>4. QED
    BY <1>2, <1>3, <2>1, <2>3 DEF ReceiveEnded
<1>5. CASE ~(Len(audio) < AUDIO_QUEUE_MAXSIZE)
  BY <1>1, <1>5 DEF Enqueue
<1>6. QED
  BY <1>4, <1>5

LEMMA ReceiverKeeps ==
  VInv /\ (ReceiveFrame \/ ReceiveStop \/ ReceiveBad \/ ReceiveEnds \/ ClientLeaves) => VInv'
<1> SUFFICES ASSUME VInv, ReceiveFrame \/ ReceiveStop \/ ReceiveBad \/ ReceiveEnds \/ ClientLeaves
             PROVE  VInv'
  OBVIOUS
<1>0. SessionTypeOK /\ SocketTypeOK /\ TurnInHand /\ FinalsKnown /\ TasksSound /\ HandlerSound
  BY DEF VInv
<1>1. /\ UNCHANGED <<session, task, cancel, turn, inbox, provider, posted, chunk, sent>>
      /\ UNCHANGED <<main, ready, accepting, code, shown, commanded>>
  BY DEF ReceiveFrame, ReceiveStop, ReceiveBad, ReceiveEnds, ClientLeaves, Unblock, ReceiveDisconnect,
         Backpressure, Receives, sessionVars
<1>2. /\ receive' \in {"receiving", "blocked"} \cup ReceiveEnded /\ held' \in 0..MaxFrames
      /\ audio' \in Seq(0..MaxFrames) /\ Len(audio') <= AUDIO_QUEUE_MAXSIZE
      /\ frames' \in 0..MaxFrames /\ client' \in BOOLEAN
      /\ receive \in ReceiveEnded => receive' = receive
  <2>1. CASE ReceiveFrame
    <3>1. frames' = frames + 1 /\ frames < MaxFrames /\ client' = client
          /\ Enqueue(frames', "receiving") /\ receive = "receiving"
      BY <2>1 DEF ReceiveFrame
    <3>2. frames \in 0..MaxFrames /\ client \in BOOLEAN
      BY <1>0 DEF SocketTypeOK
    <3>3. frames' \in 0..MaxFrames
      BY <3>1, <3>2, StreamAssumption
    <3>4. QED
      BY <1>0, <3>1, <3>2, <3>3, EnqueueFacts DEF ReceiveEnded
  <2>2. CASE ReceiveStop
    <3>1. /\ UNCHANGED <<frames, client>> /\ Enqueue(Stop, "stopped") /\ receive = "receiving"
          /\ Stop \in 0..MaxFrames
      BY <2>2, StreamAssumption DEF ReceiveStop, Stop
    <3>2. QED
      BY <1>0, <3>1, EnqueueFacts DEF SocketTypeOK, ReceiveEnded
  <2>3. CASE Unblock
    <3>1. PICK next \in {"receiving", "stopped"} : Enqueue(held, next)
      BY <2>3 DEF Unblock
    <3>2. UNCHANGED <<frames, client>> /\ receive = "blocked" /\ held \in 0..MaxFrames
      BY <1>0, <2>3 DEF Unblock, SocketTypeOK
    <3>3. QED
      BY <1>0, <3>1, <3>2, EnqueueFacts DEF SocketTypeOK, ReceiveEnded
  <2>4. CASE ReceiveBad \/ ReceiveDisconnect \/ Backpressure
    BY <1>0, <2>4 DEF ReceiveBad, ReceiveDisconnect, Backpressure, Receives, SocketTypeOK, ReceiveEnded
  <2>5. CASE ClientLeaves
    BY <1>0, <2>5 DEF ClientLeaves, SocketTypeOK
  <2>6. QED
    BY <2>1, <2>2, <2>3, <2>4, <2>5 DEF ReceiveEnds
<1>3. SocketTypeOK'
  BY <1>0, <1>1, <1>2 DEF SocketTypeOK
<1>4. SessionTypeOK' /\ TurnInHand' /\ TasksSound' /\ FinalsKnown'
  BY <1>0, <1>1 DEF SessionTypeOK, TurnInHand, TasksSound, FinalsKnown
<1>5. HandlerSound'
  BY <1>0, <1>1, <1>2 DEF HandlerSound
<1>6. QED
  BY <1>3, <1>4, <1>5 DEF VInv

-----------------------------------------------------------------------------
(* The handler. *)

LEMMA GotoKeeps ==
  ASSUME VInv, NEW next, Goto(next),
         next \in {"readying", "draining", "reporting", "closing", "done"},
         next \in {"reporting", "closing", "done"} => ~accepting /\ task.stream \in StreamEnded,
         next = "done" => task.close = "closed"
  PROVE  VInv'
<1>0. SessionTypeOK /\ SocketTypeOK /\ TurnInHand /\ FinalsKnown /\ TasksSound /\ HandlerSound
  BY DEF VInv
<1>1. /\ main' = next
      /\ UNCHANGED <<session, task, cancel, turn, inbox, provider, posted, chunk, sent>>
      /\ UNCHANGED <<receive, held, audio, ready, accepting, code, client, frames, shown, commanded>>
  BY DEF Goto, sessionVars
<1>2. SessionTypeOK' /\ TurnInHand' /\ TasksSound' /\ FinalsKnown'
  BY <1>0, <1>1 DEF SessionTypeOK, TurnInHand, TasksSound, FinalsKnown
<1>3. SocketTypeOK'
  BY <1>0, <1>1 DEF SocketTypeOK
<1>4. HandlerSound'
  BY <1>0, <1>1 DEF HandlerSound
<1>5. QED
  BY <1>2, <1>3, <1>4 DEF VInv

(* Whatever ends the wait: the connection and the receiver end here, and    *)
(* the stream is told to.                                                   *)
LEMMA ShutDownKeeps ==
  ASSUME VInv, NEW c \in CloseCode, ShutDown(c)
  PROVE  VInv'
<1>0. SessionTypeOK /\ SocketTypeOK /\ TurnInHand /\ FinalsKnown /\ TasksSound /\ HandlerSound
  BY DEF VInv
<1>1. /\ main' = "gathering" /\ code' = c /\ accepting' = FALSE /\ ready' = TRUE
      /\ receive' = IF receive \in ReceiveEnded THEN receive ELSE "cancelled"
      /\ task' = [task EXCEPT !.connect = Cancelled(task.connect)]
      /\ cancel' = (task.stream \notin StreamEnded)
      /\ UNCHANGED <<session, turn, inbox, provider, posted, chunk, sent>>
      /\ UNCHANGED <<held, audio, client, frames, shown, commanded>>
  BY DEF ShutDown, CancelTasks
<1>2. Cancelled(task.connect) \in {"done", "failed", "cancelled"}
  BY <1>0 DEF SessionTypeOK, Tasks, Cancelled, Live, Callback
<1>3. /\ task' \in Tasks /\ task'.connect = Cancelled(task.connect)
      /\ task'.reader = task.reader /\ task'.upload = task.upload
      /\ task'.stream = task.stream /\ task'.close = task.close
  BY <1>0, <1>1, <1>2 DEF SessionTypeOK, Tasks
<1>4. SessionTypeOK'
  BY <1>0, <1>1, <1>3 DEF SessionTypeOK
<1>5. SocketTypeOK'
  BY <1>0, <1>1 DEF SocketTypeOK, ReceiveEnded
<1>6. TurnInHand' /\ FinalsKnown'
  BY <1>0, <1>1, <1>3, FinalsQuiet DEF TurnInHand
<1>7. TasksSound'
  <2>1. cancel' => task.stream \in {"streaming", "closing"}
    BY <1>0, <1>1 DEF SessionTypeOK, Tasks, StreamEnded
  <2>2. QED
    BY <1>0, <1>1, <1>2, <1>3, <2>1 DEF TasksSound
<1>8. HandlerSound'
  BY <1>1, <1>2, <1>3 DEF HandlerSound, ReceiveEnded
<1>9. QED
  BY <1>4, <1>5, <1>6, <1>7, <1>8 DEF VInv

LEMMA ReceiveCodes == ReceiveCode \in CloseCode /\ {1000, 1011} \subseteq CloseCode
  BY DEF ReceiveCode, CloseCode

(* The steps of the handler that do nothing but go on or shut down.         *)
LEMMA MainGoesOn ==
  ASSUME VInv, Connected \/ NotConnected \/ ReadyFails \/ Streamed \/ Drained \/ DrainExpired
  PROVE  VInv'
<1>1. (\E c \in CloseCode : ShutDown(c)) \/ Goto("readying") \/ Goto("draining")
  BY ReceiveCodes DEF Connected, NotConnected, ReadyFails, Streamed, StreamingEnds, Drained, DrainExpired
<1>2. QED
  BY <1>1, ShutDownKeeps, GotoKeeps

(* The handler's own part in the session's tasks, once it has shut down or  *)
(* before the stream starts.                                                *)
LEMMA MainTasks ==
  ASSUME VInv, ReadySent \/ DrainTimeout \/ SessionCloses \/ CloseTimeout
  PROVE  VInv'
<1>0. /\ SessionTypeOK /\ SocketTypeOK /\ TurnInHand /\ FinalsKnown /\ TasksSound /\ HandlerSound
      /\ task \in Tasks /\ session \in Session
  BY DEF VInv, SessionTypeOK, Session
<1>1. CASE ReadySent
  <2>1. /\ main' = "streaming" /\ ready' = TRUE /\ session.begun /\ ~session.closing
        /\ task' = [task EXCEPT !.stream = "streaming", !.upload = "pulling"]
        /\ UNCHANGED <<session, cancel, turn, inbox, provider, posted, chunk, sent>>
        /\ UNCHANGED <<receive, held, audio, accepting, code, client, frames, shown, commanded>>
    BY <1>1 DEF ReadySent, StreamStarts
  <2>2. /\ task' \in Tasks /\ task'.connect = task.connect /\ task'.reader = task.reader
        /\ task'.upload = "pulling" /\ task'.stream = "streaming" /\ task'.close = task.close
    BY <1>0, <2>1 DEF Tasks
  <2>3. SessionTypeOK' /\ SocketTypeOK' /\ TurnInHand' /\ FinalsKnown'
    BY <1>0, <2>1, <2>2, FinalsQuiet DEF SessionTypeOK, SocketTypeOK, TurnInHand
  <2>4. TasksSound'
    BY <1>0, <2>1, <2>2 DEF TasksSound
  <2>5. HandlerSound'
    BY <1>0, <2>1, <2>2 DEF HandlerSound
  <2>6. QED
    BY <2>3, <2>4, <2>5 DEF VInv
<1>2. CASE DrainTimeout
  <2>1. /\ task.stream \notin StreamEnded /\ main' = "expired" /\ cancel' = TRUE
        /\ UNCHANGED <<session, task, turn, inbox, provider, posted, chunk, sent>>
        /\ UNCHANGED <<receive, held, audio, ready, accepting, code, client, frames, shown, commanded>>
    BY <1>2 DEF DrainTimeout
  <2>2. task.stream \in {"streaming", "closing"}
    BY <1>0, <2>1 DEF Tasks, StreamEnded
  <2>3. SessionTypeOK' /\ SocketTypeOK' /\ TurnInHand' /\ FinalsKnown'
    BY ZenonT(40), <1>0, <2>1, FinalsQuiet DEF SessionTypeOK, SocketTypeOK, TurnInHand
  <2>4. TasksSound' /\ HandlerSound'
    BY <1>0, <2>1, <2>2 DEF TasksSound, HandlerSound
  <2>5. QED
    BY <2>3, <2>4 DEF VInv
<1>3. ASSUME UNCHANGED <<cancel, turn, inbox, provider, posted, chunk, sent>>,
             UNCHANGED <<receive, held, audio, ready, accepting, code, client, frames, shown, commanded>>,
             main = "closing", main' \in {"closing", "close expired"},
             session' \in Session, session'.last = session.last, session'.begun = session.begun,
             session'.closing,
             task' \in Tasks, task'.connect = task.connect, task'.stream = task.stream,
             task'.reader = task.reader \/ task'.reader \notin Live,
             task'.close \in {"disconnecting", "closed"}
                => task'.reader \notin Live /\ task'.upload \notin Live
      PROVE  VInv'
  <2>1. SessionTypeOK' /\ SocketTypeOK'
    BY <1>0, <1>3 DEF SessionTypeOK, SocketTypeOK, Session
  <2>2. TurnInHand' /\ FinalsKnown'
    BY <1>0, <1>3, FinalsQuiet DEF TurnInHand, Live, Callback
  <2>3. ~accepting /\ task.connect # "connecting" /\ task.stream \in StreamEnded
    BY <1>0, <1>3 DEF HandlerSound
  <2>4. TasksSound'
    BY <1>0, <1>3, <2>3 DEF TasksSound, StreamEnded
  <2>5. HandlerSound'
    BY <1>0, <1>3, <2>3 DEF HandlerSound
  <2>6. QED
    BY <2>1, <2>2, <2>4, <2>5 DEF VInv
<1>4. CASE SessionCloses
  <2>1. /\ main = "closing" /\ main' = main /\ CloseBegins(task, task.stream)
        /\ UNCHANGED <<cancel, turn, inbox, provider, posted, chunk, sent>>
        /\ UNCHANGED <<receive, held, audio, ready, accepting, code, client, frames, shown, commanded>>
    BY <1>4 DEF SessionCloses, socketVars
  <2>2. task.stream \in {"none", "streaming", "closing", "done", "ended"}
    BY <1>0 DEF Tasks
  <2>3. /\ session' \in Session /\ session'.last = session.last /\ session'.begun = session.begun
        /\ session'.closing
        /\ task' \in Tasks /\ task'.connect = task.connect /\ task'.stream = task.stream
        /\ \/ /\ task'.close = "terminating"
              /\ task'.reader = task.reader /\ task'.upload = task.upload
           \/ /\ task'.close = "disconnecting"
              /\ task'.reader \notin Live /\ task'.upload \notin Live
    BY <1>0, <2>1, <2>2, CloseBeginsFacts
  <2>4. QED
    BY <1>3, <2>1, <2>3
<1>5. CASE CloseTimeout
  <2>1. /\ main = "closing" /\ main' = "close expired" /\ task' = Interrupted(task)
        /\ task.close # "no"
        /\ UNCHANGED <<session, cancel, turn, inbox, provider, posted, chunk, sent>>
        /\ UNCHANGED <<receive, held, audio, ready, accepting, code, client, frames, shown, commanded>>
    BY <1>5 DEF CloseTimeout
  <2>2. session.closing /\ task.stream # "closing"
        /\ (task.close = "disconnecting" => task.reader \notin Live /\ task.upload \notin Live)
    BY <1>0, <2>1 DEF TasksSound, HandlerSound, StreamEnded
  <2>3. /\ task' \in Tasks /\ task'.connect = task.connect /\ task'.stream = task.stream
        /\ task'.reader \notin Live /\ task'.upload \notin Live
    BY <1>0, <2>1, <2>2, InterruptedFacts
  <2>4. QED
    BY <1>0, <1>3, <2>1, <2>2, <2>3
<1>6. QED
  BY <1>1, <1>2, <1>4, <1>5

LEMMA MainKeeps == VInv /\ MainStep => VInv'
<1> SUFFICES ASSUME VInv, MainStep PROVE VInv'
  OBVIOUS
<1>0. HandlerSound
  BY DEF VInv
<1>1. CASE Gathered
  <2>1. main = "gathering" /\ task.stream \in StreamEnded /\ (Goto("reporting") \/ Goto("closing"))
    BY <1>1 DEF Gathered
  <2>2. ~accepting
    BY <1>0, <2>1 DEF HandlerSound
  <2>3. QED
    BY <2>1, <2>2, GotoKeeps
<1>2. CASE Reported
  <2>1. ~accepting /\ task.stream \in StreamEnded /\ Goto("closing")
    BY <1>0, <1>2 DEF Reported, HandlerSound
  <2>2. QED
    BY <2>1, GotoKeeps
<1>3. CASE Closes
  <2>1. ~accepting /\ task.stream \in StreamEnded /\ task.close = "closed" /\ Goto("done")
    BY <1>0, <1>3 DEF Closes, HandlerSound
  <2>2. QED
    BY <2>1, GotoKeeps
<1>4. QED
  BY <1>1, <1>2, <1>3, MainGoesOn, MainTasks DEF MainStep

-----------------------------------------------------------------------------
LEMMA VInvInductive == VInv /\ [Next]_vars => VInv'
<1> SUFFICES ASSUME VInv, [Next]_vars PROVE VInv'
  OBVIOUS
<1>1. CASE Next
  BY <1>1, ReceiverKeeps, ProviderKeeps, ConnectKeeps, ReaderKeeps, TurnKeeps, UploadKeeps, StreamKeeps,
     MainKeeps DEF Next
<1>2. CASE UNCHANGED vars
  <2>1. /\ UNCHANGED <<session, task, cancel, turn, inbox, provider, posted, chunk, sent>>
        /\ UNCHANGED <<main, receive, held, audio, ready, accepting, code, client, frames, shown, commanded>>
    BY <1>2 DEF vars, sessionVars, socketVars
  <2>2. SessionTypeOK' /\ TurnInHand' /\ TasksSound' /\ FinalsKnown'
    BY <2>1 DEF VInv, SessionTypeOK, TurnInHand, TasksSound, FinalsKnown
  <2>3. SocketTypeOK' /\ HandlerSound'
    BY <2>1 DEF VInv, SocketTypeOK, HandlerSound
  <2>4. QED
    BY <2>2, <2>3 DEF VInv
<1>3. QED
  BY <1>1, <1>2

LEMMA VInvAlways == Spec => []VInv
  BY VInvInitially, VInvInductive, PTL DEF Spec

(* websockets.py:122: whatever the client, the provider and the tasks do,   *)
(* the flags, the tasks and the histories keep their shape, and the queue   *)
(* never holds more than its maxsize.                                       *)
THEOREM StreamTypeCorrect == Spec => []StreamTypeOK
<1>1. VInv => StreamTypeOK
  BY DEF VInv, SocketTypeOK, StreamTypeOK
<1>2. QED
  BY <1>1, VInvAlways, PTL

(* websockets.py:249, assemblyai_client.py:223: when the handler has        *)
(* returned, none of the socket's tasks is left and the session is closed.  *)
THEOREM StreamNothingOutlives == Spec => []NothingOutlives
<1>1. VInv => NothingOutlives
  <2> SUFFICES ASSUME VInv, main = "done" PROVE NothingOutlives
    BY DEF NothingOutlives
  <2>1. /\ task.close = "closed" /\ receive \in ReceiveEnded /\ task.connect # "connecting"
        /\ task.stream \in StreamEnded
    BY DEF VInv, HandlerSound
  <2>2. task.reader \notin Live /\ task.upload \notin Live
    BY <2>1 DEF VInv, TasksSound
  <2>3. task.connect \notin Live /\ task.stream \notin Live
    BY <2>1 DEF VInv, SessionTypeOK, Tasks, Live, Callback, StreamEnded
  <2>4. QED
    BY <2>1, <2>2, <2>3 DEF NothingOutlives
<1>2. QED
  BY <1>1, VInvAlways, PTL

-----------------------------------------------------------------------------
(* Steps seen from the promise of TurnDelivery. *)

LEMMA MainShows ==
  ASSUME MainStep
  PROVE  /\ shown' = shown
         /\ accepting' = accepting \/ \E c \in CloseCode : ShutDown(c)
<1>1. CASE Connected \/ NotConnected \/ ReadyFails \/ Streamed \/ Drained \/ DrainExpired
  <2>1. (\E c \in CloseCode : ShutDown(c)) \/ Goto("readying") \/ Goto("draining")
    BY <1>1, ReceiveCodes
       DEF Connected, NotConnected, ReadyFails, Streamed, StreamingEnds, Drained, DrainExpired
  <2>2. QED
    BY <2>1 DEF ShutDown, Goto
<1>2. CASE ReadySent \/ DrainTimeout \/ CloseTimeout
  BY <1>2 DEF ReadySent, DrainTimeout, CloseTimeout
<1>3. CASE SessionCloses
  BY <1>3 DEF SessionCloses, socketVars
<1>4. CASE Gathered \/ Reported \/ Closes
  BY <1>4 DEF Gathered, Reported, Closes, Goto
<1>5. QED
  BY <1>1, <1>2, <1>3, <1>4 DEF MainStep

LEMMA OthersQuiet ==
  ASSUME Next, ~MainStep, ~(ShowTurn /\ accepting)
  PROVE  UNCHANGED <<shown, accepting>>
<1>1. CASE ReceiveFrame \/ ReceiveStop \/ ReceiveBad \/ ReceiveEnds \/ ClientLeaves
  BY <1>1 DEF ReceiveFrame, ReceiveStop, ReceiveBad, ReceiveEnds, ClientLeaves, Unblock,
              ReceiveDisconnect, Backpressure, Receives
<1>2. CASE ProviderStep \/ ConnectStep \/ ReaderStep \/ UploadStep \/ StreamStep
  BY <1>2 DEF ProviderStep, ConnectStep, ReaderStep, UploadStep, StreamStep, socketVars
<1>3. CASE UploadNext
  BY <1>3 DEF UploadNext
<1>4. CASE TurnStep
  BY <1>4 DEF TurnStep, ShowTurn, TurnShown, CommandHandled, TurnFails, socketVars
<1>5. QED
  BY <1>1, <1>2, <1>3, <1>4 DEF Next

(* A turn that may be shown is not finished. *)
LEMMA ShowsNews ==
  ASSUME VInv, ShowTurn, accepting
  PROVE  \E t \in Delivery!Transcript : Delivery!Show(t)
<1> DEFINE t == [order |-> turn.order, final |-> turn.final]
<1>1. /\ task.reader = "waiting" /\ shown' = Append(shown, t) /\ accepting' = accepting
  BY DEF ShowTurn
<1>2. turn \in Turn /\ t \in [order : Order, final : BOOLEAN] /\ t.order = turn.order /\ t.order \in Nat
  BY <1>1, ShownGrows, ProviderAssumption
<1>3. FinalsKnown /\ \A i \in DOMAIN shown : shown[i].order \in Int
  BY ShownTyped DEF VInv
<1> HIDE DEF t
<1>4. ~Delivery!Finished(t.order)
  BY <1>1, <1>2, <1>3 DEF Delivery!Finished, FinalsKnown
<1>5. Delivery!Show(t) /\ t \in Delivery!Transcript
  BY <1>1, <1>2, <1>4 DEF Delivery!Show, Delivery!Transcript
<1>6. QED
  BY <1>5

LEMMA StepsDeliver ==
  VInv /\ [Next]_vars =>
    [(\E t \in Delivery!Transcript : Delivery!Show(t)) \/ Delivery!ShutDown]_<<shown, accepting>>
<1> SUFFICES ASSUME VInv, [Next]_vars
             PROVE  \/ \E t \in Delivery!Transcript : Delivery!Show(t)
                    \/ Delivery!ShutDown
                    \/ UNCHANGED <<shown, accepting>>
  OBVIOUS
<1>1. CASE MainStep
  <2>1. accepting \in BOOLEAN
    BY DEF VInv, SocketTypeOK
  <2>2. CASE accepting' = accepting
    BY <1>1, <2>2, MainShows
  <2>3. CASE \E c \in CloseCode : ShutDown(c)
    <3>1. accepting' = FALSE /\ shown' = shown
      BY <2>3 DEF ShutDown
    <3>2. QED
      BY <2>1, <3>1 DEF Delivery!ShutDown
  <2>4. QED
    BY <1>1, <2>2, <2>3, MainShows
<1>2. CASE ShowTurn /\ accepting
  BY <1>2, ShowsNews
<1>3. CASE UNCHANGED vars
  BY <1>3 DEF vars, socketVars
<1>4. QED
  BY <1>1, <1>2, <1>3, OthersQuiet

(* assemblyai_client.py:105, websockets.py:135: the socket implements       *)
(* TurnDelivery. A final turn is handed on once, nothing of it or of an     *)
(* earlier turn follows it, and nothing once the shutdown has begun.        *)
THEOREM StreamTurnsDelivered == Spec => TurnsDelivered
<1>1. Init => shown = <<>> /\ accepting = TRUE
  BY DEF Init
<1>2. Spec => [][(\E t \in Delivery!Transcript : Delivery!Show(t)) \/ Delivery!ShutDown]_<<shown, accepting>>
  BY VInvAlways, StepsDeliver, PTL DEF Spec
<1>3. QED
  BY <1>1, <1>2, PTL DEF Spec, TurnsDelivered, Delivery!Spec

(* websockets.py:152: a failed session is reported to a client that is      *)
(* there, whatever else ends the wait at the same time.                     *)
THEOREM StreamFailureReported == Spec => FailureReported
<1>1. [Next]_vars => [accepting /\ ~accepting' /\ session.failed /\ client => code' # 1000]_vars
  <2> SUFFICES ASSUME [Next]_vars, accepting, ~accepting', session.failed, client
               PROVE  code' # 1000
    OBVIOUS
  <2>1. Next /\ MainStep /\ \E c \in CloseCode : ShutDown(c)
    BY OthersQuiet, MainShows DEF vars, socketVars, ShowTurn
  <2>2. ~(ReadySent \/ DrainTimeout \/ SessionCloses \/ CloseTimeout \/ Gathered \/ Reported \/ Closes)
    BY DEF ReadySent, DrainTimeout, SessionCloses, CloseTimeout, Gathered, Reported, Closes, Goto, socketVars
  <2>3. Connected \/ NotConnected \/ ReadyFails \/ Streamed \/ Drained \/ DrainExpired
    BY <2>1, <2>2 DEF MainStep
  <2>4. ShutDown(1011)
    BY <2>3 DEF Connected, NotConnected, ReadyFails, Streamed, StreamingEnds, Drained, DrainExpired, Goto
  <2>5. QED
    BY <2>4 DEF ShutDown
<1>2. QED
  BY <1>1, PTL DEF Spec, FailureReported
-----------------------------------------------------------------------------
(* What a clean end leaves behind. *)

(* Before the handler has decided how the socket ends. *)
Undecided == {"connecting", "readying", "streaming", "draining"}
Decided == {"gathering", "reporting", "closing", "close expired", "done"}

(* The stream task, and what it has seen to when it ends well. *)
StreamSound ==
    /\ main \in {"connecting", "readying"} => task.stream = "none"
    /\ task.connect = "connecting" => task.reader = "none"
    /\ task.stream = "none" => task.upload = "none"
    /\ task.stream # "none" => session.begun
    /\ task.stream \in {"closing", "done"} => task.upload = "done"
    /\ task.stream = "done" => task.close = "closed"
    /\ main \in Undecided =>
        /\ ~cancel
        /\ task.stream = "ended" => session.failed
        /\ task.stream \in {"closing", "done"} /\ task.close \in {"disconnecting", "closed"} =>
              session.failed \/ session.terminated

(* The frames the upload has taken from the queue. *)
Taken == IF task.upload = "sending" THEN Len(sent) + 1 ELSE Len(sent)

(* The frames of the client are numbered as they come. While the upload and *)
(* the receiver have lost none, they lie in order with the provider, in the *)
(* hands of the upload, in the queue and in the hands of the receiver; the  *)
(* end marker comes last.                                                   *)
FramesInOrder ==
    /\ \A i \in DOMAIN sent : sent[i] = i
    /\ task.upload = "sending" => chunk = Len(sent) + 1
    /\ task.upload = "done" => receive = "stopped" /\ Len(sent) = frames
    /\ task.upload \in {"none", "pulling", "sending"} =>
        /\ \A i \in 1..Len(audio) :
              audio[i] = IF receive = "stopped" /\ i = Len(audio) THEN Stop ELSE Taken + i
        /\ receive = "receiving" => frames = Taken + Len(audio)
        /\ receive = "blocked" => IF held = Stop THEN frames = Taken + Len(audio)
                                 ELSE held = frames /\ frames = Taken + Len(audio) + 1
        /\ receive = "stopped" => audio # <<>> /\ frames + 1 = Taken + Len(audio)

InHand == task.reader \in {"showing", "command"} /\ turn.final

(* While nothing has failed, every final transcript shown was carried out,  *)
(* but for the last one while it is in the reader's hands.                  *)
CommandsFollow ==
    /\ task.reader = "command" => turn.final
    /\ main \in Undecided /\ ~session.failed =>
        IF InHand
        THEN /\ Len(shown) > 0 /\ shown[Len(shown)] = [order |-> turn.order, final |-> TRUE]
             /\ CarriedOut(Len(shown) - 1)
        ELSE CarriedOut(Len(shown))

(* What a socket that ends well has behind it. *)
EndsWell ==
    /\ task.upload = "done" /\ task.reader \notin Live /\ task.stream \in StreamEnded
    /\ session.terminated
    /\ CarriedOut(Len(shown))

CleanEnd ==
    main \in Decided /\ code = 1000 /\ receive = "stopped" /\ task.stream # "none" => EndsWell

DrainInv == StreamSound /\ FramesInOrder /\ CommandsFollow /\ CleanEnd

(* The provider ends with its last message; the reader has then nothing     *)
(* left to read.                                                            *)
ProviderSound ==
    /\ \A i \in 1..Len(inbox) : inbox[i].kind # "Turn" => i = Len(inbox) /\ provider # "up"
    /\ session.terminated => inbox = <<>> /\ provider # "up"

Final(m) == m.kind = "Turn" /\ m.final /\ m.text

(* Whatever was received as final or taken for it is not above the turns    *)
(* the provider has finalized.                                              *)
FinalsBound ==
    /\ \A i \in 1..Len(inbox) : Final(inbox[i]) => \E o \in posted.finals : inbox[i].order <= o
    /\ session.last = -1 \/ \E o \in posted.finals : session.last <= o

(* Where the final transcript of a turn is: on the client's screen, with    *)
(* the reader that waits for ready_sent, or still to be read, with nothing  *)
(* before it that would make it old.                                        *)
Shows(o) == \E i \in DOMAIN shown : shown[i] = [order |-> o, final |-> TRUE]
Held(o) == task.reader = "waiting" /\ turn.final /\ turn.order = o
Pends(o, i) ==
    /\ Final(inbox[i]) /\ inbox[i].order = o /\ session.last < o
    /\ \A j \in 1..Len(inbox) : j < i /\ Final(inbox[j]) => inbox[j].order < o
Pending(o) == \E i \in 1..Len(inbox) : Pends(o, i)

(* Nothing has failed yet, or the socket has ended well. *)
Keeping ==
    \/ main \in Undecided /\ ~session.failed
    \/ main \in Decided /\ code = 1000 /\ receive = "stopped" /\ task.stream # "none"

FinalsFollow == Keeping => \A o \in posted.finals : Shows(o) \/ Held(o) \/ Pending(o)

FinalsInv ==
    /\ ProviderSound /\ FinalsBound /\ FinalsFollow
    /\ main \in Undecided => accepting

-----------------------------------------------------------------------------
(* Steps that leave the stream and the end alone. *)

(* Flags of the session are only raised. *)
Raised ==
    /\ session.begun => session'.begun
    /\ session.failed => session'.failed
    /\ session.terminated => session'.terminated

LEMMA FlagsRaised ==
  ASSUME session \in Session,
         session' \in {session, Failed(session), Termination(session)}
  PROVE  Raised
<1>1. /\ Failed(session).begun = session.begun /\ Failed(session).failed
      /\ Failed(session).terminated = session.terminated
  BY DEF Failed, Session
<1>2. /\ Termination(session).begun = session.begun /\ Termination(session).terminated
      /\ session.failed => Termination(session).failed
  BY DEF Termination, Session
<1>3. QED
  BY <1>1, <1>2 DEF Raised

(* The reader and its callback move on; nothing else does. *)
LEMMA ReaderMovesOn ==
  ASSUME VInv, ReaderStep \/ TurnStep
  PROVE  /\ UNCHANGED <<cancel, chunk, sent, main, receive, held, audio, code, frames>> /\ Raised
         /\ task.reader \in {"reading"} \cup Callback
         /\ \E pc \in {"reading", "done"} \cup Callback : task' = [task EXCEPT !.reader = pc]
<1>0. session \in Session
  BY DEF VInv, SessionTypeOK, Session
<1>1. CASE ReaderStep
  <2>1. CASE ReadTurn
    <3>1. Raised
      BY <1>0, <2>1, FlagsRaised DEF ReadTurn, Raised, Session
    <3>2. \E pc \in {"reading", "done", "waiting"} : task' = [task EXCEPT !.reader = pc]
      BY <2>1 DEF ReadTurn
    <3>3. QED
      BY <1>1, <2>1, <3>1, <3>2 DEF ReaderStep, ReadTurn, socketVars, Callback
  <2>2. CASE ReadEnd \/ ReadClosed
    <3>1. Raised
      BY <1>0, <2>2, FlagsRaised DEF ReadEnd, ReadClosed
    <3>2. QED
      BY <1>1, <2>2, <3>1 DEF ReaderStep, ReadEnd, ReadClosed, socketVars
  <2>3. QED
    BY <1>1, <2>1, <2>2 DEF ReaderStep
<1>2. CASE TurnStep
  <2>1. session' \in {session, Failed(session)}
    BY <1>2 DEF TurnStep, ShowTurn, TurnShown, CommandHandled, TurnFails, TurnReturns, TurnRaises
  <2>2. Raised
    BY <1>0, <2>1, FlagsRaised
  <2>3. \E pc \in {"reading", "done", "showing", "command"} : task' = [task EXCEPT !.reader = pc]
    BY <1>2 DEF TurnStep, ShowTurn, TurnShown, CommandHandled, TurnFails, TurnReturns, TurnRaises
  <2>4. /\ UNCHANGED <<cancel, chunk, sent, main, receive, held, audio, code, frames>>
        /\ task.reader \in Callback
    BY <1>2 DEF TurnStep, ShowTurn, TurnShown, CommandHandled, TurnFails, TurnReturns, TurnRaises,
                socketVars, Callback
  <2>5. QED
    BY <2>2, <2>3, <2>4 DEF Callback
<1>3. QED
  BY <1>1, <1>2

LEMMA ReaderDrains ==
  ASSUME VInv, StreamSound, FramesInOrder, CleanEnd, ReaderStep \/ TurnStep
  PROVE  StreamSound' /\ FramesInOrder' /\ CleanEnd'
<1>0. task \in Tasks
  BY DEF VInv, SessionTypeOK
<1>1. /\ UNCHANGED <<cancel, chunk, sent, main, receive, held, audio, code, frames>> /\ Raised
      /\ task.reader \in {"reading"} \cup Callback
  BY ReaderMovesOn
<1>2. /\ task'.connect = task.connect /\ task'.upload = task.upload /\ task'.stream = task.stream
      /\ task'.close = task.close
  BY <1>0, ReaderMovesOn DEF Tasks
<1>3. task.reader \in Live /\ task.reader # "none"
  BY <1>1 DEF Live, Callback
<1>4. StreamSound'
  BY <1>1, <1>2, <1>3 DEF StreamSound, Raised
<1>5. FramesInOrder'
  BY <1>1, <1>2 DEF FramesInOrder, Taken
<1>6. CleanEnd'
  BY <1>1, <1>2, <1>3 DEF CleanEnd, EndsWell
<1>7. QED
  BY <1>4, <1>5, <1>6

LEMMA ConnectDrains ==
  ASSUME VInv, StreamSound, FramesInOrder, CommandsFollow, CleanEnd, ConnectStep
  PROVE  StreamSound' /\ FramesInOrder' /\ CommandsFollow' /\ CleanEnd'
<1>0. task \in Tasks /\ session \in Session /\ HandlerSound
  BY DEF VInv, SessionTypeOK, Session
<1>1. UNCHANGED <<cancel, turn, chunk, sent>> /\ UNCHANGED socketVars /\ task.connect = "connecting"
  BY DEF ConnectStep, Connects, ConnectFails
<1>2. Raised /\ (ConnectFails => session'.failed)
  BY <1>0, FlagsRaised DEF ConnectStep, Connects, ConnectFails, Raised, Session, Failed
<1>3. /\ task'.connect # "connecting" /\ task'.upload = task.upload /\ task'.stream = task.stream
      /\ task'.close = task.close /\ task'.reader \in {"reading", task.reader}
  BY <1>0 DEF ConnectStep, Connects, ConnectFails, Tasks
<1>4. task.reader = "none" /\ main \notin Decided
  BY <1>0, <1>1 DEF StreamSound, HandlerSound, Decided
<1>5. StreamSound'
  BY <1>1, <1>2, <1>3 DEF StreamSound, Raised, socketVars
<1>6. FramesInOrder' /\ CleanEnd'
  BY <1>1, <1>3, <1>4 DEF FramesInOrder, Taken, CleanEnd, socketVars
<1>7. CommandsFollow'
  <2>1. task'.reader \notin {"showing", "command"} /\ task.reader \notin {"showing", "command"}
    BY <1>3, <1>4
  <2>2. QED
    BY <1>1, <1>2, <2>1 DEF CommandsFollow, InHand, CarriedOut, Raised, socketVars
<1>8. QED
  BY <1>5, <1>6, <1>7

(* The provider, the receiver and the client do not touch the tasks. *)
LEMMA OutsideDrains ==
  ASSUME StreamSound, CommandsFollow,
         UNCHANGED <<session, task, cancel, turn, main, shown, commanded>>
  PROVE  StreamSound' /\ CommandsFollow'
  BY DEF StreamSound, CommandsFollow, InHand, CarriedOut
-----------------------------------------------------------------------------
(* Commands follow the transcripts. *)

LEMMA AppendedAt ==
  ASSUME NEW S, NEW q \in Seq(S), NEW x \in S
  PROVE  /\ Len(q) \in Nat /\ DOMAIN q = 1..Len(q) /\ DOMAIN Append(q, x) = 1..(Len(q) + 1)
         /\ Len(Append(q, x)) = Len(q) + 1 /\ Append(q, x)[Len(q) + 1] = x
         /\ \A k \in 1..Len(q) : Append(q, x)[k] = q[k] /\ q[k] \in S
  OBVIOUS

(* CarriedOut for any transcripts ts and commands cs, with the places at    *)
(* which their turns were shown.                                            *)
Places(at, ts, cs, n) ==
    /\ \A i, j \in DOMAIN cs : i < j => at[i] < at[j]
    /\ \A i \in DOMAIN cs : ts[at[i]] = [order |-> cs[i], final |-> TRUE]
    /\ \A k \in 1..n : ts[k].final => \E i \in DOMAIN cs : at[i] = k

Follows(ts, cs, n) == \E at \in [DOMAIN cs -> 1..n] : Places(at, ts, cs, n)

LEMMA CarriedFollows ==
  /\ CarriedOut(Len(shown)) <=> Follows(shown, commanded, Len(shown))
  /\ CarriedOut(Len(shown) - 1) <=> Follows(shown, commanded, Len(shown) - 1)
  /\ CarriedOut(Len(shown))' <=> Follows(shown', commanded', Len(shown'))
  /\ CarriedOut(Len(shown) - 1)' <=> Follows(shown', commanded', Len(shown') - 1)
  BY DEF CarriedOut, Follows, Places

(* A transcript is shown after others, all of which were seen to. *)
LEMMA FollowsMore ==
  ASSUME NEW S, NEW ts \in Seq(S), NEW t \in S, NEW cs, Follows(ts, cs, Len(ts))
  PROVE  /\ Follows(Append(ts, t), cs, Len(ts))
         /\ ~t.final => Follows(Append(ts, t), cs, Len(ts) + 1)
<1> DEFINE n == Len(ts)
           us == Append(ts, t)
<1>1. n \in Nat /\ us[n + 1] = t /\ \A k \in 1..n : us[k] = ts[k]
  BY AppendedAt
<1>2. PICK at \in [DOMAIN cs -> 1..n] : Places(at, ts, cs, n)
  BY DEF Follows
<1> HIDE DEF n, us
<1>3. \A i \in DOMAIN cs : at[i] \in 1..n /\ us[at[i]] = ts[at[i]]
  BY <1>1, <1>2
<1>4. Places(at, us, cs, n)
  BY <1>1, <1>2, <1>3 DEF Places
<1>5. ASSUME ~t.final PROVE Follows(us, cs, n + 1)
  <2>1. \A k \in 1..(n + 1) : k \in 1..n \/ k = n + 1
    BY <1>1
  <2>2. 1..n \subseteq 1..(n + 1)
    BY <1>1
  <2>3. at \in [DOMAIN cs -> 1..(n + 1)]
    BY <1>2, <2>2
  <2>4. Places(at, us, cs, n + 1)
    BY <1>1, <1>4, <1>5, <2>1 DEF Places
  <2>5. QED
    BY <2>3, <2>4 DEF Follows
<1>6. QED
  BY <1>2, <1>4, <1>5 DEF Follows, n, us

(* The last transcript shown was final, and its command is carried out. *)
LEMMA FollowsNext ==
  ASSUME NEW S, NEW ts \in Seq(S), NEW O, NEW cs \in Seq(O), NEW o \in O,
         Len(ts) > 0, ts[Len(ts)] = [order |-> o, final |-> TRUE],
         Follows(ts, cs, Len(ts) - 1)
  PROVE  Follows(ts, Append(cs, o), Len(ts))
<1> DEFINE n == Len(ts)
           c == Len(cs)
           ds == Append(cs, o)
<1>1. /\ n \in Nat /\ n > 0 /\ ts[n] = [order |-> o, final |-> TRUE]
      /\ c \in Nat /\ DOMAIN cs = 1..c /\ DOMAIN ds = 1..(c + 1)
      /\ ds[c + 1] = o /\ \A i \in 1..c : ds[i] = cs[i]
  BY AppendedAt
<1>2. PICK at \in [DOMAIN cs -> 1..(n - 1)] : Places(at, ts, cs, n - 1)
  BY DEF Follows
<1> HIDE DEF n, c, ds
<1>3. /\ \A i \in 1..c : at[i] \in 1..(n - 1)
      /\ \A i, j \in 1..c : i < j => at[i] < at[j]
      /\ \A i \in 1..c : ts[at[i]] = [order |-> cs[i], final |-> TRUE]
      /\ \A k \in 1..(n - 1) : ts[k].final => \E i \in 1..c : at[i] = k
  BY <1>1, <1>2 DEF Places
<1> DEFINE f == [i \in 1..(c + 1) |-> IF i = c + 1 THEN n ELSE at[i]]
<1>4. \A i \in 1..c : i \in 1..(c + 1) /\ i # c + 1 /\ i < c + 1
  BY <1>1
<1>5. c + 1 \in 1..(c + 1) /\ \A i \in 1..(c + 1) : i \in 1..c \/ i = c + 1
  BY <1>1
<1>6. f[c + 1] = n /\ \A i \in 1..c : f[i] = at[i]
  BY <1>4, <1>5
<1>7. \A i \in 1..c : f[i] \in 1..n /\ f[i] < n
  <2>1. \A k \in 1..(n - 1) : k \in 1..n /\ k < n
    BY <1>1
  <2>2. QED
    BY <1>3, <1>6, <2>1
<1>8. f \in [1..(c + 1) -> 1..n]
  <2>1. \A i \in 1..(c + 1) : f[i] \in 1..n
    BY <1>1, <1>5, <1>6, <1>7
  <2>2. QED
    BY <2>1
<1> HIDE DEF f
<1>9. ASSUME NEW i \in 1..(c + 1), NEW j \in 1..(c + 1), i < j
      PROVE  f[i] < f[j]
  <2>1. i \in 1..c
    BY <1>1, <1>9
  <2>2. CASE j \in 1..c
    BY <1>3, <1>6, <1>9, <2>1, <2>2
  <2>3. CASE j = c + 1
    BY <1>6, <1>7, <2>1, <2>3
  <2>4. QED
    BY <1>5, <2>2, <2>3
<1>10. \A i \in 1..(c + 1) : ts[f[i]] = [order |-> ds[i], final |-> TRUE]
  <2>1. \A i \in 1..c : ts[f[i]] = [order |-> ds[i], final |-> TRUE]
    BY <1>1, <1>3, <1>6
  <2>2. ts[f[c + 1]] = [order |-> ds[c + 1], final |-> TRUE]
    BY <1>1, <1>6
  <2>3. QED
    BY <1>5, <2>1, <2>2
<1>11. \A k \in 1..n : ts[k].final => \E i \in 1..(c + 1) : f[i] = k
  <2>1. \A k \in 1..n : k \in 1..(n - 1) \/ k = n
    BY <1>1
  <2>2. \A k \in 1..(n - 1) : ts[k].final => \E i \in 1..c : i \in 1..(c + 1) /\ f[i] = k
    BY <1>3, <1>4, <1>6
  <2>3. QED
    BY <1>5, <1>6, <2>1, <2>2
<1>12. Places(f, ts, ds, n)
  BY <1>1, <1>9, <1>10, <1>11 DEF Places
<1>13. QED
  BY <1>1, <1>8, <1>12 DEF Follows, n, ds

(* The reader is not in a callback with a final transcript, before or after. *)
LEMMA FollowsIdle ==
  ASSUME UNCHANGED <<main, shown, commanded>>, Raised, CommandsFollow,
         task'.reader = "command" => turn'.final, ~InHand, ~InHand'
  PROVE  CommandsFollow'
<1>1. CarriedOut(Len(shown)) => CarriedOut(Len(shown))'
  BY CarriedFollows
<1>2. QED
  BY <1>1 DEF CommandsFollow, Raised

LEMMA ReaderFollows ==
  ASSUME VInv, CommandsFollow, ReaderStep
  PROVE  CommandsFollow'
<1>1. Raised /\ UNCHANGED socketVars
  BY ReaderMovesOn DEF ReaderStep
<1>2. task.reader = "reading"
  BY DEF ReaderStep, ReadTurn, ReadEnd, ReadClosed
<1>3. task'.reader \in {"reading", "done", "waiting"}
  BY <1>2 DEF VInv, SessionTypeOK, Tasks, ReaderStep, ReadTurn, ReadEnd, ReadClosed
<1>4. QED
  BY <1>1, <1>2, <1>3, FollowsIdle DEF InHand, socketVars

LEMMA TurnFollows ==
  ASSUME VInv, CommandsFollow, TurnStep
  PROVE  CommandsFollow'
<1>0. SessionTypeOK /\ SocketTypeOK /\ TurnInHand /\ task \in Tasks
  BY DEF VInv, SessionTypeOK
<1>1. Raised /\ main' = main
  BY ReaderMovesOn
<1>2. shown \in Seq([order : Order, final : BOOLEAN]) /\ commanded \in Seq(Order)
  BY <1>0 DEF SocketTypeOK
<1>3. CASE ShowTurn /\ accepting
  <2> DEFINE t == [order |-> turn.order, final |-> turn.final]
  <2>1. /\ task.reader = "waiting" /\ shown' = Append(shown, t) /\ task' = [task EXCEPT !.reader = "showing"]
        /\ UNCHANGED <<session, turn, commanded>>
    BY <1>3 DEF ShowTurn
  <2>2. turn \in Turn /\ turn.final \in BOOLEAN /\ t \in [order : Order, final : BOOLEAN]
    BY <2>1, ShownGrows, ProviderAssumption
  <2>3. t.final = turn.final /\ (turn.final => t = [order |-> turn.order, final |-> TRUE])
    BY <2>2
  <2>4. task'.reader = "showing" /\ ~InHand
    BY <1>0, <2>1 DEF Tasks, InHand
  <2> HIDE DEF t
  <2>5. ASSUME main \in Undecided, ~session.failed
        PROVE  IF InHand'
               THEN /\ Len(shown') > 0 /\ shown'[Len(shown')] = [order |-> turn'.order, final |-> TRUE]
                    /\ CarriedOut(Len(shown) - 1)'
               ELSE CarriedOut(Len(shown))'
    <3>1. Follows(shown, commanded, Len(shown))
      BY <2>4, <2>5, CarriedFollows DEF CommandsFollow
    <3>2. /\ Len(shown) \in Nat /\ Len(shown') = Len(shown) + 1 /\ shown'[Len(shown) + 1] = t
      BY <1>2, <2>1, <2>2, AppendedAt
    <3>3. /\ Follows(shown', commanded, Len(shown))
          /\ ~t.final => Follows(shown', commanded, Len(shown) + 1)
      BY <1>2, <2>1, <2>2, <3>1, FollowsMore
    <3>4. Len(shown') > 0 /\ Len(shown') - 1 = Len(shown)
      BY <3>2
    <3>5. CASE turn.final
      <4>1. CarriedOut(Len(shown) - 1)'
        BY <2>1, <3>3, <3>4, CarriedFollows
      <4>2. InHand'
        BY <2>1, <2>4, <3>5 DEF InHand
      <4>3. QED
        BY <2>1, <2>3, <3>2, <3>4, <3>5, <4>1, <4>2
    <3>6. CASE ~turn.final
      <4>1. CarriedOut(Len(shown))'
        BY <2>1, <2>3, <3>2, <3>3, <3>6, CarriedFollows
      <4>2. ~InHand'
        BY <2>1, <3>6 DEF InHand
      <4>3. QED
        BY <4>1, <4>2
    <3>7. QED
      BY <3>5, <3>6
  <2>6. QED
    BY <1>1, <2>1, <2>4, <2>5 DEF CommandsFollow
<1>4. CASE ShowTurn /\ ~accepting
  <2>1. task.reader = "waiting" /\ UNCHANGED <<shown, commanded>>
        /\ \E pc \in {"reading", "done"} : task' = [task EXCEPT !.reader = pc]
    BY <1>4 DEF ShowTurn, TurnReturns
  <2>2. task'.reader \in {"reading", "done"}
    BY <1>0, <2>1 DEF Tasks
  <2>3. QED
    BY <1>1, <2>1, <2>2, FollowsIdle DEF InHand
<1>5. CASE TurnShown /\ turn.final
  <2>1. /\ task.reader = "showing" /\ task' = [task EXCEPT !.reader = "command"]
        /\ UNCHANGED <<session, turn, shown, commanded>>
    BY <1>5 DEF TurnShown, socketVars
  <2>2. task'.reader = "command" /\ InHand /\ InHand'
    BY <1>0, <1>5, <2>1 DEF Tasks, InHand
  <2>3. CarriedOut(Len(shown) - 1) => CarriedOut(Len(shown) - 1)'
    BY <2>1, CarriedFollows
  <2>4. QED
    BY <1>1, <1>5, <2>1, <2>2, <2>3 DEF CommandsFollow
<1>6. CASE TurnShown /\ ~turn.final
  <2>1. /\ task.reader = "showing" /\ UNCHANGED <<shown, commanded>>
        /\ \E pc \in {"reading", "done"} : task' = [task EXCEPT !.reader = pc]
    BY <1>6 DEF TurnShown, TurnReturns, socketVars
  <2>2. task'.reader \in {"reading", "done"}
    BY <1>0, <2>1 DEF Tasks
  <2>3. QED
    BY <1>1, <1>6, <2>1, <2>2, FollowsIdle DEF InHand
<1>7. CASE CommandHandled
  <2>1. /\ task.reader = "command" /\ shown' = shown /\ commanded' = Append(commanded, turn.order)
        /\ session' = session /\ \E pc \in {"reading", "done"} : task' = [task EXCEPT !.reader = pc]
    BY <1>7 DEF CommandHandled, TurnReturns
  <2>2. task'.reader \in {"reading", "done"} /\ turn.final /\ InHand /\ ~InHand'
    BY <1>0, <2>1 DEF Tasks, CommandsFollow, InHand
  <2>3. turn.order \in Order
    BY <1>0, <2>1 DEF TurnInHand, Callback, Order
  <2>4. ASSUME main \in Undecided, ~session.failed PROVE CarriedOut(Len(shown))'
    <3>1. /\ Len(shown) > 0 /\ shown[Len(shown)] = [order |-> turn.order, final |-> TRUE]
          /\ Follows(shown, commanded, Len(shown) - 1)
      BY <2>2, <2>4, CarriedFollows DEF CommandsFollow
    <3>2. Follows(shown, commanded', Len(shown))
      BY <1>2, <2>1, <2>3, <3>1, FollowsNext
    <3>3. QED
      BY <2>1, <3>2, CarriedFollows
  <2>5. QED
    BY <1>1, <2>1, <2>2, <2>4 DEF CommandsFollow
<1>8. CASE TurnFails
  <2>1. session'.failed /\ task'.reader = "done"
    BY <1>0, <1>8 DEF TurnFails, TurnRaises, Failed, Tasks, SessionTypeOK
  <2>2. QED
    BY <2>1 DEF CommandsFollow
<1>9. QED
  BY <1>3, <1>4, <1>5, <1>6, <1>7, <1>8 DEF TurnStep
-----------------------------------------------------------------------------
(* Frames in order, from the receiver to the provider. *)

(* FramesInOrder without the task that uploads. *)
Queued(taken) ==
    /\ \A i \in 1..Len(audio) :
          audio[i] = IF receive = "stopped" /\ i = Len(audio) THEN Stop ELSE taken + i
    /\ receive = "receiving" => frames = taken + Len(audio)
    /\ receive = "blocked" => IF held = Stop THEN frames = taken + Len(audio)
                             ELSE held = frames /\ frames = taken + Len(audio) + 1
    /\ receive = "stopped" => audio # <<>> /\ frames + 1 = taken + Len(audio)

LEMMA QueueTyped ==
  ASSUME SocketTypeOK
  PROVE  frames \in Nat /\ audio \in Seq(0..MaxFrames)
<1>1. frames \in 0..MaxFrames /\ audio \in Seq(0..MaxFrames)
  BY DEF SocketTypeOK
<1>2. QED
  BY <1>1, StreamAssumption

LEMMA SentTyped ==
  ASSUME SessionTypeOK
  PROVE  sent \in Seq(Nat) /\ Len(sent) \in Nat /\ DOMAIN sent = 1..Len(sent) /\ Taken \in Nat
  BY DEF SessionTypeOK, Taken

(* The receiver puts the next frame into the queue, or the end marker. *)
LEMMA EnqueueInOrder ==
  ASSUME SocketTypeOK, NEW taken \in Nat,
         NEW item \in 0..MaxFrames, NEW next \in {"receiving", "stopped"}, Enqueue(item, next),
         frames' \in Nat, receive \in {"receiving", "blocked"},
         \A i \in 1..Len(audio) : audio[i] = taken + i,
         IF next = "stopped" THEN item = Stop /\ frames' = taken + Len(audio)
         ELSE item # Stop /\ item = frames' /\ frames' = taken + Len(audio) + 1
  PROVE  Queued(taken)'
<1>1. audio \in Seq(0..MaxFrames)
  BY DEF SocketTypeOK
<1>2. CASE Len(audio) < AUDIO_QUEUE_MAXSIZE
  <2>1. audio' = Append(audio, item) /\ receive' = next
    BY <1>2 DEF Enqueue
  <2>2. /\ Len(audio) \in Nat /\ Len(audio') = Len(audio) + 1 /\ audio'[Len(audio) + 1] = item
        /\ \A i \in 1..Len(audio) : audio'[i] = audio[i]
    BY <1>1, <2>1, AppendedAt
  <2>3. \A i \in 1..(Len(audio) + 1) : i = Len(audio) + 1 \/ (i \in 1..Len(audio) /\ i # Len(audio) + 1)
    BY <2>2
  <2>4. \A i \in 1..Len(audio') :
          audio'[i] = IF receive' = "stopped" /\ i = Len(audio') THEN Stop ELSE taken + i
    BY <2>1, <2>2, <2>3
  <2>5. audio' # <<>>
    BY <2>2
  <2>6. QED
    BY <2>1, <2>2, <2>4, <2>5 DEF Queued
<1>3. CASE ~(Len(audio) < AUDIO_QUEUE_MAXSIZE)
  <2>1. audio' = audio /\ receive' = "blocked" /\ held' = item
    BY <1>3 DEF Enqueue
  <2>2. \A i \in 1..Len(audio') :
          audio'[i] = IF receive' = "stopped" /\ i = Len(audio') THEN Stop ELSE taken + i
    BY <2>1
  <2>3. QED
    BY <2>1, <2>2 DEF Queued
<1>4. QED
  BY <1>2, <1>3

LEMMA ReceiverInOrder ==
  ASSUME VInv, FramesInOrder,
         ReceiveFrame \/ ReceiveStop \/ ReceiveBad \/ ReceiveEnds \/ ClientLeaves
  PROVE  FramesInOrder'
<1>0. SessionTypeOK /\ SocketTypeOK /\ frames \in Nat /\ Taken \in Nat
  BY SentTyped, QueueTyped DEF VInv
<1>1. /\ UNCHANGED <<task, chunk, sent>> /\ Taken' = Taken
      /\ receive = "stopped" => receive' = "stopped" /\ frames' = frames
  <2>1. UNCHANGED <<task, chunk, sent>>
    BY DEF ReceiveFrame, ReceiveStop, ReceiveBad, ReceiveEnds, ClientLeaves, Unblock, ReceiveDisconnect,
           Backpressure, Receives, sessionVars
  <2>2. receive = "stopped" => ClientLeaves
    BY DEF ReceiveFrame, ReceiveStop, ReceiveBad, ReceiveEnds, Unblock, ReceiveDisconnect, Backpressure
  <2>3. QED
    BY <2>1, <2>2 DEF ClientLeaves, Taken
<1>2. ASSUME task.upload \in {"none", "pulling", "sending"}
      PROVE  Queued(Taken)'
  <2>1. Queued(Taken)
    BY <1>2 DEF FramesInOrder, Queued
  <2>2. CASE ReceiveFrame
    <3>1. /\ receive = "receiving" /\ frames' = frames + 1 /\ frames < MaxFrames
          /\ Enqueue(frames', "receiving")
      BY <2>2 DEF ReceiveFrame
    <3>2. frames' \in 0..MaxFrames /\ frames' # Stop /\ frames' \in Nat
      BY <1>0, <3>1, StreamAssumption DEF Stop
    <3>3. /\ \A i \in 1..Len(audio) : audio[i] = Taken + i
          /\ frames' = Taken + Len(audio) + 1
      BY <1>0, <2>1, <3>1 DEF Queued
    <3>4. Queued(Taken)'
      BY <1>0, <1>1, <3>1, <3>2, <3>3, EnqueueInOrder DEF Queued
    <3>5. QED
      BY <3>4
  <2>3. CASE ReceiveStop
    <3>1. receive = "receiving" /\ frames' = frames /\ Enqueue(Stop, "stopped")
      BY <2>3 DEF ReceiveStop
    <3>2. Stop \in 0..MaxFrames
      BY StreamAssumption DEF Stop
    <3>3. /\ \A i \in 1..Len(audio) : audio[i] = Taken + i
          /\ frames' = Taken + Len(audio)
      BY <1>0, <2>1, <3>1 DEF Queued
    <3>4. QED
      BY <1>0, <1>1, <3>1, <3>2, <3>3, EnqueueInOrder DEF Queued
  <2>4. CASE Unblock
    <3>1. /\ receive = "blocked" /\ frames' = frames /\ held \in 0..MaxFrames
          /\ Enqueue(held, IF held = Stop THEN "stopped" ELSE "receiving")
      BY <1>0, <2>4 DEF Unblock, SocketTypeOK
    <3>2. /\ \A i \in 1..Len(audio) : audio[i] = Taken + i
          /\ held = Stop => frames' = Taken + Len(audio)
          /\ held # Stop => held = frames' /\ frames' = Taken + Len(audio) + 1
      BY <1>0, <2>1, <3>1 DEF Queued
    <3>3. CASE held = Stop
      BY <1>0, <1>1, <3>1, <3>2, <3>3, EnqueueInOrder DEF Queued
    <3>4. CASE held # Stop
      BY <1>0, <1>1, <3>1, <3>2, <3>4, EnqueueInOrder DEF Queued
    <3>5. QED
      BY <3>3, <3>4
  <2>5. CASE ReceiveBad \/ ReceiveDisconnect \/ Backpressure
    <3>1. /\ UNCHANGED <<audio, frames>> /\ receive \in {"receiving", "blocked"}
          /\ receive' \in {"bad", "left", "slow"}
      BY <2>5 DEF ReceiveBad, ReceiveDisconnect, Backpressure, Receives
    <3>2. QED
      BY <1>1, <2>1, <3>1 DEF Queued
  <2>6. CASE ClientLeaves
    BY <1>1, <2>1, <2>6 DEF ClientLeaves, Queued
  <2>7. QED
    BY <2>2, <2>3, <2>4, <2>5, <2>6 DEF ReceiveEnds
<1>3. QED
  BY <1>1, <1>2 DEF FramesInOrder, Queued

(* A step of the upload moves nothing of the reader, the stream or the end. *)
LEMMA UploadMovesOn ==
  ASSUME VInv, UploadStep \/ UploadNext
  PROVE  /\ UNCHANGED <<session, cancel, turn>>
         /\ UNCHANGED <<main, receive, held, code, frames, shown, commanded>>
         /\ task'.connect = task.connect /\ task'.reader = task.reader
         /\ task'.stream = task.stream /\ task'.close = task.close
         /\ task.upload \in {"pulling", "sending"}
<1>1. /\ UNCHANGED <<session, cancel, turn>>
      /\ UNCHANGED <<main, receive, held, code, frames, shown, commanded>>
      /\ task.upload \in {"pulling", "sending"}
  BY DEF UploadStep, UploadSends, UploadFails, UploadNext, UploadTakes, UploadEnds, socketVars
<1>2. PICK pc \in {"pulling", "sending", "done", "failed"} : task' = [task EXCEPT !.upload = pc]
  BY DEF UploadStep, UploadSends, UploadFails, UploadNext, UploadTakes, UploadEnds
<1>3. QED
  BY <1>1, <1>2 DEF VInv, SessionTypeOK, Tasks

LEMMA UploadInOrder ==
  ASSUME VInv, FramesInOrder, UploadStep \/ UploadNext
  PROVE  FramesInOrder'
<1>0. SessionTypeOK /\ SocketTypeOK /\ task \in Tasks /\ sent \in Seq(Nat) /\ Len(sent) \in Nat
  BY SentTyped DEF VInv, SessionTypeOK
<1>1. UNCHANGED <<receive, held, frames>> /\ frames \in Nat /\ audio \in Seq(0..MaxFrames)
  BY <1>0, UploadMovesOn, QueueTyped
<1>2. CASE UploadSends /\ UNCHANGED socketVars
  <2>1. /\ task.upload = "sending" /\ task' = [task EXCEPT !.upload = "pulling"]
        /\ sent' = Append(sent, chunk) /\ audio' = audio /\ chunk \in Nat
    BY <1>0, <1>2 DEF UploadSends, socketVars, SessionTypeOK
  <2>2. task'.upload = "pulling" /\ chunk = Len(sent) + 1
    BY <1>0, <2>1 DEF Tasks, FramesInOrder
  <2>3. /\ Len(sent') = Len(sent) + 1 /\ DOMAIN sent' = 1..(Len(sent) + 1) /\ sent'[Len(sent) + 1] = chunk
        /\ DOMAIN sent = 1..Len(sent) /\ \A i \in 1..Len(sent) : sent'[i] = sent[i]
    BY <1>0, <2>1, AppendedAt
  <2>4. \A i \in DOMAIN sent' : sent'[i] = i
    <3>1. \A i \in 1..(Len(sent) + 1) : i = Len(sent) + 1 \/ i \in 1..Len(sent)
      BY <1>0
    <3>2. QED
      BY <2>2, <2>3, <3>1 DEF FramesInOrder
  <2>5. Queued(Len(sent) + 1)
    BY <2>1 DEF FramesInOrder, Queued, Taken
  <2>6. Queued(Len(sent))'
    BY <1>1, <2>1, <2>3, <2>5 DEF Queued
  <2>7. QED
    BY <2>2, <2>3, <2>4, <2>5, <1>1, <2>1 DEF FramesInOrder, Queued, Taken
<1>3. CASE UploadFails
  <2>1. task'.upload = "failed" /\ sent' = sent
    BY <1>0, <1>3 DEF UploadFails, Tasks
  <2>2. QED
    BY <2>1 DEF FramesInOrder
<1>4. CASE UploadNext
  <2>1. /\ audio # <<>> /\ audio' = Tail(audio) /\ task.upload = "pulling" /\ sent' = sent
        /\ IF Head(audio) = Stop THEN task' = [task EXCEPT !.upload = "done"]
           ELSE task' = [task EXCEPT !.upload = "sending"] /\ chunk' = Head(audio)
    BY <1>4 DEF UploadNext, UploadTakes, UploadEnds
  <2>2. /\ Len(audio) \in Nat /\ Len(audio) > 0 /\ Head(audio) = audio[1]
        /\ Len(audio') = Len(audio) - 1 /\ \A i \in 1..Len(audio') : audio'[i] = audio[i + 1]
    BY <1>1, <2>1
  <2>3. Queued(Len(sent))
    BY <2>1 DEF FramesInOrder, Queued, Taken
  <2>4. audio[1] = IF receive = "stopped" /\ Len(audio) = 1 THEN Stop ELSE Len(sent) + 1
    BY <2>2, <2>3 DEF Queued
  <2>5. CASE Head(audio) = Stop
    <3>1. receive = "stopped" /\ Len(audio) = 1
      BY <1>0, <2>2, <2>4, <2>5 DEF Stop
    <3>2. Len(sent) = frames
      BY <1>0, <1>1, <2>3, <3>1 DEF Queued
    <3>3. task'.upload = "done"
      BY <1>0, <2>1, <2>5 DEF Tasks
    <3>4. QED
      BY <1>1, <2>1, <3>1, <3>2, <3>3 DEF FramesInOrder
  <2>6. CASE Head(audio) # Stop
    <3>1. /\ task'.upload = "sending" /\ chunk' = Len(sent) + 1
          /\ ~(receive = "stopped" /\ Len(audio) = 1)
      BY <1>0, <2>1, <2>2, <2>4, <2>6 DEF Tasks
    <3>2. \A i \in 1..Len(audio') :
            audio'[i] = IF receive = "stopped" /\ i = Len(audio') THEN Stop ELSE Len(sent) + 1 + i
      <4>1. ASSUME NEW i \in 1..Len(audio')
            PROVE  audio'[i] = IF receive = "stopped" /\ i = Len(audio') THEN Stop ELSE Len(sent) + 1 + i
        <5>1. /\ i + 1 \in 1..Len(audio) /\ (i + 1 = Len(audio) <=> i = Len(audio'))
              /\ Len(sent) + (i + 1) = Len(sent) + 1 + i
          BY <1>0, <2>2
        <5>2. QED
          BY <2>2, <2>3, <5>1 DEF Queued
      <4>2. QED
        BY <4>1
    <3>3. /\ Len(sent) + 1 + Len(audio') = Len(sent) + Len(audio)
          /\ receive = "stopped" => audio' # <<>>
      BY <1>0, <2>2, <3>1
    <3>4. Queued(Len(sent) + 1)'
      BY <1>0, <1>1, <2>1, <2>2, <2>3, <3>2, <3>3 DEF Queued
    <3>5. QED
      BY <1>1, <2>1, <3>1, <3>4 DEF FramesInOrder, Queued, Taken
  <2>7. QED
    BY <2>5, <2>6
<1>5. QED
  BY <1>2, <1>3, <1>4 DEF UploadStep

LEMMA UploadDrains ==
  ASSUME VInv, StreamSound, CommandsFollow, CleanEnd, UploadStep \/ UploadNext
  PROVE  StreamSound' /\ CommandsFollow' /\ CleanEnd'
<1>1. /\ UNCHANGED <<session, cancel, turn>>
      /\ UNCHANGED <<main, receive, held, code, frames, shown, commanded>>
      /\ task'.connect = task.connect /\ task'.reader = task.reader
      /\ task'.stream = task.stream /\ task'.close = task.close
      /\ task.upload \in {"pulling", "sending"}
  BY UploadMovesOn
<1>2. StreamSound' /\ CleanEnd'
  BY <1>1 DEF StreamSound, CleanEnd, EndsWell
<1>3. CommandsFollow'
  BY <1>1, CarriedFollows DEF CommandsFollow, InHand
<1>4. QED
  BY <1>2, <1>3
-----------------------------------------------------------------------------
(* The stream task and the handler. *)

(* From task t to task u, the reader and the upload at most torn down. *)
Torn(t, u) ==
    /\ u.connect = t.connect
    /\ u.reader = t.reader \/ (t.reader \in Live /\ u.reader = "cancelled")
    /\ u.upload = t.upload \/ (t.upload \in Live /\ u.upload = "cancelled")

LEMMA TearingDown ==
  ASSUME NEW t \in Tasks
  PROVE  Torn(t, CancelIO(t)) /\ Torn(t, Disconnecting(t)) /\ Torn(t, Interrupted(t))
<1> DEFINE c == CancelIO(t)
<1>1. Torn(t, c) /\ c \in Tasks
  <2>1. /\ c.connect = t.connect /\ c.reader = Cancelled(t.reader) /\ c.upload = Cancelled(t.upload)
    BY DEF CancelIO, Tasks
  <2>2. QED
    BY <2>1, TornDown DEF Torn, Cancelled
<1>2. Disconnecting(t) = [c EXCEPT !.close = "disconnecting"]
  BY DEF Disconnecting
<1> HIDE DEF c
<1>3. Torn(t, Disconnecting(t))
  BY <1>1, <1>2 DEF Torn, Tasks
<1>4. Torn(t, Interrupted(t))
  BY <1>3 DEF Interrupted, Torn, Tasks
<1>5. QED
  BY <1>1, <1>3, <1>4 DEF c

(* Whatever happens to the stream, the frames keep their order, the         *)
(* commands follow while nothing has failed, and a clean end stays one.     *)
LEMMA TornDrains ==
  ASSUME VInv, FramesInOrder, CommandsFollow, CleanEnd,
         UNCHANGED <<turn, chunk, sent, receive, audio, held, code, frames, shown, commanded>>,
         Raised, Torn(task, task'), task'.stream # "none" => task.stream # "none",
         task.stream \in StreamEnded => task'.stream \in StreamEnded,
         \/ main' = main
         \/ main \in Undecided /\ main' \in Undecided
         \/ main \in Decided /\ main' \in Decided,
         main \in Undecided => session'.failed \/ task'.reader = task.reader
  PROVE  FramesInOrder' /\ CommandsFollow' /\ CleanEnd'
<1>1. FramesInOrder'
  BY DEF FramesInOrder, Taken, Torn, Live
<1>2. CommandsFollow'
  <2>1. task'.reader = "command" => turn'.final
    BY DEF CommandsFollow, Torn
  <2>2. ASSUME main' \in Undecided, ~session'.failed
        PROVE  main \in Undecided /\ ~session.failed /\ task'.reader = task.reader
    BY <2>2 DEF Raised, Undecided, Decided
  <2>3. ASSUME main' \in Undecided, ~session'.failed
        PROVE  IF InHand'
               THEN /\ Len(shown') > 0 /\ shown'[Len(shown')] = [order |-> turn'.order, final |-> TRUE]
                    /\ CarriedOut(Len(shown) - 1)'
               ELSE CarriedOut(Len(shown))'
    <3>1. InHand' = InHand
      BY <2>2, <2>3 DEF InHand
    <3>2. QED
      BY <2>2, <2>3, <3>1, CarriedFollows DEF CommandsFollow
  <2>4. QED
    BY <2>1, <2>3 DEF CommandsFollow
<1>3. CleanEnd'
  <2> SUFFICES ASSUME main' \in Decided, code' = 1000, receive' = "stopped", task'.stream # "none"
               PROVE  EndsWell'
    BY DEF CleanEnd
  <2>0. main' \notin Undecided
    BY DEF Undecided, Decided
  <2>1. main \in Decided
    BY <2>0
  <2>2. EndsWell
    BY <2>1 DEF CleanEnd
  <2>3. QED
    BY <2>2, CarriedFollows DEF EndsWell, Torn, Live, Callback, Raised
<1>4. QED
  BY <1>1, <1>2, <1>3

LEMMA StreamDrains ==
  ASSUME VInv, StreamSound, FramesInOrder, CommandsFollow, CleanEnd, StreamStep
  PROVE  StreamSound' /\ FramesInOrder' /\ CommandsFollow' /\ CleanEnd'
<1>0. TasksSound /\ task \in Tasks /\ session \in Session
  BY DEF VInv, SessionTypeOK, Session
<1>1. UNCHANGED socketVars /\ UNCHANGED <<turn, inbox, provider, posted, chunk, sent>>
  BY DEF StreamStep, StreamWakes, TerminateSent, ReaderAwaited, CloseFails, CloseEnds, StreamCancelled,
         CloseBegins
<1>2. ASSUME Raised, Torn(task, task'), StreamSound', task'.stream # "none" => task.stream # "none",
             task.stream \in StreamEnded => task'.stream \in StreamEnded,
             main \in Undecided => session'.failed \/ task'.reader = task.reader
      PROVE  StreamSound' /\ FramesInOrder' /\ CommandsFollow' /\ CleanEnd'
  BY <1>1, <1>2, TornDrains DEF socketVars
<1>3. CASE StreamWakes /\ StreamComplete
  <2>1. /\ task.stream = "streaming" /\ task.upload = "done" /\ session.begun /\ cancel' = cancel
        /\ session' = [session EXCEPT !.closing = TRUE]
        /\ task' = [task EXCEPT !.stream = "closing", !.close = "terminating"]
    BY <1>3 DEF StreamWakes, StreamComplete, CloseBegins, StreamSound
  <2>2. Raised
    BY <1>0, <2>1 DEF Raised, Session
  <2>3. /\ task'.connect = task.connect /\ task'.reader = task.reader /\ task'.upload = task.upload
        /\ task'.stream = "closing" /\ task'.close = "terminating"
    BY <1>0, <2>1 DEF Tasks
  <2>4. StreamSound'
    BY <1>1, <2>1, <2>2, <2>3 DEF StreamSound, Raised, socketVars
  <2>5. QED
    BY <1>2, <2>1, <2>2, <2>3, <2>4 DEF Torn, StreamEnded
<1>4. CASE StreamWakes /\ ~StreamComplete
  <2> DEFINE c == CancelIO(task)
  <2>1. /\ task.stream = "streaming" /\ cancel' = cancel /\ session' = Failed(session)
        /\ task' = [c EXCEPT !.stream = "ended"] /\ c \in Tasks /\ Torn(task, c)
    BY <1>0, <1>4, TornDown, TearingDown DEF StreamWakes
  <2>2. Raised /\ session'.failed
    BY <1>0, <2>1, FlagsRaised DEF Failed, Session
  <2> HIDE DEF c
  <2>3. Torn(task, task') /\ task'.stream = "ended"
    BY <2>1 DEF Torn, Tasks
  <2>4. StreamSound'
    BY <1>0, <1>1, <2>1, <2>2, <2>3 DEF StreamSound, TasksSound, Raised, Torn, socketVars
  <2>5. QED
    BY <1>2, <2>1, <2>2, <2>3, <2>4 DEF StreamEnded
<1>5. CASE TerminateSent
  <2>1. /\ task.close = "terminating" /\ UNCHANGED <<session, cancel>>
        /\ task' = [task EXCEPT !.close = "awaiting"]
    BY <1>5 DEF TerminateSent
  <2>2. /\ task'.connect = task.connect /\ task'.reader = task.reader /\ task'.upload = task.upload
        /\ task'.stream = task.stream /\ task'.close = "awaiting" /\ Raised
    BY <1>0, <2>1 DEF Tasks, Raised
  <2>3. StreamSound'
    BY <1>1, <2>1, <2>2 DEF StreamSound, socketVars
  <2>4. QED
    BY <1>2, <2>2, <2>3 DEF Torn
<1>6. CASE ReaderAwaited \/ CloseFails
  <2>1. /\ task.close \in {"terminating", "awaiting"} /\ cancel' = cancel
        /\ task' = Disconnecting(task) /\ session' \in {session, Failed(session)}
        /\ session'.failed \/ (session'.terminated /\ task.reader \notin Live)
    BY <1>0, <1>6 DEF ReaderAwaited, CloseFails, Awaited, Failed, Session
  <2>2. Raised
    BY <1>0, <2>1, FlagsRaised
  <2>3. /\ Torn(task, task') /\ task'.stream = task.stream /\ task'.close = "disconnecting"
    BY <1>0, <2>1, TearingDown, TornDownFor
  <2>4. StreamSound'
    BY <1>0, <1>1, <2>1, <2>2, <2>3 DEF StreamSound, Raised, Torn, Live, Callback, socketVars
  <2>5. QED
    BY <1>2, <2>1, <2>2, <2>3, <2>4 DEF Torn
<1>7. CASE CloseEnds
  <2>1. /\ task.close = "disconnecting" /\ cancel' = cancel /\ session' \in {session, Failed(session)}
    BY <1>7 DEF CloseEnds
  <2>2. PICK stream \in {task.stream, "ended", "done"} :
          /\ task' = [task EXCEPT !.close = "closed", !.stream = stream]
          /\ IF task.stream # "closing" THEN stream = task.stream
             ELSE stream = IF session'.failed THEN "ended" ELSE "done"
    BY <1>0, <1>7 DEF CloseEnds, Tasks
  <2>3. Raised
    BY <1>0, <2>1, FlagsRaised
  <2>4. /\ task'.connect = task.connect /\ task'.reader = task.reader /\ task'.upload = task.upload
        /\ task'.stream = stream /\ task'.close = "closed"
    BY <1>0, <2>2 DEF Tasks
  <2>5. StreamSound'
    <3>1. CASE task.stream # "closing"
      BY <1>1, <2>1, <2>2, <2>3, <2>4, <3>1 DEF StreamSound, Raised, socketVars
    <3>2. CASE task.stream = "closing"
      BY <1>1, <2>1, <2>2, <2>3, <2>4, <3>2 DEF StreamSound, Raised, socketVars
    <3>3. QED
      BY <3>1, <3>2
  <2>6. QED
    BY <1>2, <2>2, <2>3, <2>4, <2>5 DEF Torn, StreamEnded
<1>8. CASE StreamCancelled
  <2>1. /\ cancel /\ cancel' = FALSE /\ session' = session /\ task.stream \in {"streaming", "closing"}
        /\ main \notin Undecided
    BY <1>0, <1>8 DEF StreamCancelled, TasksSound, StreamSound
  <2>2. Raised
    BY <2>1 DEF Raised
  <2>3. CASE task.stream = "streaming"
    <3> DEFINE c == CancelIO(task)
    <3>1. task' = [c EXCEPT !.stream = "ended"] /\ c \in Tasks /\ Torn(task, c)
      BY <1>0, <1>8, <2>3, TornDown, TearingDown DEF StreamCancelled
    <3> HIDE DEF c
    <3>2. Torn(task, task') /\ task'.stream = "ended"
      BY <3>1 DEF Torn, Tasks
    <3>3. StreamSound'
      BY <1>0, <1>1, <2>1, <2>3, <3>2 DEF StreamSound, TasksSound, Torn, socketVars
    <3>4. QED
      BY <1>2, <2>1, <2>2, <2>3, <3>2, <3>3 DEF StreamEnded
  <2>4. CASE task.stream = "closing"
    <3>1. task' = Interrupted(task)
      BY <1>8, <2>4 DEF StreamCancelled
    <3>2. Torn(task, task') /\ task'.stream \in {"closing", "ended"}
      BY <1>0, <2>4, <3>1, TearingDown, InterruptedFacts
    <3>3. StreamSound'
      BY <1>0, <1>1, <2>1, <2>4, <3>2 DEF StreamSound, TasksSound, Torn, Live, Callback, socketVars
    <3>4. QED
      BY <1>2, <2>1, <2>2, <2>4, <3>2, <3>3 DEF StreamEnded
  <2>5. QED
    BY <2>1, <2>3, <2>4
<1>9. QED
  BY <1>3, <1>4, <1>5, <1>6, <1>7, <1>8 DEF StreamStep

LEMMA ShutDownDrains ==
  ASSUME VInv, StreamSound, FramesInOrder, CommandsFollow, NEW c, ShutDown(c),
         c = 1000 /\ receive = "stopped" /\ task.stream # "none" => EndsWell
  PROVE  StreamSound' /\ FramesInOrder' /\ CommandsFollow' /\ CleanEnd'
<1>0. task \in Tasks
  BY DEF VInv, SessionTypeOK
<1>1. /\ main' = "gathering" /\ code' = c
      /\ receive' = IF receive \in ReceiveEnded THEN receive ELSE "cancelled"
      /\ task' = [task EXCEPT !.connect = Cancelled(task.connect)]
      /\ UNCHANGED <<session, turn, chunk, sent, held, audio, frames, shown, commanded>>
  BY DEF ShutDown, CancelTasks
<1>2. /\ task'.connect # "connecting" /\ task'.reader = task.reader /\ task'.upload = task.upload
      /\ task'.stream = task.stream /\ task'.close = task.close
  BY <1>0, <1>1 DEF Tasks, Cancelled, Live
<1>3. StreamSound' /\ CommandsFollow'
  BY <1>1, <1>2 DEF StreamSound, CommandsFollow, Undecided
<1>4. /\ receive' = "stopped" <=> receive = "stopped"
      /\ receive' # "receiving" /\ receive' # "blocked"
  BY <1>1 DEF ReceiveEnded
<1>5. FramesInOrder'
  BY <1>1, <1>2, <1>4 DEF FramesInOrder, Taken
<1>6. CleanEnd'
  BY <1>1, <1>2, <1>4, CarriedFollows DEF CleanEnd, EndsWell
<1>7. QED
  BY <1>3, <1>5, <1>6

LEMMA GotoDrains ==
  ASSUME VInv, StreamSound, FramesInOrder, CommandsFollow, CleanEnd, NEW next, Goto(next),
         \/ main = "connecting" /\ next = "readying"
         \/ main = "streaming" /\ next = "draining"
         \/ main \in Decided /\ next \in {"reporting", "closing", "done"}
  PROVE  StreamSound' /\ FramesInOrder' /\ CommandsFollow' /\ CleanEnd'
<1>1. /\ main' = next /\ UNCHANGED <<session, task, cancel, turn, chunk, sent>>
      /\ UNCHANGED <<receive, held, audio, code, frames, shown, commanded>>
  BY DEF Goto, sessionVars
<1>2. StreamSound'
  BY <1>1 DEF StreamSound, Undecided, Decided
<1>3. QED
  BY <1>1, <1>2, TornDrains DEF Torn, Raised, Undecided, Decided

(* The stream has ended without an error: everything has been seen to. *)
LEMMA DrainedWell ==
  ASSUME VInv, StreamSound, CommandsFollow, main = "draining", task.stream \in StreamEnded,
         ~session.failed, task.stream # "none"
  PROVE  EndsWell
<1>1. TasksSound /\ main \in Undecided
  BY DEF VInv, Undecided
<1>2. task.stream = "done" /\ task.upload = "done" /\ task.close = "closed" /\ session.terminated
  BY <1>1 DEF StreamSound, StreamEnded
<1>3. task.reader \notin Live
  BY <1>1, <1>2 DEF TasksSound
<1>4. CarriedOut(Len(shown))
  BY <1>1, <1>3 DEF CommandsFollow, InHand, Live, Callback
<1>5. QED
  BY <1>2, <1>3, <1>4 DEF EndsWell, StreamEnded

LEMMA MainDrains ==
  ASSUME VInv, StreamSound, FramesInOrder, CommandsFollow, CleanEnd, MainStep
  PROVE  StreamSound' /\ FramesInOrder' /\ CommandsFollow' /\ CleanEnd'
<1>0. task \in Tasks /\ session \in Session /\ TasksSound /\ HandlerSound
  BY DEF VInv, SessionTypeOK, Session
<1>1. CASE NotConnected \/ ReadyFails
  <2>1. task.stream = "none" /\ \E c \in CloseCode : ShutDown(c)
    BY <1>1, ReceiveCodes DEF NotConnected, ReadyFails, StreamSound
  <2>2. QED
    BY <2>1, ShutDownDrains
<1>2. CASE Streamed
  <2>1. \/ ShutDown(1011) \/ (receive # "stopped" /\ ShutDown(ReceiveCode))
        \/ (main = "streaming" /\ Goto("draining"))
    BY <1>2 DEF Streamed, StreamingEnds
  <2>2. QED
    BY <2>1, ShutDownDrains, GotoDrains
<1>3. CASE Drained \/ DrainExpired
  <2>1. CASE ShutDown(1011)
    BY <2>1, ShutDownDrains
  <2>2. CASE ~ShutDown(1011)
    BY <1>3, <2>2, DrainedWell, ShutDownDrains DEF Drained, DrainExpired
  <2>3. QED
    BY <2>1, <2>2
<1>4. CASE Connected \/ Gathered \/ Reported \/ Closes
  <2>1. \/ main = "connecting" /\ Goto("readying")
        \/ main \in Decided /\ \E next \in {"reporting", "closing", "done"} : Goto(next)
    BY <1>4 DEF Connected, Gathered, Reported, Closes, Decided
  <2>2. QED
    BY <2>1, GotoDrains
<1>5. CASE ReadySent
  <2>1. /\ main = "readying" /\ main' = "streaming" /\ session.begun
        /\ task' = [task EXCEPT !.stream = "streaming", !.upload = "pulling"]
        /\ UNCHANGED <<session, cancel, turn, chunk, sent>>
        /\ UNCHANGED <<receive, held, audio, code, frames, shown, commanded>>
    BY <1>5 DEF ReadySent, StreamStarts
  <2>2. /\ task'.connect = task.connect /\ task'.reader = task.reader /\ task'.upload = "pulling"
        /\ task'.stream = "streaming" /\ task'.close = task.close
    BY <1>0, <2>1 DEF Tasks
  <2>3. task.stream = "none" /\ task.upload = "none" /\ main \in Undecided
    BY <2>1 DEF StreamSound, Undecided
  <2>4. StreamSound'
    BY <2>1, <2>2, <2>3 DEF StreamSound
  <2>5. FramesInOrder'
    BY <2>1, <2>2, <2>3 DEF FramesInOrder, Taken
  <2>6. CommandsFollow'
    BY <2>1, <2>2, <2>3, CarriedFollows DEF CommandsFollow, InHand
  <2>7. CleanEnd'
    BY <2>1 DEF CleanEnd, Decided
  <2>8. QED
    BY <2>4, <2>5, <2>6, <2>7
<1>6. CASE DrainTimeout
  <2>1. /\ main' = "expired"
        /\ UNCHANGED <<session, task, turn, chunk, sent>>
        /\ UNCHANGED <<receive, held, audio, code, frames, shown, commanded>>
    BY <1>6 DEF DrainTimeout
  <2>2. StreamSound' /\ CommandsFollow' /\ CleanEnd'
    BY <2>1 DEF StreamSound, CommandsFollow, CleanEnd, Undecided, Decided
  <2>3. FramesInOrder'
    BY <2>1 DEF FramesInOrder, Taken
  <2>4. QED
    BY <2>2, <2>3
<1>7. CASE SessionCloses \/ CloseTimeout
  <2>1. /\ main = "closing" /\ main' \in {"closing", "close expired"} /\ task.close # "closed"
        /\ UNCHANGED <<cancel, turn, chunk, sent>>
        /\ UNCHANGED <<receive, held, audio, code, frames, shown, commanded>>
    BY <1>7 DEF SessionCloses, CloseTimeout, socketVars
  <2>2. task.stream \in {"none", "ended"}
    BY <1>0, <2>1 DEF HandlerSound, StreamSound, StreamEnded
  <2>3. Raised
    BY <1>0, <1>7 DEF SessionCloses, CloseBegins, CloseTimeout, Raised, Session
  <2>4. Torn(task, task') /\ task'.stream = task.stream
    <3>1. CASE CloseTimeout
      BY <1>0, <2>2, <3>1, TearingDown, InterruptedFacts DEF CloseTimeout
    <3>2. CASE task' = [task EXCEPT !.stream = task.stream, !.close = "terminating"]
      BY <1>0, <3>2 DEF Tasks, Torn
    <3>3. CASE task' = [CancelIO(task) EXCEPT !.stream = task.stream, !.close = "disconnecting"]
      <4> DEFINE c == CancelIO(task)
      <4>1. task' = [c EXCEPT !.stream = task.stream, !.close = "disconnecting"]
            /\ c \in Tasks /\ Torn(task, c)
        BY <1>0, <3>3, TornDown, TearingDown
      <4> HIDE DEF c
      <4>2. QED
        BY <4>1 DEF Torn, Tasks
    <3>4. QED
      BY <1>7, <3>1, <3>2, <3>3 DEF SessionCloses, CloseBegins
  <2>5. StreamSound'
    BY <1>0, <2>1, <2>2, <2>3, <2>4 DEF StreamSound, Raised, Torn, Live, Callback, Undecided
  <2>6. QED
    BY <2>1, <2>2, <2>3, <2>4, <2>5, TornDrains DEF Undecided, Decided
<1>8. QED
  BY <1>1, <1>2, <1>3, <1>4, <1>5, <1>6, <1>7 DEF MainStep

LEMMA DrainInvInitially == Init => DrainInv
<1> SUFFICES ASSUME Init PROVE DrainInv
  OBVIOUS
<1>1. StreamSound /\ CleanEnd
  BY DEF Init, SessionInit, StreamSound, CleanEnd, Decided
<1>2. FramesInOrder
  BY DEF Init, SessionInit, FramesInOrder, Taken
<1>3. CommandsFollow
  <2>1. task.reader = "none" /\ shown = <<>> /\ commanded = <<>>
    BY DEF Init, SessionInit
  <2>2. /\ Len(shown) = 0 /\ DOMAIN commanded = {} /\ 1..0 = {}
    BY <2>1
  <2>3. [i \in {} |-> 0] \in [DOMAIN commanded -> 1..0]
    BY <2>2
  <2>4. Follows(shown, commanded, 0)
    BY <2>2, <2>3 DEF Follows, Places
  <2>5. QED
    BY <2>1, <2>2, <2>4, CarriedFollows DEF CommandsFollow, InHand
<1>4. QED
  BY <1>1, <1>2, <1>3 DEF DrainInv

LEMMA DrainInvInductive == VInv /\ DrainInv /\ [Next]_vars => DrainInv'
<1> SUFFICES ASSUME VInv, DrainInv, [Next]_vars PROVE DrainInv'
  OBVIOUS
<1>0. StreamSound /\ FramesInOrder /\ CommandsFollow /\ CleanEnd
  BY DEF DrainInv
<1>1. CASE ReceiveFrame \/ ReceiveStop \/ ReceiveBad \/ ReceiveEnds \/ ClientLeaves
  <2>1. /\ UNCHANGED <<session, task, cancel, turn>> /\ UNCHANGED <<main, code, shown, commanded>>
        /\ receive \in ReceiveEnded => receive' = receive
    BY <1>1 DEF ReceiveFrame, ReceiveStop, ReceiveBad, ReceiveEnds, ClientLeaves, Unblock,
                ReceiveDisconnect, Backpressure, Receives, ReceiveEnded, sessionVars
  <2>2. StreamSound' /\ CommandsFollow' /\ FramesInOrder'
    BY <1>0, <1>1, <2>1, OutsideDrains, ReceiverInOrder
  <2>3. main \in Decided => receive \in ReceiveEnded
    BY DEF VInv, HandlerSound, Decided
  <2>4. CleanEnd'
    BY <1>0, <2>1, <2>3, CarriedFollows DEF CleanEnd, EndsWell
  <2>5. QED
    BY <2>2, <2>4 DEF DrainInv
<1>2. CASE ProviderStep \/ UNCHANGED vars
  <2>1. UNCHANGED <<session, task, cancel, turn, chunk, sent>> /\ UNCHANGED socketVars
    BY <1>2 DEF ProviderStep, ProviderSays, ConnectionLost, vars, sessionVars
  <2>2. StreamSound' /\ CommandsFollow' /\ FramesInOrder'
    BY <1>0, <2>1, OutsideDrains DEF socketVars, FramesInOrder, Taken
  <2>3. CleanEnd'
    BY <1>0, <2>1, CarriedFollows DEF CleanEnd, EndsWell, socketVars
  <2>4. QED
    BY <2>2, <2>3 DEF DrainInv
<1>3. CASE ConnectStep
  BY <1>0, <1>3, ConnectDrains DEF DrainInv
<1>4. CASE ReaderStep \/ TurnStep
  BY <1>0, <1>4, ReaderDrains, ReaderFollows, TurnFollows DEF DrainInv
<1>5. CASE UploadNext \/ UploadStep
  BY <1>0, <1>5, UploadDrains, UploadInOrder DEF DrainInv
<1>6. CASE StreamStep
  BY <1>0, <1>6, StreamDrains DEF DrainInv
<1>7. CASE MainStep
  BY <1>0, <1>7, MainDrains DEF DrainInv
<1>8. QED
  BY <1>1, <1>2, <1>3, <1>4, <1>5, <1>6, <1>7 DEF Next

-----------------------------------------------------------------------------
(* Final turns on their way from the provider to the client. *)

LEMMA Orders ==
  ASSUME VInv
  PROVE  /\ posted.finals \subseteq Order /\ Order \subseteq Nat
         /\ session.last \in Int
         /\ inbox \in Seq(Message) /\ Len(inbox) \in Nat
         /\ \A i \in 1..Len(inbox) : inbox[i] \in Message
         /\ \A i \in 1..Len(inbox) : Final(inbox[i]) => inbox[i].order \in Order
<1>1. /\ posted.finals \subseteq Order /\ session.last \in Order \cup {-1}
      /\ inbox \in Seq(Message)
  BY DEF VInv, SessionTypeOK
<1>2. Order \subseteq Nat
  BY ProviderAssumption DEF Order
<1>3. Len(inbox) \in Nat /\ \A i \in 1..Len(inbox) : inbox[i] \in Message
  BY <1>1
<1>4. \A m \in Message : Final(m) => m.order \in Order
  BY MessageKinds DEF Final
<1>5. session.last \in Int
  <2>1. \A o \in Order : o \in Nat
    BY <1>2
  <2>2. session.last \in Order \/ session.last = -1
    BY <1>1
  <2>3. QED
    BY <2>1, <2>2
<1>6. \A i \in 1..Len(inbox) : Final(inbox[i]) => inbox[i].order \in Order
  BY <1>3, <1>4, Zenon
<1>7. QED
  BY <1>1, <1>2, <1>3, <1>5, <1>6

LEMMA Shortened ==
  ASSUME NEW S, NEW q \in Seq(S), q # <<>>
  PROVE  /\ Len(q) \in Nat /\ Len(q) > 0 /\ Len(Tail(q)) = Len(q) - 1 /\ Head(q) = q[1]
         /\ \A i \in 1..Len(Tail(q)) : Tail(q)[i] = q[i + 1] /\ i + 1 \in 1..Len(q)
         /\ \A i \in 1..Len(q) : i # 1 => i - 1 \in 1..Len(Tail(q)) /\ Tail(q)[i - 1] = q[i]
  OBVIOUS

(* A step that leaves what the provider has sent, and who holds it, alone.  *)
LEMMA FinalsKept ==
  ASSUME FinalsFollow, UNCHANGED <<inbox, posted, shown>>, session'.last = session.last,
         Keeping' => Keeping,
         Keeping' /\ task.reader = "waiting" => task'.reader = "waiting" /\ turn' = turn
  PROVE  FinalsFollow'
<1> SUFFICES ASSUME Keeping', NEW o \in posted.finals
             PROVE  Shows(o)' \/ Held(o)' \/ Pending(o)'
  BY DEF FinalsFollow
<1>1. Shows(o) \/ Held(o) \/ Pending(o)
  BY DEF FinalsFollow
<1>2. Shows(o) => Shows(o)'
  BY DEF Shows
<1>3. Held(o) => Held(o)'
  BY DEF Held
<1>4. Pending(o) => Pending(o)'
  BY DEF Pending, Pends
<1>5. QED
  BY <1>1, <1>2, <1>3, <1>4

LEMMA BoundKept ==
  ASSUME ProviderSound, FinalsBound, UNCHANGED <<inbox, posted>>, session'.last = session.last,
         session'.terminated = session.terminated, provider' = provider \/ provider' = "lost"
  PROVE  ProviderSound' /\ FinalsBound'
  BY DEF ProviderSound, FinalsBound

(* A socket that has ended well has no reader any more. *)
LEMMA NoReaderLeft ==
  ASSUME CleanEnd, Keeping, main \in Decided
  PROVE  task.reader \notin Live /\ task.reader # "waiting"
  BY DEF CleanEnd, Keeping, EndsWell, Live, Callback, Undecided, Decided

LEMMA ProviderFinals ==
  ASSUME VInv, CleanEnd, FinalsInv, ProviderStep
  PROVE  FinalsInv'
<1>0. /\ ProviderSound /\ FinalsBound /\ FinalsFollow /\ (main \in Undecided => accepting)
      /\ UNCHANGED <<session, task, turn>> /\ UNCHANGED <<main, receive, accepting, code, shown>>
  BY DEF FinalsInv, ProviderStep, ProviderSays, ConnectionLost, socketVars
<1>1. Keeping' <=> Keeping
  BY <1>0 DEF Keeping
<1>2. CASE ConnectionLost
  <2>1. UNCHANGED <<inbox, posted>> /\ provider' = "lost"
    BY <1>2 DEF ConnectionLost
  <2>2. QED
    BY <1>0, <1>1, <2>1, FinalsKept, BoundKept DEF FinalsInv
<1>3. CASE ProviderSays
  <2> DEFINE n == Len(inbox)
  <2>1. PICK m \in Message : SaysMessage(m)
    BY <1>3 DEF ProviderSays, SaysMessage
  <2>2. provider = "up" /\ task.reader \in Live
    BY <1>3 DEF ProviderSays
  <2>3. /\ n \in Nat /\ Len(inbox') = n + 1 /\ inbox'[n + 1] = m
        /\ \A i \in 1..n : inbox'[i] = inbox[i]
    BY <2>1, Orders, AppendedAt DEF SaysMessage
  <2>4. /\ posted.finals \subseteq posted'.finals
        /\ posted'.finals = IF Finalizes(m) THEN posted.finals \cup {m.order} ELSE posted.finals
        /\ provider' = IF m.kind = "Turn" THEN "up" ELSE "over"
    BY <2>1 DEF SaysMessage
  <2> HIDE DEF n
  <2>5. \A i \in 1..(n + 1) : i \in 1..n \/ i = n + 1
    BY <2>3
  <2>6. ProviderSound'
    <3>1. ~session'.terminated
      BY <1>0, <2>2 DEF ProviderSound
    <3>2. \A i \in 1..n : inbox'[i].kind = "Turn"
      BY <1>0, <2>2, <2>3 DEF ProviderSound, n
    <3>3. QED
      BY <2>3, <2>4, <2>5, <3>1, <3>2 DEF ProviderSound
  <2>7. ASSUME Final(m) PROVE \E o \in posted'.finals : m.order <= o
    <3>1. m.order \in Order /\ m.order \in Nat
      BY <2>7, MessageKinds DEF Final
    <3>2. CASE Finalizes(m)
      BY <2>4, <3>1, <3>2
    <3>3. CASE ~Finalizes(m)
      <4>1. PICK o \in posted.finals : ~(o < m.order)
        BY <2>7, <3>3 DEF Finalizes, Final
      <4>2. o \in Nat
        BY <4>1, Orders
      <4>3. QED
        BY <2>4, <3>1, <4>1, <4>2
    <3>4. QED
      BY <3>2, <3>3
  <2>8. FinalsBound'
    <3>1. \A i \in 1..n : Final(inbox'[i]) => \E o \in posted'.finals : inbox'[i].order <= o
      BY <1>0, <2>3, <2>4 DEF FinalsBound, n
    <3>2. session'.last = -1 \/ \E o \in posted'.finals : session'.last <= o
      BY <1>0, <2>4 DEF FinalsBound
    <3>3. QED
      BY <2>3, <2>5, <2>7, <3>1, <3>2 DEF FinalsBound
  <2>9. FinalsFollow'
    <3> SUFFICES ASSUME Keeping', NEW o \in posted'.finals
                 PROVE  Shows(o)' \/ Held(o)' \/ Pending(o)'
      BY DEF FinalsFollow
    <3>1. CASE o \in posted.finals
      <4>1. Shows(o) \/ Held(o) \/ Pending(o)
        BY <1>0, <1>1, <3>1 DEF FinalsFollow
      <4>2. CASE Shows(o) \/ Held(o)
        BY <1>0, <4>2 DEF Shows, Held
      <4>3. CASE Pending(o)
        <5>1. PICK i \in 1..n : Pends(o, i)
          BY <4>3 DEF Pending, n
        <5>2. i \in 1..(n + 1) /\ i # n + 1 /\ \A j \in 1..(n + 1) : j < i => j \in 1..n
          BY <2>3, <5>1
        <5>3. Pends(o, i)'
          BY <1>0, <2>3, <5>1, <5>2 DEF Pends, n
        <5>4. QED
          BY <2>3, <5>2, <5>3 DEF Pending
      <4>4. QED
        BY <4>1, <4>2, <4>3
    <3>2. CASE o \notin posted.finals
      <4>1. Finalizes(m) /\ o = m.order /\ o \in Nat
        BY <2>4, <3>2, MessageKinds DEF Finalizes
      <4>2. \A x \in Int : (\E y \in posted.finals : x <= y) => x < o
        <5>1. \A y \in posted.finals : y \in Nat /\ y < o
          BY <4>1, Orders DEF Finalizes
        <5>2. QED
          BY <4>1, <5>1
      <4>3. session'.last < o
        BY <1>0, <4>1, <4>2, Orders DEF FinalsBound
      <4>4. \A j \in 1..n : Final(inbox'[j]) => inbox'[j].order < o
        <5>1. \A j \in 1..n : Final(inbox[j]) => inbox[j].order \in Int
          BY Orders DEF n
        <5>2. QED
          BY <1>0, <2>3, <4>2, <5>1 DEF FinalsBound, n
      <4>5. PICK k \in 1..(n + 1) : k = n + 1
        BY <2>3
      <4>6. Pends(o, k)'
        <5>1. Final(inbox'[k]) /\ inbox'[k].order = o
          BY <2>3, <4>1, <4>5 DEF Finalizes, Final
        <5>2. \A j \in 1..(n + 1) : j < k => j \in 1..n
          BY <2>3, <4>5
        <5>3. QED
          BY <2>3, <4>3, <4>4, <5>1, <5>2 DEF Pends
      <4>7. QED
        BY <2>3, <4>5, <4>6 DEF Pending
    <3>3. QED
      BY <3>1, <3>2
  <2>10. QED
    BY <1>0, <2>6, <2>8, <2>9 DEF FinalsInv
<1>4. QED
  BY <1>2, <1>3 DEF ProviderStep

(* The first message is taken, and what was pending behind it still is. *)
LEMMA StillPending ==
  ASSUME VInv, inbox # <<>>, inbox' = Tail(inbox), NEW o \in Order,
         NEW i \in 1..Len(inbox), Pends(o, i), i # 1, session'.last < o
  PROVE  Pending(o)'
<1> DEFINE n == Len(inbox)
<1>1. /\ n \in Nat /\ Len(inbox') = n - 1
      /\ \A k \in 1..(n - 1) : inbox'[k] = inbox[k + 1] /\ k + 1 \in 1..n
      /\ i - 1 \in 1..(n - 1) /\ inbox'[i - 1] = inbox[i]
  BY Orders, Shortened
<1> HIDE DEF n
<1>2. \A k \in 1..(n - 1) : k < i - 1 => k + 1 < i
  BY <1>1 DEF n
<1>3. \A k \in 1..(n - 1) : k < i - 1 /\ Final(inbox'[k]) => inbox'[k].order < o
  BY <1>1, <1>2 DEF Pends, n
<1>4. Final(inbox'[i - 1]) /\ inbox'[i - 1].order = o
  BY <1>1 DEF Pends
<1>5. Pends(o, i - 1)'
  BY <1>1, <1>3, <1>4 DEF Pends
<1>6. QED
  BY <1>1, <1>5 DEF Pending

LEMMA TakenSound ==
  ASSUME VInv, ProviderSound, FinalsBound, inbox # <<>>, inbox' = Tail(inbox),
         UNCHANGED <<provider, posted>>
  PROVE  /\ \A i \in 1..Len(inbox') : inbox'[i].kind # "Turn" => i = Len(inbox') /\ provider' # "up"
         /\ \A i \in 1..Len(inbox') : Final(inbox'[i]) => \E o \in posted'.finals : inbox'[i].order <= o
<1> DEFINE n == Len(inbox)
<1>1. /\ n \in Nat /\ Len(inbox') = n - 1
      /\ \A k \in 1..(n - 1) : inbox'[k] = inbox[k + 1] /\ k + 1 \in 1..n
  BY Orders, Shortened
<1> HIDE DEF n
<1>2. \A k \in 1..(n - 1) : k + 1 = n => k = n - 1
  BY <1>1
<1>3. QED
  BY <1>1, <1>2 DEF ProviderSound, FinalsBound, n

LEMMA ReaderFinals ==
  ASSUME VInv, StreamSound, CleanEnd, FinalsInv, ReaderStep
  PROVE  FinalsInv'
<1>0. /\ ProviderSound /\ FinalsBound /\ FinalsFollow /\ (main \in Undecided => accepting)
      /\ UNCHANGED <<main, receive, accepting, code, shown>>
      /\ UNCHANGED <<provider, posted>>
      /\ task.reader = "reading" /\ session \in Session /\ task \in Tasks
  BY DEF FinalsInv, ReaderStep, ReadTurn, ReadEnd, ReadClosed, socketVars, VInv, SessionTypeOK, Session
<1>1. Raised /\ task'.stream = task.stream
  BY <1>0, ReaderMovesOn DEF Tasks
<1>2. Keeping' => Keeping /\ main \in Undecided /\ ~session'.failed
  <2>1. Keeping' => Keeping
    BY <1>0, <1>1 DEF Keeping, Raised
  <2>2. ~(Keeping /\ main \in Decided)
    BY <1>0, NoReaderLeft DEF Live, Callback
  <2>3. QED
    BY <1>0, <2>1, <2>2 DEF Keeping
<1>3. CASE ReadClosed
  <2>1. session' = Failed(session) /\ UNCHANGED inbox
    BY <1>3 DEF ReadClosed
  <2>2. session'.failed /\ session'.last = session.last /\ session'.terminated = session.terminated
    BY <1>0, <2>1 DEF Failed, Session
  <2>3. ProviderSound' /\ FinalsBound'
    BY <1>0, <2>1, <2>2, BoundKept
  <2>4. FinalsFollow'
    BY <1>2, <2>2 DEF FinalsFollow
  <2>5. QED
    BY <1>0, <2>3, <2>4 DEF FinalsInv
<1>4. CASE ReadEnd
  <2>1. /\ inbox # <<>> /\ inbox' = Tail(inbox) /\ Head(inbox).kind # "Turn"
        /\ session' \in {Failed(session), Termination(session)}
    BY <1>4 DEF ReadEnd
  <2>2. session'.last = session.last
    BY <1>0, <2>1 DEF Failed, Termination, Session
  <2>3. Len(inbox) = 1 /\ provider # "up" /\ inbox' = <<>> /\ inbox[1].kind # "Turn"
    <3>1. 1 \in 1..Len(inbox) /\ Head(inbox) = inbox[1]
      BY <2>1, Orders, Shortened
    <3>2. 1 = Len(inbox) /\ provider # "up"
      BY <1>0, <2>1, <3>1 DEF ProviderSound
    <3>3. inbox' = <<>>
      BY <2>1, <3>2, Orders
    <3>4. QED
      BY <2>1, <3>1, <3>2, <3>3
  <2>4. ProviderSound' /\ FinalsBound'
    BY <1>0, <2>1, <2>2, <2>3, TakenSound DEF ProviderSound, FinalsBound
  <2>5. FinalsFollow'
    <3> SUFFICES ASSUME Keeping', NEW o \in posted.finals PROVE Shows(o)'
      BY <1>0 DEF FinalsFollow
    <3>1. Shows(o) \/ Held(o) \/ Pending(o)
      BY <1>0, <1>2 DEF FinalsFollow
    <3>2. ~Held(o)
      BY <1>0 DEF Held
    <3>3. ~Pending(o)
      <4>1. \A i \in 1..Len(inbox) : i = 1
        BY <2>3
      <4>2. QED
        BY <2>3, <4>1 DEF Pending, Pends, Final
    <3>4. QED
      BY <1>0, <3>1, <3>2, <3>3 DEF Shows
  <2>6. QED
    BY <1>0, <2>4, <2>5 DEF FinalsInv
<1>5. CASE ReadTurn
  <2> DEFINE m == Head(inbox)
  <2>1. /\ inbox # <<>> /\ inbox' = Tail(inbox) /\ m.kind = "Turn"
        /\ IF News(session, m)
           THEN /\ session' = IF m.final THEN [session EXCEPT !.last = m.order] ELSE session
                /\ task' = [task EXCEPT !.reader = "waiting"] /\ turn' = m
           ELSE session' = session
    BY <1>5 DEF ReadTurn
  <2>2. /\ m = inbox[1] /\ 1 \in 1..Len(inbox) /\ m \in Message
        /\ m.order \in Order /\ m.order \in Nat /\ m.final \in BOOLEAN
    <3>1. m = inbox[1] /\ 1 \in 1..Len(inbox)
      BY <2>1, Orders, Shortened
    <3>2. m \in Message
      BY <3>1, Orders
    <3>3. QED
      BY <2>1, <3>1, <3>2, MessageKinds
  <2> HIDE DEF m
  <2>3. /\ session'.terminated = session.terminated /\ session'.failed = session.failed
        /\ session'.last = IF News(session, m) /\ m.final THEN m.order ELSE session.last
    BY <1>0, <2>1 DEF Session
  <2>4. ProviderSound'
    <3>1. ~session.terminated
      BY <1>0, <2>1 DEF ProviderSound
    <3>2. QED
      BY <1>0, <2>1, <2>3, <3>1, TakenSound DEF ProviderSound
  <2>5. FinalsBound'
    <3>1. News(session, m) /\ m.final => Final(inbox[1]) /\ inbox[1].order = m.order
      BY <2>1, <2>2 DEF News, Final
    <3>2. session'.last = -1 \/ \E o \in posted'.finals : session'.last <= o
      BY <1>0, <2>2, <2>3, <3>1 DEF FinalsBound
    <3>3. QED
      BY <1>0, <2>1, <3>2, TakenSound DEF FinalsBound
  <2>6. FinalsFollow'
    <3> SUFFICES ASSUME Keeping', NEW o \in posted.finals PROVE Shows(o)' \/ Held(o)' \/ Pending(o)'
      BY <1>0 DEF FinalsFollow
    <3>1. Shows(o) \/ Pending(o)
      BY <1>0, <1>2 DEF FinalsFollow, Held
    <3>2. CASE Shows(o)
      BY <1>0, <3>2 DEF Shows
    <3>3. CASE Pending(o)
      <4>1. PICK i \in 1..Len(inbox) : Pends(o, i)
        BY <3>3 DEF Pending
      <4>2. o \in Order /\ o \in Int /\ i \in Int
        BY Orders
      <4>3. CASE i = 1
        <5>1. Final(m) /\ m.order = o /\ session.last < o
          BY <2>2, <4>1, <4>3 DEF Pends
        <5>2. News(session, m)
          BY <1>2, <2>3, <4>2, <5>1, Orders DEF News, Final
        <5>3. task'.reader = "waiting" /\ turn' = m
          BY <1>0, <2>1, <5>2 DEF Tasks
        <5>4. QED
          BY <5>1, <5>3 DEF Held, Final
      <4>4. CASE i # 1
        <5>1. News(session, m) /\ m.final => m.order < o
          <6>1. 1 < i
            BY <4>1, <4>4
          <6>2. News(session, m) /\ m.final => Final(inbox[1])
            BY <2>1, <2>2 DEF News, Final
          <6>3. QED
            BY <2>2, <4>1, <6>1, <6>2 DEF Pends
        <5>2. session'.last < o
          BY <2>3, <4>1, <5>1 DEF Pends
        <5>3. QED
          BY <2>1, <4>1, <4>2, <4>4, <5>2, StillPending
      <4>5. QED
        BY <4>3, <4>4
    <3>4. QED
      BY <3>1, <3>2, <3>3
  <2>7. QED
    BY <1>0, <2>4, <2>5, <2>6 DEF FinalsInv
<1>6. QED
  BY <1>3, <1>4, <1>5 DEF ReaderStep

LEMMA TurnFinals ==
  ASSUME VInv, CleanEnd, FinalsInv, TurnStep
  PROVE  FinalsInv'
<1>0. /\ ProviderSound /\ FinalsBound /\ FinalsFollow /\ (main \in Undecided => accepting)
      /\ UNCHANGED <<main, receive, accepting, code>> /\ UNCHANGED <<inbox, provider, posted>>
      /\ task.reader \in Callback /\ session \in Session /\ task \in Tasks
  BY DEF FinalsInv, TurnStep, ShowTurn, TurnShown, CommandHandled, TurnFails, TurnReturns, TurnRaises,
         socketVars, VInv, SessionTypeOK, Session, Callback
<1>1. /\ Raised /\ task'.stream = task.stream
      /\ session' \in {session, Failed(session)} /\ (TurnFails => session' = Failed(session))
  <2>1. Raised /\ task'.stream = task.stream
    BY <1>0, ReaderMovesOn DEF Tasks
  <2>2. session' \in {session, Failed(session)} /\ (TurnFails => session' = Failed(session))
    BY DEF TurnStep, ShowTurn, TurnShown, CommandHandled, TurnFails, TurnReturns, TurnRaises
  <2>3. QED
    BY <2>1, <2>2
<1>2. Keeping' => Keeping /\ main \in Undecided /\ ~session'.failed
  <2>1. Keeping' => Keeping
    BY <1>0, <1>1 DEF Keeping, Raised
  <2>2. ~(Keeping /\ main \in Decided)
    BY <1>0, NoReaderLeft DEF Live
  <2>3. QED
    BY <1>0, <2>1, <2>2 DEF Keeping
<1>3. /\ session'.last = session.last /\ session'.terminated = session.terminated
      /\ TurnFails => session'.failed
  BY <1>0, <1>1 DEF Failed, Session
<1>4. ProviderSound' /\ FinalsBound'
  BY <1>0, <1>3, BoundKept
<1>5. FinalsFollow'
  <2>1. CASE TurnFails
    BY <1>2, <1>3, <2>1 DEF FinalsFollow
  <2>2. CASE TurnShown \/ CommandHandled
    <3>1. UNCHANGED shown /\ task.reader # "waiting"
      BY <2>2 DEF TurnShown, CommandHandled, socketVars
    <3>2. QED
      BY <1>0, <1>2, <1>3, <3>1, FinalsKept
  <2>3. CASE ShowTurn
    <3> SUFFICES ASSUME Keeping', NEW o \in posted.finals PROVE Shows(o)' \/ Pending(o)'
      BY <1>0 DEF FinalsFollow
    <3> DEFINE t == [order |-> turn.order, final |-> turn.final]
    <3>1. task.reader = "waiting" /\ shown' = Append(shown, t)
      BY <1>0, <1>2, <2>3 DEF ShowTurn
    <3>2. shown \in Seq([order : Order, final : BOOLEAN]) /\ t \in [order : Order, final : BOOLEAN]
      BY <3>1, ShownGrows, ProviderAssumption DEF VInv, SocketTypeOK
    <3>3. turn.final \in BOOLEAN
      BY <3>2
    <3> HIDE DEF t
    <3>4. /\ DOMAIN shown = 1..Len(shown) /\ DOMAIN shown' = 1..(Len(shown) + 1) /\ Len(shown) \in Nat
          /\ shown'[Len(shown) + 1] = t /\ \A k \in 1..Len(shown) : shown'[k] = shown[k]
      BY <3>1, <3>2, AppendedAt
    <3>5. \A k \in 1..Len(shown) : k \in 1..(Len(shown) + 1)
      BY <3>4
    <3>6. Shows(o) => Shows(o)'
      BY <3>4, <3>5 DEF Shows
    <3>7. Held(o) => Shows(o)'
      <4>1. Held(o) => t = [order |-> o, final |-> TRUE]
        BY <3>3 DEF Held, t
      <4>2. Len(shown) + 1 \in DOMAIN shown'
        BY <3>4
      <4>3. QED
        BY <3>4, <4>1, <4>2 DEF Shows
    <3>8. Pending(o) => Pending(o)'
      BY <1>0, <1>3 DEF Pending, Pends
    <3>9. QED
      BY <1>0, <1>2, <3>6, <3>7, <3>8 DEF FinalsFollow
  <2>4. QED
    BY <2>1, <2>2, <2>3 DEF TurnStep
<1>6. QED
  BY <1>0, <1>4, <1>5 DEF FinalsInv

(* Steps of the tasks that neither read nor show. *)
LEMMA TasksFinals ==
  ASSUME VInv, StreamSound, CleanEnd, FinalsInv, UNCHANGED <<inbox, provider, posted, shown, turn>>,
         session'.last = session.last, session'.terminated = session.terminated, Raised,
         main' = main, code' = code, accepting' = accepting,
         receive \in ReceiveEnded => receive' = receive,
         task'.stream # "none" => task.stream # "none" \/ main \notin Decided,
         main \in Undecided /\ ~session'.failed /\ task.reader = "waiting" => task'.reader = "waiting"
  PROVE  FinalsInv'
<1>0. ProviderSound /\ FinalsBound /\ FinalsFollow /\ (main \in Undecided => accepting)
  BY DEF FinalsInv
<1>1. main \in Decided => receive' = receive /\ main \notin Undecided
  BY DEF VInv, HandlerSound, Decided, Undecided
<1>2. Keeping' => Keeping
  BY <1>1 DEF Keeping, Raised
<1>3. Keeping' /\ task.reader = "waiting" => task'.reader = "waiting"
  BY <1>1, <1>2, NoReaderLeft DEF Keeping
<1>4. FinalsFollow'
  BY <1>0, <1>2, <1>3, FinalsKept
<1>5. ProviderSound' /\ FinalsBound'
  BY <1>0, BoundKept
<1>6. QED
  BY <1>0, <1>4, <1>5 DEF FinalsInv

LEMMA FlagsKept ==
  ASSUME session \in Session,
         session' \in {session, Failed(session), [session EXCEPT !.begun = TRUE], [session EXCEPT !.closing = TRUE]}
  PROVE  /\ session'.last = session.last /\ session'.terminated = session.terminated /\ Raised
         /\ session' = Failed(session) => session'.failed
  BY DEF Failed, Session, Raised

LEMMA OthersFinals ==
  ASSUME VInv, StreamSound, CleanEnd, FinalsInv, ConnectStep \/ UploadStep \/ UploadNext \/ StreamStep
  PROVE  FinalsInv'
<1>0. /\ session \in Session /\ task \in Tasks
      /\ UNCHANGED <<inbox, provider, posted, shown, turn>>
      /\ UNCHANGED <<main, code, accepting, receive>>
  BY DEF VInv, SessionTypeOK, Session, socketVars,
         ConnectStep, Connects, ConnectFails, UploadStep, UploadSends, UploadFails,
         UploadNext, UploadTakes, UploadEnds, StreamStep, StreamWakes, CloseBegins, TerminateSent,
         ReaderAwaited, CloseFails, CloseEnds, StreamCancelled
<1>1. CASE ConnectStep
  <2>1. /\ session' \in {Failed(session), [session EXCEPT !.begun = TRUE]}
        /\ task'.stream = task.stream /\ task.reader # "waiting"
    BY <1>0, <1>1 DEF ConnectStep, Connects, ConnectFails, Tasks, StreamSound
  <2>2. QED
    BY <1>0, <2>1, FlagsKept, TasksFinals
<1>2. CASE UploadStep \/ UploadNext
  <2>1. session' = session /\ task'.stream = task.stream /\ task'.reader = task.reader
    BY <1>0, <1>2 DEF UploadStep, UploadSends, UploadFails, UploadNext, UploadTakes, UploadEnds, Tasks
  <2>2. QED
    BY <1>0, <2>1, FlagsKept, TasksFinals
<1>3. CASE StreamStep
  <2>1. session' \in {session, Failed(session), [session EXCEPT !.closing = TRUE]}
    BY <1>3 DEF StreamStep, StreamWakes, CloseBegins, TerminateSent, ReaderAwaited, Awaited, CloseFails,
                CloseEnds, StreamCancelled
  <2>2. task.stream = "none" => task'.stream = "none"
    <3>1. CASE StreamWakes \/ StreamCancelled
      BY <3>1 DEF StreamWakes, StreamCancelled, VInv, TasksSound
    <3>2. CASE TerminateSent \/ CloseEnds
      BY <1>0, <3>2 DEF TerminateSent, CloseEnds, Tasks
    <3>3. CASE ReaderAwaited \/ CloseFails
      BY <1>0, <3>3, TornDownFor DEF ReaderAwaited, CloseFails
    <3>4. QED
      BY <1>3, <3>1, <3>2, <3>3 DEF StreamStep
  <2>3. ASSUME main \in Undecided, ~session'.failed, task.reader = "waiting"
        PROVE  task'.reader = "waiting"
    <3>1. ~(session' = Failed(session))
      BY <1>0, <2>3 DEF Failed, Session
    <3>2. task.reader \in Live /\ ~cancel
      BY <2>3 DEF Live, Callback, StreamSound
    <3>3. CASE StreamWakes
      <4>1. StreamComplete /\ task.stream = "streaming"
        BY <3>1, <3>3 DEF StreamWakes
      <4>2. session.begun /\ ~session.failed
        BY <4>1 DEF StreamSound, StreamComplete
      <4>3. task' = [task EXCEPT !.stream = "closing", !.close = "terminating"]
        BY <3>2, <3>3, <4>1, <4>2 DEF StreamWakes, CloseBegins
      <4>4. QED
        BY <1>0, <2>3, <4>3 DEF Tasks
    <3>4. CASE TerminateSent \/ CloseEnds
      BY <1>0, <2>3, <3>4 DEF TerminateSent, CloseEnds, Tasks
    <3>5. QED
      BY <1>3, <3>1, <3>2, <3>3, <3>4 DEF StreamStep, ReaderAwaited, CloseFails, StreamCancelled
  <2>4. QED
    BY <1>0, <2>1, <2>2, <2>3, FlagsKept, TasksFinals
<1>4. QED
  BY <1>1, <1>2, <1>3

(* The handler decides how the socket ends: well, or nothing is promised. *)
LEMMA ShutDownFinals ==
  ASSUME VInv, FinalsInv, NEW c, ShutDown(c),
         c = 1000 /\ receive = "stopped" /\ task.stream # "none" => main \in Undecided /\ ~session.failed
  PROVE  FinalsInv'
<1>0. /\ ProviderSound /\ FinalsBound /\ FinalsFollow /\ task \in Tasks
      /\ UNCHANGED <<session, turn, inbox, provider, posted, shown>> /\ main' = "gathering" /\ code' = c
      /\ task' = [task EXCEPT !.connect = Cancelled(task.connect)]
      /\ receive' = IF receive \in ReceiveEnded THEN receive ELSE "cancelled"
  BY DEF FinalsInv, ShutDown, CancelTasks, VInv, SessionTypeOK
<1>1. task'.reader = task.reader /\ task'.stream = task.stream
  BY <1>0 DEF Tasks
<1>2. main' \notin Undecided /\ (receive' = "stopped" => receive = "stopped")
  BY <1>0 DEF Undecided, ReceiveEnded
<1>3. Keeping' => Keeping
  BY <1>0, <1>1, <1>2 DEF Keeping
<1>4. QED
  BY <1>0, <1>1, <1>2, <1>3, FinalsKept, BoundKept DEF FinalsInv

LEMMA MainFinals ==
  ASSUME VInv, StreamSound, CleanEnd, FinalsInv, MainStep
  PROVE  FinalsInv'
<1>0. /\ ProviderSound /\ FinalsBound /\ FinalsFollow /\ (main \in Undecided => accepting)
      /\ task \in Tasks /\ session \in Session
  BY DEF FinalsInv, VInv, SessionTypeOK, Session
<1>1. CASE NotConnected \/ ReadyFails
  <2>1. task.stream = "none" /\ \E c \in CloseCode : ShutDown(c)
    BY <1>1, ReceiveCodes DEF NotConnected, ReadyFails, StreamSound
  <2>2. QED
    BY <2>1, ShutDownFinals
<1>2. CASE \/ Streamed /\ ~Goto("draining")
           \/ Drained \/ DrainExpired
  <2>1. \E c : ShutDown(c) /\ (c = 1000 /\ receive = "stopped" => main \in Undecided /\ ~session.failed)
    BY <1>2 DEF Streamed, StreamingEnds, Drained, DrainExpired, Undecided
  <2>2. QED
    BY <2>1, ShutDownFinals
<1>3. CASE Connected \/ (Streamed /\ Goto("draining")) \/ Gathered \/ Reported \/ Closes
           \/ ReadySent \/ DrainTimeout \/ SessionCloses \/ CloseTimeout
  <2>1. /\ UNCHANGED <<inbox, provider, posted, shown, turn>> /\ UNCHANGED <<accepting, code, receive>>
        /\ session' \in {session, [session EXCEPT !.closing = TRUE]}
    BY <1>3 DEF Connected, Gathered, Reported, Closes, Goto, ReadySent, StreamStarts, DrainTimeout,
                SessionCloses, CloseBegins, CloseTimeout, sessionVars, socketVars
  <2>2. /\ session'.last = session.last /\ session'.terminated = session.terminated /\ Raised
    BY <1>0, <2>1, FlagsKept
  <2>3. /\ main' \in Undecided => main \in Undecided
        /\ main' \in Decided => main \in Decided
    BY <1>3 DEF Connected, Streamed, Gathered, Reported, Closes, Goto, ReadySent, DrainTimeout,
                SessionCloses, CloseTimeout, socketVars, Undecided, Decided
  <2>4. main \in Decided /\ task'.stream # "none" => task.stream # "none"
    <3>1. CASE CloseTimeout
      BY <1>0, <3>1, InterruptedFacts DEF CloseTimeout
    <3>2. CASE SessionCloses
      <4>1. CASE task' = [task EXCEPT !.stream = task.stream, !.close = "terminating"]
        BY <1>0, <4>1 DEF Tasks
      <4>2. CASE task' = [CancelIO(task) EXCEPT !.stream = task.stream, !.close = "disconnecting"]
        <5> DEFINE io == CancelIO(task)
        <5>1. task' = [io EXCEPT !.stream = task.stream, !.close = "disconnecting"] /\ io \in Tasks
          BY <1>0, <4>2, TornDown
        <5> HIDE DEF io
        <5>2. QED
          BY <5>1 DEF Tasks
      <4>3. QED
        BY <3>2, <4>1, <4>2 DEF SessionCloses, CloseBegins
    <3>3. CASE ReadySent
      BY <3>3 DEF ReadySent, Decided
    <3>4. QED
      BY <1>3, <3>1, <3>2, <3>3 DEF Connected, Gathered, Reported, Closes, Goto, DrainTimeout, sessionVars
  <2>5. main \in Undecided /\ task.reader = "waiting" => task'.reader = "waiting"
    BY <1>0, <1>3 DEF Connected, Gathered, Reported, Closes, Goto, ReadySent, StreamStarts, DrainTimeout,
                      SessionCloses, CloseTimeout, Undecided, Tasks, sessionVars
  <2>6. Keeping' => Keeping
    BY <2>1, <2>2, <2>3, <2>4 DEF Keeping, Raised
  <2>7. Keeping' /\ task.reader = "waiting" => task'.reader = "waiting"
    BY <2>5, <2>6, NoReaderLeft DEF Keeping
  <2>8. FinalsFollow' /\ ProviderSound' /\ FinalsBound'
    BY <1>0, <2>1, <2>2, <2>6, <2>7, FinalsKept, BoundKept
  <2>9. QED
    BY <1>0, <2>1, <2>3, <2>8 DEF FinalsInv
<1>4. QED
  BY <1>1, <1>2, <1>3 DEF MainStep

LEMMA FinalsInvInitially == Init => FinalsInv
<1> SUFFICES ASSUME Init PROVE FinalsInv
  OBVIOUS
<1>1. /\ inbox = <<>> /\ posted.finals = {} /\ session.last = -1 /\ ~session.terminated /\ accepting
      /\ Len(inbox) = 0 /\ 1..0 = {}
  BY DEF Init, SessionInit
<1>2. QED
  BY <1>1 DEF FinalsInv, ProviderSound, FinalsBound, FinalsFollow

LEMMA FinalsInvInductive == VInv /\ DrainInv /\ FinalsInv /\ [Next]_vars => FinalsInv'
<1> SUFFICES ASSUME VInv, DrainInv, FinalsInv, [Next]_vars PROVE FinalsInv'
  OBVIOUS
<1>0. StreamSound /\ CleanEnd /\ session \in Session
  BY DEF DrainInv, VInv, SessionTypeOK, Session
<1>1. CASE ReceiveFrame \/ ReceiveStop \/ ReceiveBad \/ ReceiveEnds \/ ClientLeaves \/ UNCHANGED vars
  <2>1. /\ UNCHANGED <<session, task, turn, inbox, provider, posted>>
        /\ UNCHANGED <<main, code, accepting, shown>>
        /\ receive \in ReceiveEnded => receive' = receive
    BY <1>1 DEF ReceiveFrame, ReceiveStop, ReceiveBad, ReceiveEnds, ClientLeaves, Unblock,
                ReceiveDisconnect, Backpressure, Receives, ReceiveEnded, sessionVars, socketVars, vars
  <2>2. Raised
    BY <2>1 DEF Raised
  <2>3. QED
    BY <1>0, <2>1, <2>2, TasksFinals
<1>2. CASE ProviderStep
  BY <1>0, <1>2, ProviderFinals
<1>3. CASE ReaderStep
  BY <1>0, <1>3, ReaderFinals
<1>4. CASE TurnStep
  BY <1>0, <1>4, TurnFinals
<1>5. CASE ConnectStep \/ UploadNext \/ UploadStep \/ StreamStep
  BY <1>0, <1>5, OthersFinals
<1>6. CASE MainStep
  BY <1>0, <1>6, MainFinals
<1>7. QED
  BY <1>1, <1>2, <1>3, <1>4, <1>5, <1>6 DEF Next

(* websockets.py:232, assemblyai_client.py:240: a socket closed as 1000     *)
(* after "stop" has lost nothing. The provider got every frame in order and *)
(* has confirmed the end; each turn it finalized, in the order of turns,    *)
(* was handed to on_turn and shown, and every final transcript shown was    *)
(* carried out.                                                             *)
THEOREM StreamCleanDrain == Spec => []CleanDrain
<1>1. VInv /\ DrainInv /\ FinalsInv => CleanDrain
  <2> SUFFICES ASSUME VInv, DrainInv, FinalsInv,
                      main = "done", code = 1000, receive = "stopped", task.stream # "none"
               PROVE  /\ sent = [i \in 1..frames |-> i]
                      /\ session.terminated
                      /\ \A order \in posted.finals :
                            \E i \in DOMAIN shown : shown[i] = [order |-> order, final |-> TRUE]
                      /\ CarriedOut(Len(shown))
    BY DEF CleanDrain
  <2>1. EndsWell
    BY DEF DrainInv, CleanEnd, Decided
  <2>2. Len(sent) = frames /\ \A i \in DOMAIN sent : sent[i] = i
    BY <2>1 DEF DrainInv, FramesInOrder, EndsWell
  <2>3. sent \in Seq(Nat)
    BY DEF VInv, SessionTypeOK
  <2>4. sent = [i \in 1..frames |-> i]
    BY <2>2, <2>3
  <2>5. ASSUME NEW o \in posted.finals PROVE Shows(o)
    <3>1. Shows(o) \/ Held(o) \/ Pending(o)
      BY DEF FinalsInv, FinalsFollow, Keeping, Decided
    <3>2. ~Held(o)
      BY <2>1 DEF EndsWell, Held, Live, Callback
    <3>3. 1..Len(inbox) = {}
      BY <2>1 DEF FinalsInv, ProviderSound, EndsWell
    <3>4. QED
      BY <3>1, <3>2, <3>3 DEF Pending
  <2>6. QED
    BY <2>1, <2>4, <2>5 DEF EndsWell, Shows
<1>2. Spec => []DrainInv
  BY VInvAlways, DrainInvInitially, DrainInvInductive, PTL DEF Spec
<1>3. Spec => []FinalsInv
  BY <1>2, VInvAlways, FinalsInvInitially, FinalsInvInductive, PTL DEF Spec
<1>4. QED
  BY <1>1, <1>2, <1>3, VInvAlways, PTL
=============================================================================
