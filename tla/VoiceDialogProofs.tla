--------------------------- MODULE VoiceDialogProofs ---------------------------
(***************************************************************************)
(* VoiceDialog, for every set of pods, processes, PIDs and utterances and   *)
(* every length of the clarification window.                                *)
(*                                                                          *)
(* Whatever branch of _gate_mutation a command takes, it ends in one of     *)
(* five outcomes (Outcome); the invariant adds to WindowSound what a        *)
(* suspended handler still knows about the turn it serves (TurnGated).      *)
(***************************************************************************)
EXTENDS VoiceDialog, FiniteSetTheorems, TLAPS

-----------------------------------------------------------------------------
(* What dispatching a command comes to. *)

Message(kind, command, m, candidates) ==
    [kind |-> kind, command |-> command, mode |-> m, candidates |-> candidates]

Refused(command, m) ==
    /\ reply' = Message("command_result", command, m, {})
    /\ turn' = None /\ clarification' = None

Offered(command, m) ==
    /\ command.intent \in MUTATING_INTENTS
    /\ Offerable(command, m, undoable)
    /\ reply' = Message("confirmation_required", command, m, {})
    /\ turn' = None /\ clarification' = None

(* The only degraded pod, or the only one that is named, is offered. *)
OfferedDegraded(command, m, u) ==
    /\ command.intent \in MUTATING_INTENTS /\ m = "K8S_CLUSTER" /\ command.name = None
    /\ \E p \in degraded :
        /\ \A q \in degraded \ {p} : u.scores[p] > 0 /\ u.scores[q] = 0
        /\ reply' = Message("confirmation_required", [command EXCEPT !.name = p], m, {})
    /\ turn' = None /\ clarification' = None

Asked(command, m) ==
    /\ command.intent \in {"PROCESS_KILL", "NETWORK_ISOLATE"}
    /\ \E candidates \in SUBSET Pod :
        /\ candidates \subseteq degraded /\ Cardinality(candidates) > 1
        /\ reply' = Message("disambiguation_required", command, m, candidates)
        /\ clarification' = [intent |-> command.intent, candidates |-> candidates,
                             expires_at |-> now' + Window]
    /\ turn' = None

(* The handler suspends: on an inspection, or on the dry run of a command   *)
(* the host engine can execute.                                             *)
SuspendedOn(command, m) ==
    /\ \/ command.intent = "INSPECT"
       \/ /\ command.intent \in {"PROCESS_KILL", "NETWORK_ISOLATE"}
          /\ m = "HOST_LOCAL" /\ command.pid # None
    /\ turn' = [command |-> command, mode |-> m]
    /\ clarification' = None /\ UNCHANGED reply

Outcome(command, m, u) ==
    \/ Refused(command, m) \/ Offered(command, m) \/ OfferedDegraded(command, m, u)
    \/ Asked(command, m) \/ SuspendedOn(command, m)

(* Among finitely many degraded pods the single candidate is the only one,  *)
(* or the only one that was named.                                          *)
LEMMA SingleCandidate ==
  ASSUME IsFiniteSet(degraded), degraded \subseteq Pod, NEW u \in Transcript,
         Cardinality(DegradedCandidates(u)) = 1
  PROVE  \E p \in degraded :
            /\ DegradedCandidates(u) = {p}
            /\ \A q \in degraded \ {p} : u.scores[p] > 0 /\ u.scores[q] = 0
<1>1. NamedAmong(u, degraded) \subseteq degraded
  BY DEF NamedAmong
<1>2. DegradedCandidates(u) \subseteq degraded
  BY <1>1 DEF DegradedCandidates, Narrowed
<1>3. IsFiniteSet(DegradedCandidates(u))
  BY <1>2, FS_Subset
<1>4. PICK p : DegradedCandidates(u) = {p}
  BY <1>3, FS_Singleton
<1>5. p \in degraded
  BY <1>2, <1>4
<1>6. \A q \in degraded : u.scores[q] \in Nat
  BY DEF Transcript
<1>7. CASE Cardinality(degraded) <= 1
  BY <1>4, <1>5, <1>7 DEF DegradedCandidates
<1>8. CASE ~(Cardinality(degraded) <= 1)
  <2>1. degraded # {p}
    BY <1>8, FS_Singleton
  <2>2. NamedAmong(u, degraded) = {p}
    BY <1>4, <1>8, <2>1 DEF DegradedCandidates, Narrowed
  <2>3. u.scores[p] > 0 /\ \A q \in degraded \ {p} : ~(u.scores[q] > 0)
    BY <2>2 DEF NamedAmong
  <2>4. \A q \in degraded \ {p} : u.scores[q] = 0
    BY <1>6, <2>3
  <2>5. QED
    BY <1>4, <1>5, <2>3, <2>4
<1>9. QED
  BY <1>7, <1>8

LEMMA DispatchOutcome ==
  ASSUME DialogTypeOK, NEW command \in ParsedCommand, NEW m \in TelemetryMode,
         NEW u \in Transcript, Dispatch(command, m, u)
  PROVE  Outcome(command, m, u)
<1> USE DEF Send, Refuse, Offer, Message
<1>1. CASE command.intent = "UNKNOWN" /\ Refuse(command, m) /\ turn' = None /\ clarification' = None
  BY <1>1 DEF Outcome, Refused
<1>2. CASE /\ command.intent = "INSPECT" /\ turn' = [command |-> command, mode |-> m]
           /\ clarification' = None /\ UNCHANGED reply
  BY <1>2 DEF Outcome, SuspendedOn
<1>3. CASE command.intent \in MUTATING_INTENTS /\ GateOnHost(command, m)
  BY <1>3 DEF GateOnHost, Outcome, Refused, SuspendedOn, MUTATING_INTENTS
<1>4. CASE command.intent \in MUTATING_INTENTS /\ GateAtOnce(command, m, u)
  <2>0. turn' = None
    BY <1>4 DEF GateAtOnce
  <2>1. CASE /\ Bare(command)
             /\ IF undoable THEN Offer(command, m) ELSE Refuse(command, m)
             /\ clarification' = None
    BY <1>4, <2>0, <2>1 DEF Outcome, Refused, Offered, Offerable
  <2>2. CASE /\ m = "K8S_CLUSTER"
             /\ IF command.name \in Pod THEN Offer(command, m) ELSE Refuse(command, m)
             /\ clarification' = None
    BY <1>4, <2>0, <2>2 DEF Outcome, Refused, Offered, Offerable
  <2>3. CASE /\ ~Bare(command) /\ m = "K8S_CLUSTER" /\ command.name = None
             /\ \/ /\ DegradedCandidates(u) = {}
                   /\ Refuse(command, m) /\ clarification' = None
                \/ /\ Cardinality(DegradedCandidates(u)) = 1
                   /\ \E p \in DegradedCandidates(u) : Offer([command EXCEPT !.name = p], m)
                   /\ clarification' = None
                \/ /\ Cardinality(DegradedCandidates(u)) > 1
                   /\ Send("disambiguation_required", command, m, DegradedCandidates(u))
                   /\ clarification' = [intent |-> command.intent,
                                        candidates |-> DegradedCandidates(u),
                                        expires_at |-> now' + Window]
    <3>0. degraded \subseteq Pod /\ IsFiniteSet(degraded)
      BY FS_Subset, DialogAssumption DEF DialogTypeOK
    <3>1. CASE Refuse(command, m) /\ clarification' = None
      BY <2>0, <3>1 DEF Outcome, Refused
    <3>2. CASE /\ Cardinality(DegradedCandidates(u)) = 1
               /\ \E p \in DegradedCandidates(u) : Offer([command EXCEPT !.name = p], m)
               /\ clarification' = None
      <4>1. OfferedDegraded(command, m, u)
        BY <1>4, <2>0, <2>3, <3>0, <3>2, SingleCandidate DEF OfferedDegraded
      <4>2. QED
        BY <4>1 DEF Outcome
    <3>3. CASE /\ Cardinality(DegradedCandidates(u)) > 1
               /\ Send("disambiguation_required", command, m, DegradedCandidates(u))
               /\ clarification' = [intent |-> command.intent,
                                    candidates |-> DegradedCandidates(u),
                                    expires_at |-> now' + Window]
      <4>1. DegradedCandidates(u) \in SUBSET Pod /\ DegradedCandidates(u) \subseteq degraded
        BY <3>0 DEF DegradedCandidates, Narrowed, NamedAmong
      <4>2. command.intent \in {"PROCESS_KILL", "NETWORK_ISOLATE"}
        BY <1>4, <2>3 DEF MUTATING_INTENTS, Bare
      <4>3. Asked(command, m)
        BY <2>0, <3>3, <4>1, <4>2 DEF Asked
      <4>4. QED
        BY <4>3 DEF Outcome
    <3>4. QED
      BY <2>3, <3>1, <3>2, <3>3
  <2>4. QED
    BY <1>4, <2>1, <2>2, <2>3 DEF GateAtOnce
<1>5. QED
  BY <1>1, <1>2, <1>3, <1>4 DEF Dispatch

-----------------------------------------------------------------------------
(* What a final transcript comes to. *)

Asks(u) ==
    /\ Pending(now) /\ UNCHANGED turn
    /\ reply' = Message("disambiguation_required",
                        [intent |-> clarification.intent, name |-> None, pid |-> None], mode,
                        IF Pending(now') THEN Narrowed(u, clarification.candidates) ELSE {})
    /\ clarification' = IF Pending(now') THEN clarification ELSE None

Clarified(u) ==
    /\ Pending(now)
    /\ \E p \in Resolution(u) :
          Outcome([intent |-> clarification.intent, name |-> p, pid |-> None], mode, u)

LEMMA ParseTyped ==
  ASSUME DialogTypeOK, NEW u \in Transcript
  PROVE  /\ Parse(u) \in ParsedCommand /\ Parse(u).intent = u.intent
         /\ Parse(u).name = u.name \/ Parse(u).name \in Process
<1>1. u.intent \in IntentType /\ u.name \in Pod \cup Process \cup {None} /\ u.pid \in Pid \cup {None}
  BY DEF Transcript
<1>2. subject # None => subject.name \in Process /\ subject.pid \in Pid
  BY DEF DialogTypeOK
<1>3. QED
  BY <1>1, <1>2 DEF Parse, ParsedCommand

LEMMA ClarifiedTyped ==
  ASSUME DialogTypeOK, Pending(now), NEW u, NEW p \in Resolution(u)
  PROVE  /\ [intent |-> clarification.intent, name |-> p, pid |-> None] \in ParsedCommand
         /\ clarification.intent \in MUTATING_INTENTS
         /\ p \in clarification.candidates /\ p \in Pod
         /\ \A q \in clarification.candidates \ {p} : u.scores[q] < u.scores[p]
<1>1. clarification \in Clarification
  BY DEF DialogTypeOK, Pending
<1>2. clarification.intent \in MUTATING_INTENTS /\ clarification.candidates \subseteq Pod
  BY <1>1 DEF Clarification
<1>3. p \in clarification.candidates /\ \A q \in clarification.candidates \ {p} : u.scores[q] < u.scores[p]
  BY DEF Resolution, NamedAmong
<1>4. QED
  BY <1>2, <1>3 DEF ParsedCommand, IntentType

LEMMA HearOutcome ==
  ASSUME DialogTypeOK, NEW u \in Transcript, Hear(u)
  PROVE  Clarified(u) \/ Outcome(Parse(u), mode, u) \/ Asks(u)
<1>0. mode \in TelemetryMode
  BY DEF DialogTypeOK
<1>1. ASSUME Dispatch(Parse(u), mode, u)
      PROVE  Outcome(Parse(u), mode, u)
  BY <1>0, <1>1, ParseTyped, DispatchOutcome
<1>2. ASSUME NEW second, Clarify(u, second)
      PROVE  Clarified(u)
  <2>1. PICK p \in Resolution(u) :
          Dispatch([intent |-> clarification.intent, name |-> p, pid |-> None], mode, u)
    BY <1>2 DEF Clarify
  <2>2. Pending(now)
    BY <1>2 DEF Clarify
  <2>3. [intent |-> clarification.intent, name |-> p, pid |-> None] \in ParsedCommand
    BY <2>2, ClarifiedTyped
  <2>4. QED
    BY <1>0, <2>1, <2>2, <2>3, DispatchOutcome DEF Clarified
<1>3. ASSUME NEW second, Reprompt(u, second)
      PROVE  Asks(u)
  BY <1>3 DEF Reprompt, Unresolved, Asks, Send, Message
<1>4. QED
  BY <1>1, <1>2, <1>3 DEF Hear, ChangeSubject

-----------------------------------------------------------------------------
(* The invariant. *)

(* A handler that waits for a dry run holds a command the host engine can   *)
(* execute, about what was said or about the subject of an inspection.      *)
TurnGated ==
    turn # None =>
        /\ heard # None
        /\ \/ turn.command.intent = "INSPECT"
           \/ /\ turn.command.intent \in {"PROCESS_KILL", "NETWORK_ISOLATE"}
              /\ turn.mode = "HOST_LOCAL" /\ turn.command.pid # None
              /\ turn.command.name = heard.name \/ turn.command.name \in Process

DInv == DialogTypeOK /\ TurnGated /\ WindowSound

LEMMA MessageTyped ==
  ASSUME NEW kind \in {"command_result", "confirmation_required", "disambiguation_required"},
         NEW command \in ParsedCommand, NEW m \in TelemetryMode, NEW candidates \in SUBSET Pod
  PROVE  Message(kind, command, m, candidates) \in Reply
  BY DEF Message, Reply

LEMMA DeadlineTyped ==
  ASSUME now' \in 0..MaxTime
  PROVE  now' + Window \in Nat /\ now' + Window <= now' + Window
<1>1. now' \in Nat /\ Window \in Nat
  BY DialogAssumption
<1>2. \A a, b \in Nat : a + b \in Nat /\ a + b <= a + b
  OBVIOUS
<1>3. QED
  BY <1>1, <1>2

(* Every outcome is well-typed ... *)
LEMMA OutcomeTyped ==
  ASSUME DialogTypeOK, now' \in 0..MaxTime, NEW command \in ParsedCommand,
         NEW m \in TelemetryMode, NEW u, Outcome(command, m, u)
  PROVE  /\ clarification' \in Clarification \cup {None}
         /\ turn' \in [command : ParsedCommand, mode : TelemetryMode] \cup {None}
         /\ reply' \in Reply \cup {None}
<1>1. CASE Refused(command, m) \/ Offered(command, m)
  BY <1>1, MessageTyped DEF Refused, Offered
<1>2. CASE OfferedDegraded(command, m, u)
  <2>1. PICK p \in degraded :
          reply' = Message("confirmation_required", [command EXCEPT !.name = p], m, {})
    BY <1>2 DEF OfferedDegraded
  <2>2. [command EXCEPT !.name = p] \in ParsedCommand
    BY DEF ParsedCommand, DialogTypeOK
  <2>3. reply' \in Reply
    BY <2>1, <2>2, MessageTyped
  <2>4. QED
    BY <1>2, <2>3 DEF OfferedDegraded
<1>3. CASE Asked(command, m)
  <2>1. PICK candidates \in SUBSET Pod :
          /\ reply' = Message("disambiguation_required", command, m, candidates)
          /\ clarification' = [intent |-> command.intent, candidates |-> candidates,
                               expires_at |-> now' + Window]
    BY <1>3 DEF Asked
  <2>2. now' + Window \in Nat /\ command.intent \in MUTATING_INTENTS
    BY <1>3, DeadlineTyped DEF Asked, MUTATING_INTENTS
  <2>3. clarification' \in Clarification
    BY <2>1, <2>2 DEF Clarification
  <2>4. reply' \in Reply
    BY <2>1, MessageTyped
  <2>5. QED
    BY <1>3, <2>3, <2>4 DEF Asked
<1>4. CASE SuspendedOn(command, m)
  BY <1>4 DEF SuspendedOn, DialogTypeOK
<1>5. QED
  BY <1>1, <1>2, <1>3, <1>4 DEF Outcome

(* ... and leaves a sound window or none, and nothing else under way. *)
LEMMA OutcomeWindow ==
  ASSUME DialogTypeOK, now' \in 0..MaxTime, NEW command \in ParsedCommand,
         NEW m \in TelemetryMode, NEW u, Outcome(command, m, u)
  PROVE  WindowSound'
<1>1. CASE ~Asked(command, m)
  BY <1>1 DEF Outcome, Refused, Offered, OfferedDegraded, SuspendedOn, WindowSound
<1>2. CASE Asked(command, m)
  <2>1. PICK candidates \in SUBSET Pod :
          /\ Cardinality(candidates) > 1
          /\ reply' = Message("disambiguation_required", command, m, candidates)
          /\ clarification' = [intent |-> command.intent, candidates |-> candidates,
                               expires_at |-> now' + Window]
    BY <1>2 DEF Asked
  <2>2. candidates # {}
    BY <2>1, FS_EmptySet
  <2>3. turn' = None /\ command.intent \in {"PROCESS_KILL", "NETWORK_ISOLATE"}
    BY <1>2 DEF Asked
  <2>4. reply' # None
    BY <2>1, MessageTyped, DialogAssumption
  <2>5. now' + Window <= now' + Window
    BY DeadlineTyped
  <2>6. QED
    BY <2>1, <2>2, <2>3, <2>4, <2>5 DEF WindowSound, Question, Message
<1>3. QED
  BY <1>1, <1>2

(* Asking again keeps the window, or forgets it once it has closed. *)
LEMMA AsksWindow ==
  ASSUME DInv, NEW u \in Transcript, Asks(u), now' \in {now, now + 1}, turn = None
  PROVE  /\ clarification' \in Clarification \cup {None}
         /\ reply' \in Reply
         /\ WindowSound'
<1>0. DialogTypeOK /\ WindowSound
  BY DEF DInv
<1>1. clarification \in Clarification /\ clarification # None
  BY <1>0 DEF Asks, Pending, DialogTypeOK
<1> DEFINE N == IF Pending(now') THEN Narrowed(u, clarification.candidates) ELSE {}
<1>2. clarification.candidates \subseteq Pod /\ clarification.candidates # {}
  BY <1>0, <1>1, FS_EmptySet DEF WindowSound, Clarification
<1>3. N \subseteq clarification.candidates /\ (Pending(now') => N # {})
  BY <1>2 DEF Narrowed, NamedAmong
<1>4. reply' = Message("disambiguation_required",
                       [intent |-> clarification.intent, name |-> None, pid |-> None], mode, N)
  BY DEF Asks
<1>5. [intent |-> clarification.intent, name |-> None, pid |-> None] \in ParsedCommand
  BY <1>1 DEF Clarification, ParsedCommand, IntentType
<1> HIDE DEF N
<1>6. reply' \in Reply
  BY <1>0, <1>2, <1>3, <1>4, <1>5, MessageTyped DEF DialogTypeOK
<1>7. WindowSound'
  <2>1. CASE ~Pending(now')
    BY <2>1 DEF Asks, WindowSound
  <2>2. CASE Pending(now')
    <3>1. clarification' = clarification /\ turn' = None
      BY <2>2 DEF Asks
    <3>2. clarification.expires_at <= now' + Window
      <4>1. clarification.expires_at \in Nat /\ now \in Nat /\ Window \in Nat
        BY <1>0, <1>1, DialogAssumption DEF Clarification, DialogTypeOK
      <4>2. clarification.expires_at <= now + Window
        BY <1>0, <1>1 DEF WindowSound
      <4>3. QED
        BY <4>1, <4>2
    <3>3. reply' # None
      BY <1>6, DialogAssumption
    <3>4. QED
      BY <1>0, <1>1, <1>3, <1>4, <2>2, <3>1, <3>2, <3>3 DEF WindowSound, Question, Message
  <2>3. QED
    BY <2>1, <2>2
<1>8. QED
  BY <1>1, <1>6, <1>7 DEF Asks

(* The command of a suspended handler is what was heard, or a clarified     *)
(* command, which the host engine cannot execute and never waits for.       *)
LEMMA HearTurn ==
  ASSUME DInv, NEW u \in Transcript, Hear(u)
  PROVE  TurnGated'
<1>0. DialogTypeOK
  BY DEF DInv
<1>1. turn = None /\ heard' = u /\ u # None
  BY DialogAssumption DEF Hear
<1>2. CASE Asks(u)
  BY <1>1, <1>2 DEF Asks, TurnGated
<1>3. CASE Outcome(Parse(u), mode, u)
  BY <1>0, <1>1, <1>3, ParseTyped
     DEF Outcome, Refused, Offered, OfferedDegraded, Asked, SuspendedOn, TurnGated
<1>4. CASE Clarified(u)
  <2>1. PICK p \in Resolution(u) :
          Outcome([intent |-> clarification.intent, name |-> p, pid |-> None], mode, u)
    BY <1>4 DEF Clarified
  <2>2. clarification.intent # "INSPECT"
    BY <1>0, <1>4, ClarifiedTyped DEF Clarified, MUTATING_INTENTS
  <2>3. QED
    BY <2>1, <2>2 DEF Outcome, Refused, Offered, OfferedDegraded, Asked, SuspendedOn, TurnGated
<1>5. QED
  BY <1>0, <1>2, <1>3, <1>4, HearOutcome

LEMMA HearKeeps ==
  ASSUME DInv, NEW u \in Utterance, Hear(u)
  PROVE  DInv'
<1>0. DialogTypeOK /\ WindowSound
  BY DEF DInv
<1>1. u \in Transcript
  BY DialogAssumption
<1>2. /\ now' \in {now, now + 1} /\ now' \in 0..MaxTime /\ turn = None /\ heard' = u
      /\ UNCHANGED <<world, subject>>
  BY <1>0, DialogAssumption DEF Hear, DialogTypeOK
<1>3. mode \in TelemetryMode
  BY <1>0 DEF DialogTypeOK
<1>4. /\ clarification' \in Clarification \cup {None}
      /\ turn' \in [command : ParsedCommand, mode : TelemetryMode] \cup {None}
      /\ reply' \in Reply \cup {None}
      /\ WindowSound'
  <2>1. CASE Asks(u)
    BY <1>1, <1>2, <2>1, AsksWindow DEF Asks
  <2>2. CASE Outcome(Parse(u), mode, u)
    BY <1>0, <1>1, <1>2, <1>3, <2>2, ParseTyped, OutcomeTyped, OutcomeWindow
  <2>3. CASE Clarified(u)
    <3>1. PICK p \in Resolution(u) :
            Outcome([intent |-> clarification.intent, name |-> p, pid |-> None], mode, u)
      BY <2>3 DEF Clarified
    <3>2. [intent |-> clarification.intent, name |-> p, pid |-> None] \in ParsedCommand
      BY <1>0, <2>3, ClarifiedTyped DEF Clarified
    <3>3. QED
      BY <1>0, <1>2, <1>3, <3>1, <3>2, OutcomeTyped, OutcomeWindow
  <2>4. QED
    BY <1>0, <1>1, <2>1, <2>2, <2>3, HearOutcome
<1>5. DialogTypeOK'
  BY <1>0, <1>1, <1>2, <1>4 DEF DialogTypeOK, world
<1>6. TurnGated'
  BY <1>1, HearTurn
<1>7. QED
  BY <1>4, <1>5, <1>6 DEF DInv

(* An inspection or a dry run returns: no window is open meanwhile. *)
LEMMA ThreadReturnKeeps ==
  ASSUME DInv, InspectionReturns \/ PreviewReturns
  PROVE  DInv'
<1>0. DialogTypeOK /\ WindowSound
  BY DEF DInv
<1>1. turn # None /\ clarification = None /\ turn' = None /\ UNCHANGED <<now, world, clarification, heard>>
  BY <1>0 DEF InspectionReturns, PreviewReturns, WindowSound
<1>2. turn.command \in ParsedCommand /\ turn.mode \in TelemetryMode
  BY <1>0, <1>1 DEF DialogTypeOK
<1>3. reply' \in Reply
  BY <1>2, MessageTyped DEF InspectionReturns, PreviewReturns, Send, Offer, Refuse, Message
<1>4. subject' \in [name : Process, pid : Pid] \cup {None}
  BY <1>0 DEF InspectionReturns, PreviewReturns, DialogTypeOK
<1>5. DialogTypeOK'
  BY <1>0, <1>1, <1>3, <1>4 DEF DialogTypeOK, world
<1>6. TurnGated' /\ WindowSound'
  BY <1>1 DEF TurnGated, WindowSound
<1>7. QED
  BY <1>5, <1>6 DEF DInv

LEMMA DInvInitially == Init => DInv
<1> SUFFICES ASSUME Init PROVE DInv
  OBVIOUS
<1>1. now \in 0..MaxTime
  BY DialogAssumption DEF Init
<1>2. DialogTypeOK
  BY <1>1 DEF Init, DialogTypeOK, TelemetryMode
<1>3. TurnGated /\ WindowSound
  BY DEF Init, TurnGated, WindowSound
<1>4. QED
  BY <1>2, <1>3 DEF DInv

LEMMA DInvInductive == DInv /\ [Next]_vars => DInv'
<1> SUFFICES ASSUME DInv, [Next]_vars PROVE DInv'
  OBVIOUS
<1>0. DialogTypeOK /\ TurnGated /\ WindowSound
  BY DEF DInv
<1>1. CASE Tick
  <2>1. now' \in 0..MaxTime /\ now' = now + 1 /\ UNCHANGED <<world, dialog>>
    BY <1>0, <1>1, DialogAssumption DEF Tick, DialogTypeOK
  <2>2. DialogTypeOK' /\ TurnGated'
    BY <1>0, <2>1 DEF DialogTypeOK, TurnGated, world, dialog
  <2>3. ASSUME clarification # None
        PROVE  clarification.expires_at <= now' + Window
    <3>1. clarification.expires_at \in Nat /\ now \in Nat /\ Window \in Nat
      BY <1>0, <2>3, DialogAssumption DEF DialogTypeOK, Clarification
    <3>2. clarification.expires_at <= now + Window
      BY <1>0, <2>3 DEF WindowSound
    <3>3. QED
      BY <2>1, <3>1, <3>2
  <2>4. WindowSound'
    BY <1>0, <2>1, <2>3 DEF WindowSound, dialog
  <2>5. QED
    BY <2>2, <2>4 DEF DInv
<1>2. CASE WorldChanges \/ UNCHANGED vars
  BY <1>0, <1>2 DEF WorldChanges, vars, world, dialog, DInv, DialogTypeOK, TurnGated, WindowSound
<1>3. QED
  BY <1>1, <1>2, HearKeeps, ThreadReturnKeeps DEF Next

LEMMA DInvAlways == Spec => []DInv
  BY DInvInitially, DInvInductive, PTL DEF Spec

(* The dialog's state stays what it is meant to be. *)
THEOREM DialogTypeCorrect == Spec => []DialogTypeOK
<1>1. DInv => DialogTypeOK
  BY DEF DInv
<1>2. QED
  BY <1>1, DInvAlways, PTL

(* intent_parser.py:386: an open window stands for the question asked last, *)
(* about two pods or more, and nothing else of the socket is under way.     *)
THEOREM DialogWindowSound == Spec => []WindowSound
<1>1. DInv => WindowSound
  BY DEF DInv
<1>2. QED
  BY <1>1, DInvAlways, PTL

-----------------------------------------------------------------------------
(* Only a transcript or a returning dry run changes the reply. *)
LEMMA WhoReplies ==
  ASSUME [Next]_vars, reply' # reply
  PROVE  (\E u \in Utterance : Hear(u)) \/ InspectionReturns \/ PreviewReturns
  BY DEF Next, Tick, WorldChanges, vars, dialog

LEMMA InspectionConfirmsNothing == ~(InspectionReturns /\ Confirmation(reply'))
  BY DEF InspectionReturns, Send, Confirmation

(* A confirmation after an outcome is of a command that was offered. *)
LEMMA OutcomeOffers ==
  ASSUME DialogTypeOK, NEW command \in ParsedCommand, NEW m \in TelemetryMode,
         NEW u, Outcome(command, m, u), reply' # reply, Confirmation(reply')
  PROVE  Offered(command, m) \/ OfferedDegraded(command, m, u)
  BY DEF Outcome, Refused, Asked, SuspendedOn, Confirmation, Message

LEMMA OutcomeHonours ==
  ASSUME DialogTypeOK, NEW command \in ParsedCommand, NEW m \in TelemetryMode,
         NEW u, Outcome(command, m, u), reply' # reply, Confirmation(reply')
  PROVE  Offerable(reply'.command, reply'.mode, undoable)
<1>1. CASE Offered(command, m)
  BY <1>1 DEF Offered, Message
<1>2. CASE OfferedDegraded(command, m, u)
  <2>1. PICK p \in degraded :
          reply' = Message("confirmation_required", [command EXCEPT !.name = p], m, {})
    BY <1>2 DEF OfferedDegraded
  <2>2. p \in Pod /\ m = "K8S_CLUSTER" /\ [command EXCEPT !.name = p].name = p
    BY <1>2 DEF OfferedDegraded, DialogTypeOK, ParsedCommand
  <2>3. QED
    BY <2>1, <2>2 DEF Offerable, Message
<1>3. QED
  BY <1>1, <1>2, OutcomeOffers

LEMMA ContractStep ==
  ASSUME DInv, [Next]_vars, reply' # reply, Confirmation(reply')
  PROVE  Offerable(reply'.command, reply'.mode, undoable)
<1>0. DialogTypeOK /\ TurnGated /\ mode \in TelemetryMode
  BY DEF DInv, DialogTypeOK
<1>1. ASSUME NEW u \in Utterance, Hear(u)
      PROVE  Offerable(reply'.command, reply'.mode, undoable)
  <2>1. u \in Transcript
    BY DialogAssumption
  <2>2. CASE Outcome(Parse(u), mode, u)
    BY <1>0, <2>1, <2>2, ParseTyped, OutcomeHonours
  <2>3. CASE Clarified(u)
    <3>1. PICK p \in Resolution(u) :
            Outcome([intent |-> clarification.intent, name |-> p, pid |-> None], mode, u)
      BY <2>3 DEF Clarified
    <3>2. [intent |-> clarification.intent, name |-> p, pid |-> None] \in ParsedCommand
      BY <1>0, <2>3, ClarifiedTyped DEF Clarified
    <3>3. QED
      BY <1>0, <3>1, <3>2, OutcomeHonours
  <2>4. ~Asks(u)
    BY DEF Asks, Confirmation, Message
  <2>5. QED
    BY <1>0, <1>1, <2>1, <2>2, <2>3, <2>4, HearOutcome
<1>2. CASE PreviewReturns
  <2>1. turn # None /\ reply' = Message("confirmation_required", turn.command, turn.mode, {})
        /\ turn.command.intent # "INSPECT"
    BY <1>2 DEF PreviewReturns, Offer, Refuse, Send, Confirmation, Message, MUTATING_INTENTS
  <2>2. QED
    BY <1>0, <2>1 DEF TurnGated, Offerable, Message
<1>3. QED
  BY <1>1, <1>2, WhoReplies, InspectionConfirmsNothing

(* websockets.py:512: a token is only minted for a command the              *)
(* confirmation side can execute in the mode frozen with it, although the   *)
(* mode may flip while the dry run is on its thread.                        *)
THEOREM DialogHonoursContract == Spec => HonoursContract
<1>1. DInv /\ [Next]_vars
        => [reply' # reply /\ Confirmation(reply') =>
              Offerable(reply'.command, reply'.mode, undoable)]_vars
  BY ContractStep
<1>2. QED
  BY <1>1, DInvInitially, DInvInductive, PTL DEF Spec, HonoursContract

-----------------------------------------------------------------------------
(* Whoever decides on p: the operator by name, the operator's choice among  *)
(* the candidates of an open window, or the state of the sandbox.           *)
Decided(p, u) ==
    \/ u.name = p
    \/ /\ clarification # None /\ now < clarification.expires_at
       /\ p \in clarification.candidates /\ reply'.command.intent = clarification.intent
       /\ \A q \in clarification.candidates \ {p} : u.scores[q] < u.scores[p]
    \/ /\ p \in degraded /\ reply'.command.intent = u.intent
       /\ \A q \in degraded \ {p} : u.scores[p] > 0 /\ u.scores[q] = 0

LEMMA ParsedDecided ==
  ASSUME DialogTypeOK, NEW u \in Transcript, Outcome(Parse(u), mode, u), reply' # reply,
         Confirmation(reply'), reply'.command.name \in Pod, Process \cap Pod = {}
  PROVE  Decided(reply'.command.name, u)
<1>0. mode \in TelemetryMode /\ Parse(u) \in ParsedCommand /\ Parse(u).intent = u.intent
      /\ (Parse(u).name = u.name \/ Parse(u).name \in Process)
  BY ParseTyped DEF DialogTypeOK
<1>1. CASE Offered(Parse(u), mode)
  BY <1>0, <1>1 DEF Offered, Message, Decided
<1>2. CASE OfferedDegraded(Parse(u), mode, u)
  <2>1. PICK p \in degraded :
          /\ \A q \in degraded \ {p} : u.scores[p] > 0 /\ u.scores[q] = 0
          /\ reply' = Message("confirmation_required", [Parse(u) EXCEPT !.name = p], mode, {})
    BY <1>2 DEF OfferedDegraded
  <2>2. reply'.command.name = p /\ reply'.command.intent = u.intent
    BY <1>0, <2>1 DEF Message, ParsedCommand
  <2>3. QED
    BY <2>1, <2>2 DEF Decided
<1>3. QED
  BY <1>0, <1>1, <1>2, OutcomeOffers

LEMMA ClarifiedDecided ==
  ASSUME DialogTypeOK, NEW u \in Transcript, Clarified(u), reply' # reply, Confirmation(reply')
  PROVE  Decided(reply'.command.name, u)
<1>1. Pending(now) /\ mode \in TelemetryMode
  BY DEF Clarified, DialogTypeOK
<1>2. PICK p \in Resolution(u) :
        Outcome([intent |-> clarification.intent, name |-> p, pid |-> None], mode, u)
  BY DEF Clarified
<1> DEFINE command == [intent |-> clarification.intent, name |-> p, pid |-> None]
<1>3. /\ command \in ParsedCommand /\ p \in clarification.candidates /\ p \in Pod
      /\ \A q \in clarification.candidates \ {p} : u.scores[q] < u.scores[p]
  BY <1>1, ClarifiedTyped
<1>4. command.name = p /\ command.intent = clarification.intent
  OBVIOUS
<1>5. clarification # None /\ now < clarification.expires_at
  BY <1>1 DEF Pending
<1>6. Outcome(command, mode, u)
  BY <1>2
<1> HIDE DEF command
<1>7. CASE Offered(command, mode)
  BY <1>3, <1>4, <1>5, <1>7 DEF Offered, Message, Decided
<1>8. ~OfferedDegraded(command, mode, u)
  BY <1>3, <1>4, DialogAssumption DEF OfferedDegraded
<1>9. QED
  BY <1>1, <1>3, <1>6, <1>7, <1>8, OutcomeOffers

LEMMA DecisionStep ==
  ASSUME DInv, [Next]_vars, Process \cap Pod = {},
         reply' # reply, Confirmation(reply'), reply'.command.name \in Pod
  PROVE  Decided(reply'.command.name, heard')
<1>0. DialogTypeOK /\ TurnGated
  BY DEF DInv
<1>1. ASSUME NEW u \in Utterance, Hear(u)
      PROVE  Decided(reply'.command.name, heard')
  <2>1. u \in Transcript /\ heard' = u
    BY <1>1, DialogAssumption DEF Hear
  <2>2. ~Asks(u)
    BY DEF Asks, Confirmation, Message
  <2>3. QED
    BY <1>0, <1>1, <2>1, <2>2, HearOutcome, ParsedDecided, ClarifiedDecided
<1>2. CASE PreviewReturns
  <2>1. turn # None /\ reply' = Message("confirmation_required", turn.command, turn.mode, {})
        /\ turn.command.intent # "INSPECT" /\ heard' = heard
    BY <1>2 DEF PreviewReturns, Offer, Refuse, Send, Confirmation, Message, MUTATING_INTENTS
  <2>2. QED
    BY <1>0, <2>1 DEF TurnGated, Decided, Message
<1>3. QED
  BY <1>1, <1>2, WhoReplies, InspectionConfirmsNothing

(* README "Disambiguation over guessing": provided no process bears the     *)
(* name of a pod, a pod is only gated when the operator named it outright   *)
(* or best among the candidates of an open window, or when it is the only   *)
(* degraded pod or the only one of them that was named.                     *)
THEOREM DialogNeverGuesses ==
  ASSUME Process \cap Pod = {}
  PROVE  Spec => NeverGuesses
<1>1. DInv /\ [Next]_vars
        => [reply' # reply /\ Confirmation(reply') /\ reply'.command.name \in Pod =>
              LET p == reply'.command.name
              IN  \/ heard'.name = p
                  \/ /\ clarification # None /\ now < clarification.expires_at
                     /\ p \in clarification.candidates /\ reply'.command.intent = clarification.intent
                     /\ \A q \in clarification.candidates \ {p} : heard'.scores[q] < heard'.scores[p]
                  \/ /\ p \in degraded /\ reply'.command.intent = heard'.intent
                     /\ \A q \in degraded \ {p} : heard'.scores[p] > 0 /\ heard'.scores[q] = 0
           ]_vars
  BY DecisionStep DEF Decided
<1>2. QED
  BY <1>1, DInvInitially, DInvInductive, PTL DEF Spec, NeverGuesses

-----------------------------------------------------------------------------
(* An outcome comes from the command, the pods degraded now and the clock.  *)
FreshOf(command) ==
    /\ turn' # None => turn'.command = command
    /\ reply' # reply =>
          /\ reply'.command.intent = command.intent
          /\ reply'.command.name \in {command.name} \cup degraded
          /\ reply'.candidates \subseteq degraded
    /\ clarification' # None =>
          /\ clarification'.intent = command.intent
          /\ clarification'.candidates = reply'.candidates
          /\ clarification'.expires_at = now' + Window
          /\ now' < clarification'.expires_at

LEMMA OutcomeFresh ==
  ASSUME now' \in 0..MaxTime, NEW command \in ParsedCommand, NEW m, NEW u, Outcome(command, m, u)
  PROVE  FreshOf(command)
<1>1. CASE Refused(command, m) \/ Offered(command, m)
  BY <1>1 DEF Refused, Offered, Message, FreshOf
<1>2. CASE OfferedDegraded(command, m, u)
  <2>1. PICK p \in degraded :
          reply' = Message("confirmation_required", [command EXCEPT !.name = p], m, {})
    BY <1>2 DEF OfferedDegraded
  <2>2. /\ reply'.command.intent = command.intent /\ reply'.command.name = p
        /\ reply'.candidates = {}
    BY <2>1 DEF Message, ParsedCommand
  <2>3. QED
    BY <1>2, <2>2 DEF OfferedDegraded, FreshOf
<1>3. CASE Asked(command, m)
  <2>1. PICK candidates \in SUBSET Pod :
          /\ candidates \subseteq degraded
          /\ reply' = Message("disambiguation_required", command, m, candidates)
          /\ clarification' = [intent |-> command.intent, candidates |-> candidates,
                               expires_at |-> now' + Window]
    BY <1>3 DEF Asked
  <2>2. now' < now' + Window
    <3>1. now' \in Nat /\ Window \in Nat /\ Window > 0
      BY DialogAssumption
    <3>2. \A a, b \in Nat : b > 0 => a < a + b
      OBVIOUS
    <3>3. QED
      BY <3>1, <3>2
  <2>3. QED
    BY <1>3, <2>1, <2>2 DEF Asked, Message, FreshOf
<1>4. CASE SuspendedOn(command, m)
  BY <1>4 DEF SuspendedOn, FreshOf
<1>5. QED
  BY <1>1, <1>2, <1>3, <1>4 DEF Outcome

(* What a turn leaves open is open when the turn ends. *)
LEMMA HearLeavesOpen ==
  ASSUME DialogTypeOK, NEW u \in Utterance, Hear(u), clarification' # None
  PROVE  now' < clarification'.expires_at
<1>1. u \in Transcript /\ now' \in 0..MaxTime
  BY DialogAssumption DEF Hear, DialogTypeOK
<1>2. CASE Asks(u)
  BY <1>2 DEF Asks, Pending
<1>3. CASE Outcome(Parse(u), mode, u)
  BY <1>1, <1>3, ParseTyped, OutcomeFresh DEF FreshOf
<1>4. CASE Clarified(u)
  <2>1. PICK p \in Resolution(u) :
          Outcome([intent |-> clarification.intent, name |-> p, pid |-> None], mode, u)
    BY <1>4 DEF Clarified
  <2>2. [intent |-> clarification.intent, name |-> p, pid |-> None] \in ParsedCommand
    BY <1>4, ClarifiedTyped DEF Clarified
  <2>3. QED
    BY <1>1, <2>1, <2>2, OutcomeFresh DEF FreshOf
<1>5. QED
  BY <1>1, <1>2, <1>3, <1>4, HearOutcome

(* With no window open only what was just heard decides what happens. *)
LEMMA ForgottenStep ==
  ASSUME DialogTypeOK, NEW u \in Utterance, Hear(u),
         clarification = None \/ now >= clarification.expires_at
  PROVE  FreshOf(Parse(u)) /\ Parse(u).intent = u.intent
<1>1. u \in Transcript /\ now' \in 0..MaxTime
  BY DialogAssumption DEF Hear, DialogTypeOK
<1>2. ~Pending(now)
  <2>1. ASSUME clarification # None
        PROVE  ~(now < clarification.expires_at)
    <3>1. now \in Nat /\ clarification.expires_at \in Nat
      BY <2>1 DEF DialogTypeOK, Clarification
    <3>2. QED
      BY <2>1, <3>1
  <2>2. QED
    BY <2>1 DEF Pending
<1>3. Outcome(Parse(u), mode, u)
  BY <1>1, <1>2, HearOutcome DEF Clarified, Asks
<1>4. QED
  BY <1>1, <1>3, ParseTyped, OutcomeFresh

(* README: "Expired context cannot leak into unrelated utterances", however *)
(* late within the handler the clock is read, and whether or not the same   *)
(* words were heard before.                                                 *)
THEOREM DialogExpiredForgotten == Spec => ExpiredForgotten
<1>1. ASSUME DInv, NEW u \in Utterance, Hear(u)
      PROVE  /\ clarification' # None => now' < clarification'.expires_at
             /\ (clarification = None \/ now >= clarification.expires_at) =>
                   /\ turn' # None => turn'.command = Parse(u)
                   /\ reply' # reply =>
                         /\ reply'.command.intent = u.intent
                         /\ reply'.command.name \in {Parse(u).name} \cup degraded
                         /\ reply'.candidates \subseteq degraded
                   /\ clarification' # None =>
                         /\ clarification'.intent = u.intent
                         /\ clarification'.candidates = reply'.candidates
                         /\ clarification'.expires_at = now' + Window
  <2>1. DialogTypeOK
    BY <1>1 DEF DInv
  <2>2. QED
    BY <1>1, <2>1, HearLeavesOpen, ForgottenStep DEF FreshOf
<1>2. DInv /\ [Next]_vars
        => [\A u \in Utterance : Hear(u) =>
              /\ clarification' # None => now' < clarification'.expires_at
              /\ (clarification = None \/ now >= clarification.expires_at) =>
                    /\ turn' # None => turn'.command = Parse(u)
                    /\ reply' # reply =>
                          /\ reply'.command.intent = u.intent
                          /\ reply'.command.name \in {Parse(u).name} \cup degraded
                          /\ reply'.candidates \subseteq degraded
                    /\ clarification' # None =>
                          /\ clarification'.intent = u.intent
                          /\ clarification'.candidates = reply'.candidates
                          /\ clarification'.expires_at = now' + Window
           ]_vars
  BY <1>1
<1>3. QED
  BY <1>2, DInvInitially, DInvInductive, PTL DEF Spec, ExpiredForgotten

=============================================================================
