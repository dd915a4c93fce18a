----------------------------- MODULE VoiceDialog -----------------------------
(***************************************************************************)
(* One voice socket from a final transcript to a confirmation token:        *)
(* on_turn, _handle_command, _execute_inspection and _gate_mutation of      *)
(* app/api/v1/websockets.py with their IntentParser                         *)
(* (app/services/intent_parser.py), whose context holds the subject of the  *)
(* last inspection and an open clarification window.                        *)
(*                                                                          *)
(* The provider's reader hands over one turn at a time, so a socket runs    *)
(* one handler at a time; the handler is suspended while a host thread      *)
(* inspects or previews, and everything else goes on meanwhile. An          *)
(* utterance is what the regular expressions and the lexicon find in the    *)
(* text; the texts themselves are not modelled.                             *)
(***************************************************************************)
EXTENDS Naturals, FiniteSets, GateContract

CONSTANTS Pid,
          Process,    \* host process names
          Utterance,  \* the final transcripts the provider may deliver
          Window,     \* DISAMBIGUATION_TTL_SECONDS, in ticks
          MaxTime     \* bound on the clock

VARIABLES now,
          mode,           \* TelemetryBroadcaster._mode
          degraded,       \* pods that are anomalous or memory-saturated
          undoable,       \* is there an entry on the mitigation stack?
          clarification,  \* context.pending_disambiguation
          subject,        \* context.top_subject()
          turn,           \* the handler suspended on a thread, or None
          heard,          \* history: the last final transcript
          reply           \* the last message of this socket to the HUD

dialog == <<clarification, subject, turn, heard, reply>>
world == <<mode, degraded, undoable>>
vars == <<now, world, dialog>>

TelemetryMode == {"HOST_LOCAL", "K8S_CLUSTER"}
MUTATING_INTENTS == {"PROCESS_KILL", "NETWORK_ISOLATE", "ROLLBACK"}
IntentType == MUTATING_INTENTS \cup {"INSPECT", "UNKNOWN"}

ParsedCommand == [intent : IntentType, name : Pod \cup Process \cup {None}, pid : Pid \cup {None}]

(* scores[p] is _candidate_score of the text against pod p. *)
Transcript ==
    [intent : IntentType, name : Pod \cup Process \cup {None}, pid : Pid \cup {None},
     ip : BOOLEAN, pronoun : BOOLEAN, scores : [Pod -> Nat]]

Clarification == [intent : MUTATING_INTENTS, candidates : SUBSET Pod, expires_at : Nat]

Reply ==
    [kind : {"command_result", "confirmation_required", "disambiguation_required"},
     command : ParsedCommand, mode : TelemetryMode, candidates : SUBSET Pod]

ASSUME DialogAssumption ==
    /\ Utterance \subseteq Transcript
    /\ Window \in Nat \ {0} /\ MaxTime \in Nat
    /\ IsFiniteSet(Pod)
    /\ None \notin Pod \cup Process \cup Pid \cup Transcript \cup Clarification \cup Reply

DialogTypeOK ==
    /\ now \in 0..MaxTime
    /\ mode \in TelemetryMode /\ degraded \subseteq Pod /\ undoable \in BOOLEAN
    /\ clarification \in Clarification \cup {None}
    /\ subject \in [name : Process, pid : Pid] \cup {None}
    /\ turn \in [command : ParsedCommand, mode : TelemetryMode] \cup {None}
    /\ heard \in Transcript \cup {None}
    /\ reply \in Reply \cup {None}

Init ==
    /\ now = 0
    /\ mode = "HOST_LOCAL" /\ degraded \in SUBSET Pod /\ undoable = FALSE
    /\ clarification = None /\ subject = None /\ turn = None /\ heard = None /\ reply = None

-----------------------------------------------------------------------------
(* IntentParser. *)

(* parse and _parse_mutation: a mutation without any target of its own that *)
(* says "it" is about the subject of the last inspection.                   *)
Parse(u) ==
    LET pronoun == /\ u.intent \in MUTATING_INTENTS /\ u.pronoun /\ subject # None
                   /\ u.pid = None /\ u.name = None /\ ~u.ip
    IN  [intent |-> u.intent,
         name |-> IF pronoun THEN subject.name ELSE u.name,
         pid |-> IF pronoun THEN subject.pid ELSE u.pid]

(* Mutation: the window is read without is_expired. *)
PendingForever(at) == clarification # None

(* The pending_disambiguation property, read at instant `at`. *)
Pending(at) == clarification # None /\ at < clarification.expires_at

NamedAmong(u, candidates) == {p \in candidates : u.scores[p] > 0}

(* Mutation: a tie is settled by the order of the candidates. *)
ResolutionTied(u) == NamedAmong(u, clarification.candidates)

(* try_resolve_disambiguation: the candidates u names better than any other *)
(* candidate; at most one.                                                  *)
Resolution(u) ==
    {p \in NamedAmong(u, clarification.candidates) :
        \A q \in clarification.candidates \ {p} : u.scores[q] < u.scores[p]}

(* narrow_candidates and the first half of _degraded_pod_candidates: the    *)
(* named ones, or all of them if none is named.                             *)
Narrowed(u, candidates) ==
    IF NamedAmong(u, candidates) = {} THEN candidates ELSE NamedAmong(u, candidates)

(* _degraded_pod_candidates: a lone degraded pod is taken as it is. The     *)
(* random-walk step that sampling the cluster makes is the WorldChanges     *)
(* just before.                                                             *)
DegradedCandidates(u) ==
    IF Cardinality(degraded) <= 1 THEN degraded ELSE Narrowed(u, degraded)

-----------------------------------------------------------------------------
(* The gate. *)

Send(kind, command, turnMode, candidates) ==
    reply' = [kind |-> kind, command |-> command, mode |-> turnMode, candidates |-> candidates]

Refuse(command, m) == Send("command_result", command, m, {})
Offer(command, m) == Send("confirmation_required", command, m, {})

(* _gate_mutation in cluster mode and for a bare rollback: no suspension.   *)
GateAtOnce(command, m, u) ==
    /\ turn' = None
    /\ \/ /\ Bare(command)
          /\ IF undoable THEN Offer(command, m) ELSE Refuse(command, m)
          /\ clarification' = None
       \/ /\ ~Bare(command) /\ m = "K8S_CLUSTER" /\ command.name # None
          /\ IF command.name \in Pod THEN Offer(command, m) ELSE Refuse(command, m)
          /\ clarification' = None
       \/ /\ ~Bare(command) /\ m = "K8S_CLUSTER" /\ command.name = None
          /\ LET candidates == DegradedCandidates(u)
             IN  \/ /\ candidates = {}
                    /\ Refuse(command, m) /\ clarification' = None
                 \/ /\ Cardinality(candidates) = 1
                    /\ \E p \in candidates : Offer([command EXCEPT !.name = p], m)
                    /\ clarification' = None
                 \/ /\ Cardinality(candidates) > 1
                    /\ Send("disambiguation_required", command, m, candidates)
                    /\ clarification' = [intent |-> command.intent, candidates |-> candidates,
                                         expires_at |-> now' + Window]

(* _gate_mutation in host mode: refused, or suspended on the dry run.       *)
GateOnHost(command, m) ==
    /\ ~Bare(command) /\ m = "HOST_LOCAL"
    /\ IF command.intent = "ROLLBACK" \/ command.pid = None
       THEN Refuse(command, m) /\ turn' = None
       ELSE turn' = [command |-> command, mode |-> m] /\ UNCHANGED reply
    /\ clarification' = None

(* A mutation, an inspection (suspended on the process table) or neither.   *)
Dispatch(command, m, u) ==
    \/ /\ command.intent \in MUTATING_INTENTS
       /\ GateAtOnce(command, m, u) \/ GateOnHost(command, m)
    \/ /\ command.intent = "INSPECT"
       /\ turn' = [command |-> command, mode |-> m]
       /\ clarification' = None /\ UNCHANGED reply
    \/ /\ command.intent = "UNKNOWN"
       /\ Refuse(command, m)
       /\ turn' = None /\ clarification' = None

-----------------------------------------------------------------------------
(* on_turn and _handle_command. The handler reads the clock up to three     *)
(* times: in pending_disambiguation (now), in try_resolve (second) and in   *)
(* narrow_candidates (now').                                                *)

(* The window is open and u picks one candidate: the waiting intent, not    *)
(* the verb of u, is gated for it.                                          *)
Clarify(u, second) ==
    /\ Pending(now) /\ Pending(second) /\ Resolution(u) # {}
    /\ \E p \in Resolution(u) :
          Dispatch([intent |-> clarification.intent, name |-> p, pid |-> None], mode, u)

Unresolved(u, second) == Pending(now) /\ ~(Pending(second) /\ Resolution(u) # {})

(* Mutation: clear_disambiguation is forgotten. *)
ChangeSubjectKeepsWindow(u, second) ==
    /\ Unresolved(u, second) /\ u.intent = "INSPECT"
    /\ turn' = [command |-> Parse(u), mode |-> mode]
    /\ UNCHANGED <<clarification, reply>>

(* The window is open but u is another command: the window is dropped.      *)
ChangeSubject(u, second) ==
    /\ Unresolved(u, second) /\ u.intent # "UNKNOWN"
    /\ Dispatch(Parse(u), mode, u)

(* The window is open and u helps with nothing: ask again. *)
Reprompt(u, second) ==
    /\ Unresolved(u, second) /\ u.intent = "UNKNOWN"
    /\ Send("disambiguation_required", [intent |-> clarification.intent, name |-> None, pid |-> None],
            mode, IF Pending(now') THEN Narrowed(u, clarification.candidates) ELSE {})
    /\ clarification' = IF Pending(now') THEN clarification ELSE None
    /\ UNCHANGED turn

Hear(u) ==
    /\ turn = None
    /\ heard' = u
    /\ now' \in {now, now + 1} /\ now' <= MaxTime
    /\ \/ \E second \in now..now' : Clarify(u, second) \/ ChangeSubject(u, second) \/ Reprompt(u, second)
       \/ ~Pending(now) /\ Dispatch(Parse(u), mode, u)
    /\ UNCHANGED <<world, subject>>

(* Mutation: only the name of the first row is remembered. *)
InspectionReturnsName ==
    /\ turn # None /\ turn.command.intent = "INSPECT"
    /\ subject' \in Process
    /\ Send("command_result", turn.command, turn.mode, {})
    /\ turn' = None
    /\ UNCHANGED <<now, world, clarification, heard>>

(* The thread of an inspection returns: its first row becomes the subject.  *)
InspectionReturns ==
    /\ turn # None /\ turn.command.intent = "INSPECT"
    /\ subject' \in [name : Process, pid : Pid] \cup {None}
    /\ Send("command_result", turn.command, turn.mode, {})
    /\ turn' = None
    /\ UNCHANGED <<now, world, clarification, heard>>

(* Mutation: the token gets the mode of the moment, not of the preview. *)
PreviewReturnsRereadingMode ==
    /\ turn # None /\ turn.command.intent \in MUTATING_INTENTS
    /\ Offer(turn.command, mode)
    /\ turn' = None
    /\ UNCHANGED <<now, world, clarification, subject, heard>>

(* The thread of a dry run returns: the process is gone, protected or not   *)
(* accessible, or a token is minted for the mode the turn began in.         *)
PreviewReturns ==
    /\ turn # None /\ turn.command.intent \in MUTATING_INTENTS
    /\ Offer(turn.command, turn.mode) \/ Refuse(turn.command, turn.mode)
    /\ turn' = None
    /\ UNCHANGED <<now, world, clarification, subject, heard>>

-----------------------------------------------------------------------------
(* Everything else: the clock, the HUD's mode toggle, the sandbox and the   *)
(* confirmations and rollbacks that fill and empty the stack.               *)

Tick ==
    /\ now < MaxTime /\ now' = now + 1
    /\ UNCHANGED <<world, dialog>>

WorldChanges ==
    /\ mode' \in TelemetryMode /\ degraded' \in SUBSET Pod /\ undoable' \in BOOLEAN
    /\ UNCHANGED <<now, dialog>>

Next ==
    \/ Tick
    \/ WorldChanges
    \/ \E u \in Utterance : Hear(u)
    \/ InspectionReturns
    \/ PreviewReturns

Spec == Init /\ [][Next]_vars

-----------------------------------------------------------------------------
Confirmation(r) == r # None /\ r.kind = "confirmation_required"
Question(r) == r # None /\ r.kind = "disambiguation_required"

(* What ConfirmEndpoint assumes of the voice side, although the mode may    *)
(* flip while a preview runs: a token is only minted for a command its      *)
(* handler can execute in the mode frozen with it.                          *)
HonoursContract ==
    [][reply' # reply /\ Confirmation(reply') =>
          Offerable(reply'.command, reply'.mode, undoable)]_vars

(* README "Disambiguation over guessing": a pod that the operator did not   *)
(* name outright is gated only as the one candidate of a window still open  *)
(* that the operator named best, as the only degraded pod, or as the only   *)
(* one of several that the operator named at all.                           *)
NeverGuesses ==
    [][reply' # reply /\ Confirmation(reply') /\ reply'.command.name \in Pod =>
          LET p == reply'.command.name
          IN  \/ heard'.name = p
              \/ /\ clarification # None /\ now < clarification.expires_at
                 /\ p \in clarification.candidates /\ reply'.command.intent = clarification.intent
                 /\ \A q \in clarification.candidates \ {p} : heard'.scores[q] < heard'.scores[p]
              \/ /\ p \in degraded /\ reply'.command.intent = heard'.intent
                 /\ \A q \in degraded \ {p} : heard'.scores[p] > 0 /\ heard'.scores[q] = 0
      ]_vars

(* README: "Expired context cannot leak into unrelated utterances". With no *)
(* window open, what is started, asked or offered comes from the words just *)
(* heard, the subject and the pods degraded now, and a question opens a     *)
(* window of its own. A window that closes while the handler runs is gone   *)
(* when it ends, whichever of its reads of the clock came too late.         *)
ExpiredForgotten ==
    [][\A u \in Utterance : Hear(u) =>
          /\ clarification' # None => now' < clarification'.expires_at
          /\ (clarification = None \/ now >= clarification.expires_at) =>
                /\ turn' # None => turn'.command = Parse(u)
                /\ reply' # reply =>
                      /\ reply'.command.intent = u.intent
                      /\ reply'.command.name \in {Parse(u).name} \cup degraded
                      /\ reply'.candidates \subseteq degraded
                /\ clarification' # None =>
                      /\ clarification'.intent = u.intent
                      /\ clarification'.candidates = reply'.candidates
                      /\ clarification'.expires_at = now' + Window
      ]_vars

(* One subject at a time: an open window stands for a mutation of two or    *)
(* more pods that the operator was asked about last, and no other command   *)
(* of this socket is under way.                                             *)
WindowSound ==
    clarification # None =>
        /\ Cardinality(clarification.candidates) > 1
        /\ clarification.intent \in {"PROCESS_KILL", "NETWORK_ISOLATE"}
        /\ clarification.expires_at <= now + Window
        /\ turn = None
        /\ Question(reply) /\ reply.command.intent = clarification.intent
        /\ reply.candidates # {} /\ reply.candidates \subseteq clarification.candidates

=============================================================================
