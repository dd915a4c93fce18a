----------------------------- MODULE IncidentLog -----------------------------
(***************************************************************************)
(* app/services/incident_log.py: the ledger of gated commands, and the      *)
(* WaterfallTracker (app/services/latency.py) that resolve_incident feeds.  *)
(* `_order` is a deque with a maximum length; `_records` is a plain dict.   *)
(* Every method holds the lock throughout, so each is one action.           *)
(***************************************************************************)
EXTENDS Naturals, Sequences, FiniteSets, Deque

CONSTANTS Token, Command, Mode,
          MaxIncidents,  \* MAX_INCIDENTS
          MaxTime,       \* bound on the clock
          MaxDelay,      \* bound on the stt and gate delays a waterfall carries
          None

VARIABLES now,      \* datetime.now(timezone.utc), in ticks
          records,  \* _records: records[t] is an IncidentRecord or None
          order,    \* _order: tokens, oldest first
          latest    \* waterfall_tracker._latest

logVars == <<now, records, order, latest>>

Optional(S) == S \cup {None}

(* latency_waterfall: _build_waterfall's delays, completed on resolution. *)
Waterfall == [stt : Nat, gate : Nat, exec : Optional(Nat), total : Optional(Nat)]

IncidentEvent == [timestamp : Nat, message : {"requested", "rollback of", "executed"}]

IncidentRecord ==
    [command : Command, mode : Mode, timeline : Seq(IncidentEvent),
     opened_at : Nat, resolved_at : Optional(Nat), success : Optional(BOOLEAN),
     mttr_seconds : Optional(Nat), latency_waterfall : Optional(Waterfall),
     linked_token : Optional(Token)]

ASSUME LogAssumption ==
    /\ MaxIncidents \in Nat \ {0}
    /\ MaxTime \in Nat
    /\ MaxDelay \in Nat
    /\ None \notin IncidentRecord \cup Waterfall \cup Nat \cup BOOLEAN \cup Token

LogTypeOK ==
    /\ now \in 0..MaxTime
    /\ records \in [Token -> Optional(IncidentRecord)]
    /\ order \in Seq(Token)
    /\ latest \in Optional(Waterfall)

LogInit ==
    /\ now = 0
    /\ records = [t \in Token |-> None]
    /\ order = <<>>
    /\ latest = None

-----------------------------------------------------------------------------
Opened(t) == records[t] # None
Resolved(t) == Opened(t) /\ records[t].resolved_at # None

(* open_incident. The loop after the append waits for the deque to exceed   *)
(* its own maxlen, so it never removes anything from _records.              *)
OpenIncident(t, command, mode, waterfall) ==
    /\ records' = [records EXCEPT ![t] =
           [command |-> command, mode |-> mode,
            timeline |-> <<[timestamp |-> now, message |-> "requested"]>>,
            opened_at |-> now, resolved_at |-> None, success |-> None,
            mttr_seconds |-> None, latency_waterfall |-> waterfall,
            linked_token |-> None]]
    /\ order' = AppendRight(order, t, MaxIncidents)
    /\ UNCHANGED <<now, latest>>

Event(message) == [timestamp |-> now, message |-> message]

(* Mutations: the subtraction the wrong way round; the tracker fed with the  *)
(* waterfall as it was before the resolution.                               *)
ClosedWaterfallSwapped(r) ==
    IF r.latency_waterfall = None THEN None
    ELSE [r.latency_waterfall EXCEPT !.exec = r.opened_at - now]

ClosedWaterfallUnmeasured(r) == r.latency_waterfall

(* The waterfall of record r closed at this instant: execution is counted   *)
(* from the opening of the incident.                                        *)
ClosedWaterfall(r) ==
    IF r.latency_waterfall = None THEN None
    ELSE LET exec == now - r.opened_at
             w == r.latency_waterfall
         IN  [w EXCEPT !.exec = exec, !.total = w.stt + w.gate + exec]

(* resolve_incident: closes the record, whatever its state, if there is one. *)
ResolveIncident(t, success, linked) ==
    IF Opened(t)
    THEN LET r == records[t]
             w == ClosedWaterfall(r)
         IN  /\ records' = [records EXCEPT ![t] =
                   [r EXCEPT !.resolved_at = now,
                             !.success = success,
                             !.mttr_seconds = now - r.opened_at,
                             !.linked_token = IF linked # None THEN linked ELSE @,
                             !.timeline = @ \o (IF linked # None THEN <<Event("rollback of")>> ELSE <<>>)
                                            \o <<Event("executed")>>,
                             !.latency_waterfall = w]]
             /\ latest' = IF w # None THEN w ELSE latest
             /\ UNCHANGED <<now, order>>
    ELSE UNCHANGED logVars

(* latest_resolved scans _order from its newest end: the newest *opened*.   *)
LatestResolved ==
    LET resolved == {i \in DOMAIN order : Resolved(order[i])}
    IN  IF resolved = {} THEN None
        ELSE order[CHOOSE i \in resolved : \A j \in resolved : j <= i]

(* GET /incident/post-mortem: the token exported, or None for a 404. *)
PostMortem(token) ==
    LET t == IF token # None THEN token ELSE LatestResolved
    IN  IF t # None /\ Resolved(t) THEN t ELSE None

LogTick ==
    /\ now < MaxTime
    /\ now' = now + 1
    /\ UNCHANGED <<records, order, latest>>

(* The callers: a token is drawn once, and resolved at most once because    *)
(* redeem hands it out at most once.                                        *)
LogNext ==
    \/ LogTick
    \/ \E t \in Token, command \in Command, mode \in Mode, stt, gate \in 0..MaxDelay :
          /\ ~Opened(t)
          /\ \E waterfall \in {None, [stt |-> stt, gate |-> gate, exec |-> None, total |-> None]} :
                OpenIncident(t, command, mode, waterfall)
    \/ \E t \in Token, success \in BOOLEAN, linked \in Optional({u \in Token : Resolved(u)}) :
          /\ ~Resolved(t)
          /\ ResolveIncident(t, success, linked)

LogSpec == LogInit /\ [][LogNext]_logVars

-----------------------------------------------------------------------------
(* The scan order of latest_resolved: _order holds at most MaxIncidents     *)
(* distinct known tokens from the oldest opened to the newest, and a token  *)
(* it has dropped was opened no later than every token it kept.             *)
LedgerOrder ==
    LET kept == {order[i] : i \in DOMAIN order}
    IN  /\ Len(order) <= MaxIncidents
        /\ \A i, j \in DOMAIN order : i < j =>
              /\ order[i] # order[j]
              /\ records[order[i]].opened_at <= records[order[j]].opened_at
        /\ \A t \in Token : Opened(t) /\ t \notin kept =>
              /\ Len(order) = MaxIncidents
              /\ \A u \in kept : records[t].opened_at <= records[u].opened_at

(* latency.py:1-6: the HUD's waterfall is a complete one and belongs to an  *)
(* incident after which no other incident with a waterfall was resolved.    *)
LatestIsNewest ==
    LET measured == {t \in Token : Resolved(t) /\ records[t].latency_waterfall # None}
    IN  IF measured = {} THEN latest = None
        ELSE /\ latest # None /\ latest.exec # None /\ latest.total >= latest.exec
             /\ \E t \in measured :
                   /\ records[t].latency_waterfall = latest
                   /\ \A u \in measured : records[u].resolved_at <= records[t].resolved_at

(* incident_log.py:69 calls the ledger "bounded": at most MaxIncidents      *)
(* records are held in memory.                                              *)
LedgerBounded == Cardinality({t \in Token : Opened(t)}) <= MaxIncidents

(* incident_log.py:133 and the post-mortem endpoint's default: the export   *)
(* without a token is that of the most recently resolved incident.          *)
ExportIsMostRecent ==
    PostMortem(None) # None =>
        \A t \in Token : Resolved(t) =>
            records[t].resolved_at <= records[PostMortem(None)].resolved_at

=============================================================================
