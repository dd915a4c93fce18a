--------------------------- MODULE ConfirmEndpoint ---------------------------
(***************************************************************************)
(* POST /api/v1/commands/confirm (app/api/v1/endpoints.py) over the stores  *)
(* and engines it drives: the confirmation registry, the incident ledger,   *)
(* the mitigation stack, the pod sandbox and the host engine.               *)
(*                                                                          *)
(* One asyncio worker serves every request, so a handler is atomic between  *)
(* two suspensions. It only suspends on a to_thread call: the cluster and   *)
(* stack paths are one action, the host paths are ConfirmHost or            *)
(* ConfirmUnblock, the thread's own steps, and Finish; for a dry run they   *)
(* are PreviewHost, the thread's steps and FinishPreview.                   *)
(*                                                                          *)
(* The voice side is reduced to Gate, the tail of _gate_mutation that mints *)
(* a token; VoiceDialog models it.                                         *)
(***************************************************************************)
EXTENDS Naturals, Sequences, FiniteSets, GateContract

CONSTANTS Token,
          Request,    \* concurrent POSTs
          Previewers, \* bound: those among them that may be dry runs on the host
          Command,    \* [intent, name, pid], as parsed
          Gateway,
          Pid, Name, Protected, Ip, Platform, OutsideEdits, Faults, MaxBirths, MaxRules,
          TTL, MaxTime, MaxIncidents, MaxEntries

VARIABLES now, pending, deadline, grants,             \* ConfirmationRegistry
          records, order, latest,                     \* IncidentLog
          stack,                                      \* MitigationStack
          pods,                                       \* ClusterSandbox
          procs, births, signalled, rules, worker,    \* HostEngine
          request  \* request[r]: the execution suspended on r's thread, or None

Mode == {"HOST_LOCAL", "K8S_CLUSTER"}

Registry == INSTANCE ConfirmationRegistry
Log      == INSTANCE IncidentLog WITH MaxDelay <- MaxTime
Cluster  == INSTANCE ClusterSandbox
Stack    == INSTANCE MitigationStack WITH Snapshot <- Cluster!PodState
Host     == INSTANCE HostEngine WITH Worker <- Request

vars == <<now, pending, deadline, grants, records, order, latest, stack, pods,
          procs, births, signalled, rules, worker, request>>

(* What a suspended handler still knows: its token and, if it is rolling    *)
(* back a network isolation, the entry it popped.                           *)
Suspended == [token : Token, entry : Stack!MitigationEntry \cup {None}]

ParsedCommand == [intent : {"PROCESS_KILL", "NETWORK_ISOLATE", "ROLLBACK"},
                  name : Pod \cup Name \cup {None}, pid : Pid \cup {None}]

ASSUME EndpointAssumption ==
    /\ Command \subseteq ParsedCommand
    /\ TTL \in Nat \ {0} /\ MaxTime \in Nat
    /\ MaxIncidents \in Nat \ {0} /\ MaxEntries \in Nat \ {0}
    /\ Ip \subseteq Nat
    /\ Pod = {} \/ Gateway \in Pod
    /\ None \notin Registry!PendingConfirmation \cup Log!IncidentRecord \cup Log!Waterfall \cup Nat
    /\ None \notin Suspended \cup Stack!MitigationEntry \cup Cluster!PodState \cup Pod \cup Pid \cup Name
    /\ None \notin Host!Incarnation \cup Token \cup BOOLEAN
    /\ Protected \subseteq Name /\ Platform \in {"linux", "win32"}
    /\ {OutsideEdits, Faults} \subseteq BOOLEAN /\ {MaxBirths, MaxRules} \subseteq Nat

TypeOK ==
    /\ Registry!TypeOK
    /\ Log!LogTypeOK
    /\ Stack!StackTypeOK
    /\ Cluster!ClusterTypeOK
    /\ Host!HostTypeOK
    /\ request \in [Request -> Suspended \cup {None}]

Init ==
    /\ Registry!RegistryInit
    /\ Log!LogInit
    /\ Stack!StackInit
    /\ Cluster!ClusterInit
    /\ Host!HostInit
    /\ request = [r \in Request |-> None]

-----------------------------------------------------------------------------
(* register, then open_incident, with no suspension in between. The tick    *)
(* hides the milliseconds between the end of the turn and the token.        *)
Gate(t, command, mode) ==
    /\ Offerable(command, mode, Stack!Top # None)
    /\ Registry!Register(t, command, mode)
    /\ Log!OpenIncident(t, command, mode, [stt |-> 0, gate |-> 0, exec |-> None, total |-> None])
    /\ UNCHANGED <<stack, pods, procs, births, signalled, rules, worker, request>>

-----------------------------------------------------------------------------
(* The pending confirmation a request for t gets, or None for a 404. *)
Redeemable(t) == Registry!Pruned[t]

(* The command of a pending confirmation for the host, and its call.        *)
ForHost(p) == p.mode = "HOST_LOCAL" /\ p.command.intent # "ROLLBACK" /\ p.command.pid # None
OpOf(command) == IF command.intent = "PROCESS_KILL" THEN "terminate" ELSE "isolate"

(* Mutation: the dry-run flag is lost on the way to cluster_execute. *)
PreviewExecutes(t) ==
    /\ Registry!Peek(t)
    /\ Registry!Pruned[t] # None /\ Registry!Pruned[t].command.name \in Pod
    /\ Cluster!ClusterExecute(Registry!Pruned[t].command.name, Registry!Pruned[t].command.intent)
    /\ UNCHANGED <<records, order, latest, stack, procs, births, signalled, rules, worker, request>>

(* confirm_command with dry_run: the token is only peeked at. Without a     *)
(* thread, the handler then answers from what it reads, or with an error.   *)
Preview(t) ==
    /\ Redeemable(t) # None => ~ForHost(Redeemable(t))
    /\ Registry!Peek(t)
    /\ UNCHANGED <<records, order, latest, stack, pods,
                   procs, births, signalled, rules, worker, request>>

(* A dry run on the host suspends on a thread too. Its handler has nothing  *)
(* to write when it resumes, so only the thread knows of it.                *)
PreviewHost(r, t) ==
    /\ r \in Previewers /\ request[r] = None
    /\ Redeemable(t) # None
    /\ ForHost(Redeemable(t))
    /\ Registry!Peek(t)
    /\ Host!Submit(r, OpOf(Redeemable(t).command), Redeemable(t).command.pid, {}, TRUE)
    /\ UNCHANGED <<records, order, latest, stack, pods, request>>

FinishPreview(r) ==
    /\ request[r] = None
    /\ Host!Collect(r)
    /\ UNCHANGED <<now, pending, deadline, grants, records, order, latest, stack, pods, request>>

(* The engines the confirmed command leaves alone. *)
HostUntouched == UNCHANGED <<procs, births, signalled, rules, worker, request>>

(* The token is unknown, expired or spent (404); or it is consumed and then *)
(* the command turns out to lack a target (400) or to name no pod (404).    *)
ConfirmRefused(t) ==
    /\ Registry!Redeem(t)
    /\ \/ Redeemable(t) = None
       \/ /\ Redeemable(t) # None
          /\ LET p == Redeemable(t)
             IN  /\ ~Bare(p.command)
                 /\ \/ p.mode = "K8S_CLUSTER" /\ p.command.name \notin Pod
                    \/ p.mode = "HOST_LOCAL" /\ p.command.intent = "ROLLBACK"
                    \/ p.mode = "HOST_LOCAL" /\ p.command.pid = None
    /\ UNCHANGED <<records, order, latest, stack, pods>>
    /\ HostUntouched

(* rollback_last when no firewall is involved: nothing to roll back, a pod  *)
(* restored from its snapshot, a killed process that stays dead, or an      *)
(* isolation that blocked nothing. The entry is gone in every case.         *)
ConfirmRollback(t) ==
    /\ Redeemable(t) # None
    /\ Bare(Redeemable(t).command)
    /\ Registry!Redeem(t)
    /\ LET entry == Stack!Top
       IN  \/ /\ entry = None
              /\ Log!ResolveIncident(t, FALSE, None)
              /\ UNCHANGED <<stack, pods>>
           \/ /\ entry # None
              /\ Stack!Pop
              /\ \/ /\ entry.kind = "cluster_pod"
                    /\ Cluster!RestorePod(entry.target, entry.snapshot)
                    /\ Log!ResolveIncident(t, TRUE, entry.token)
                 \/ /\ entry.kind = "host_process"
                    /\ Log!ResolveIncident(t, FALSE, entry.token)
                    /\ UNCHANGED pods
                 \/ /\ entry.kind = "network_isolate" /\ entry.ips = {}
                    /\ Log!ResolveIncident(t, TRUE, entry.token)
                    /\ UNCHANGED pods
    /\ HostUntouched

(* rollback_last on an isolation with rules to remove: the entry is popped, *)
(* then the handler suspends on the thread that removes them.               *)
ConfirmUnblock(r, t) ==
    /\ request[r] = None
    /\ Redeemable(t) # None
    /\ Bare(Redeemable(t).command)
    /\ Registry!Redeem(t)
    /\ Stack!Top # None /\ Stack!Top.kind = "network_isolate" /\ Stack!Top.ips # {}
    /\ Stack!Pop
    /\ Host!Submit(r, "unblock", None, Stack!Top.ips, FALSE)
    /\ request' = [request EXCEPT ![r] = [token |-> t, entry |-> Stack!Top]]
    /\ UNCHANGED <<records, order, latest, pods>>

(* _mitigation_entry for a pod. *)
PodEntry(t, p, snapshot) ==
    [token |-> t, mode |-> "K8S_CLUSTER", target |-> p, kind |-> "cluster_pod",
     snapshot |-> snapshot, ips |-> {}]

(* The cluster path: snapshot, execution, resolution and push in one step.  *)
(* A rollback of a named pod is executed but not recorded for reversal.     *)
ConfirmCluster(t) ==
    /\ Redeemable(t) # None
    /\ ~Bare(Redeemable(t).command)
    /\ Redeemable(t).mode = "K8S_CLUSTER"
    /\ Redeemable(t).command.name \in Pod
    /\ Registry!Redeem(t)
    /\ LET command == Redeemable(t).command
           p == command.name
       IN  /\ Cluster!ClusterExecute(p, command.intent)
           /\ Log!ResolveIncident(t, TRUE, None)
           /\ IF command.intent # "ROLLBACK" THEN Stack!Push(PodEntry(t, p, pods[p]))
                                             ELSE UNCHANGED stack
    /\ HostUntouched

(* The host path up to its suspension on the thread. *)
ConfirmHost(r, t) ==
    /\ request[r] = None
    /\ Redeemable(t) # None
    /\ ForHost(Redeemable(t))
    /\ Registry!Redeem(t)
    /\ Host!Submit(r, OpOf(Redeemable(t).command), Redeemable(t).command.pid, {}, FALSE)
    /\ request' = [request EXCEPT ![r] = [token |-> t, entry |-> None]]
    /\ UNCHANGED <<records, order, latest, stack, pods>>

(* _mitigation_entry for what thread w did to a process. *)
HostEntry(t, thread) ==
    [token |-> t, mode |-> "HOST_LOCAL", target |-> thread.pid,
     kind |-> IF thread.op = "terminate" THEN "host_process" ELSE "network_isolate",
     snapshot |-> None, ips |-> thread.done]

(* The handler resumes after its thread: a protected or vanished process is *)
(* an HTTP error and nothing more; any other outcome resolves the incident, *)
(* and a successful mitigation is pushed for later reversal.                *)
Finish(r) ==
    /\ request[r] # None
    /\ Host!Collect(r)
    /\ LET thread == worker[r]
           t == request[r].token
           entry == request[r].entry
       IN  \/ /\ thread.outcome \in {"protected", "notfound"}
              /\ UNCHANGED <<now, records, order, latest, stack>>
           \/ /\ thread.outcome = "ok"
              /\ Log!ResolveIncident(t, TRUE, IF entry = None THEN None ELSE entry.token)
              /\ IF entry = None THEN Stack!Push(HostEntry(t, thread)) ELSE UNCHANGED stack
           \/ /\ thread.outcome = "failed"
              /\ Log!ResolveIncident(t, FALSE, IF entry = None THEN None ELSE entry.token)
              /\ UNCHANGED stack
    /\ request' = [request EXCEPT ![r] = None]
    /\ UNCHANGED <<pending, deadline, grants, pods>>

-----------------------------------------------------------------------------
(* Time, the sandbox's random walk, the threads and the outside world. *)

Tick ==
    /\ Registry!Tick
    /\ UNCHANGED <<records, order, latest, stack, pods,
                   procs, births, signalled, rules, worker, request>>

PodTick ==
    /\ Cluster!PodTick
    /\ UNCHANGED <<now, pending, deadline, grants, records, order, latest, stack,
                   procs, births, signalled, rules, worker, request>>

Thread(r) ==
    /\ Host!ThreadStep(r)
    /\ UNCHANGED <<now, pending, deadline, grants, records, order, latest, stack, pods, request>>

Outside ==
    /\ Host!OutsideStep
    /\ UNCHANGED <<now, pending, deadline, grants, records, order, latest, stack, pods, request>>

Confirm(t) ==
    \/ ConfirmRefused(t)
    \/ ConfirmRollback(t)
    \/ ConfirmCluster(t)
    \/ \E r \in Request : ConfirmUnblock(r, t) \/ ConfirmHost(r, t)

Next ==
    \/ Tick
    \/ PodTick
    \/ Outside
    \/ \E r \in Request : Thread(r) \/ Finish(r) \/ FinishPreview(r)
    \/ \E t \in Token :
          \/ \E command \in Command, mode \in Mode : Gate(t, command, mode)
          \/ Preview(t) \/ \E r \in Request : PreviewHost(r, t)
          \/ Confirm(t)

Spec == Init /\ [][Next]_vars

(* The event loop resumes a handler whose thread has returned, and a thread *)
(* never blocks for good: each of its calls has a timeout.                  *)
FairSpec ==
    Spec /\ \A r \in Request : WF_vars(Thread(r)) /\ WF_vars(Finish(r)) /\ WF_vars(FinishPreview(r))

-----------------------------------------------------------------------------
(* Safety. *)

Serves(r, t) == request[r] # None /\ request[r].token = t
InFlight(t) == \E r \in Request : Serves(r, t)

(* security.py:54: single use and TTL, now with every handler around it.    *)
SingleUse == Registry!SingleUse

(* security.py:90: "without consuming it", now with handlers that suspend   *)
(* between redeeming a token and resolving its incident: a live entry is    *)
(* only ever ended by its own redemption.                                   *)
ValidUntilRedeemed == Registry!ValidUntilRedeemed

(* incident_log.py:105: an incident is resolved by the one real execution   *)
(* of its token; no later request, rollback or late thread rewrites the     *)
(* outcome, the MTTR or the link a post-mortem has already exported.        *)
ResolutionIsFinal ==
    [][\A t \in Token : Log!Resolved(t) => records'[t] = records[t]]_vars

(* mitigation_stack.py:3: an entry on the stack stands for a real,          *)
(* successful and not yet reversed mitigation: its own token was redeemed   *)
(* and its incident resolved, entries lie in the order of execution, no     *)
(* two share a token, and no rollback, finished or under way, has it.       *)
StackSound ==
    \A i \in DOMAIN stack :
        LET entry == stack[i]
            incident == records[entry.token]
        IN  /\ grants[entry.token] # <<>>
            /\ Log!Resolved(entry.token) /\ incident.success
            /\ incident.command.intent # "ROLLBACK" /\ incident.mode = entry.mode
            /\ ~\E t \in Token : Log!Opened(t) /\ records[t].linked_token = entry.token
            /\ ~\E r \in Request : request[r] # None /\ request[r].entry = entry
            /\ \A j \in DOMAIN stack : i < j =>
                  /\ stack[j].token # entry.token
                  /\ incident.resolved_at <= records[stack[j].token].resolved_at

(* mitigation_stack.py:94: a mitigation is rolled back at most once; the    *)
(* incident a rollback links to succeeded, before the rollback did, and     *)
(* was itself no rollback.                                                  *)
RolledBackOnce ==
    \A t \in Token : Log!Opened(t) /\ records[t].linked_token # None =>
        LET undone == records[t].linked_token
        IN  /\ \A u \in Token : Log!Opened(u) /\ records[u].linked_token = undone => u = t
            /\ Bare(records[t].command)
            /\ Log!Resolved(undone) /\ records[undone].success
            /\ ~Bare(records[undone].command)
            /\ records[undone].resolved_at <= records[t].resolved_at

(* README "LIFO mitigation rollback stack": every rule an entry promises to *)
(* remove is there to be removed. Two isolations may block one address, so  *)
(* the firewall must hold at least as many rules for it as entries list it. *)
FirewallAccounted ==
    \A ip \in Ip :
        Cardinality({i \in DOMAIN stack : ip \in stack[i].ips}) <= rules[ip]

(* The snapshots of one pod are nested: going down the stack never meets a  *)
(* later state of the pod than the one above it, so unwinding the stack     *)
(* walks the pod back through its own past, whatever ran in between.        *)
SnapshotsNested ==
    \A i \in DOMAIN stack : stack[i].kind = "cluster_pod" =>
        LET p == stack[i].target
        IN  /\ stack[i].snapshot.restarts <= pods[p].restarts
            /\ \A j \in DOMAIN stack : i < j /\ stack[j].kind = "cluster_pod" /\ stack[j].target = p =>
                  stack[i].snapshot.restarts <= stack[j].snapshot.restarts

(* The incident behind a suspended handler. *)
Approved(r, intent) ==
    /\ request[r] # None
    /\ LET t == request[r].token
       IN  /\ grants[t] # <<>> /\ ~Log!Resolved(t)
           /\ records[t].mode = "HOST_LOCAL" /\ records[t].command.intent = intent

(* README "Voice never authorizes": nothing is done that the operator did   *)
(* not click for. A process is signalled only for a redeemed, still open    *)
(* kill of the PID it holds; a rule is added only under a redeemed          *)
(* isolation, and removed only by hand or under a rollback of an isolation  *)
(* of its address, so that what a failure leaves "in place" (system_engine  *)
(* .py:177) stays; a pod is restarted or restored only in the step that     *)
(* redeems a command naming it or a rollback of an entry about it. A dry    *)
(* run does none of this, although its thread runs among the others.        *)
ApprovedOnly ==
    [][/\ \A proc \in signalled' \ signalled : \E r \in Request :
             /\ Approved(r, "PROCESS_KILL")
             /\ procs[records[request[r].token].command.pid] = proc
       /\ \A ip \in Ip : rules'[ip] > rules[ip] => \E r \in Request : Approved(r, "NETWORK_ISOLATE")
       /\ \A ip \in Ip : rules'[ip] < rules[ip] =>
             \/ OutsideEdits
             \/ \E r \in Request :
                   request[r] # None /\ request[r].entry # None /\ ip \in request[r].entry.ips
       /\ \A p \in Pod : pods'[p].restarts # pods[p].restarts \/ pods'[p].anomaly # pods[p].anomaly =>
             \E t \in Token :
                /\ Len(grants'[t]) > Len(grants[t])
                /\ \/ records[t].mode = "K8S_CLUSTER" /\ records[t].command.name = p
                   \/ Bare(records[t].command) /\ Stack!Top # None /\ Stack!Top.target = p
      ]_vars

(* security.py:18: see HostEngine. *)
ProtectedSurvive == Host!ProtectedSurvive

(* endpoints.py:143: the success in a kill's record, which its post-mortem  *)
(* repeats, is of the process that was there: when the incident is resolved *)
(* so, the handler's thread has signalled the incarnation it found at the   *)
(* approved PID, and that incarnation no longer holds the PID, although the *)
(* PID may be free, reused or have been reused before the thread looked.    *)
RecordedKillsAreReal ==
    [][\A t \in Token :
          /\ ~Log!Resolved(t) /\ Log!Resolved(t)' /\ records'[t].success
          /\ records[t].mode = "HOST_LOCAL" /\ records[t].command.intent = "PROCESS_KILL"
          => \E r \in Request :
                /\ Serves(r, t) /\ worker[r].pid = records[t].command.pid
                /\ worker[r].proc \in signalled
                /\ procs[worker[r].pid] # worker[r].proc
      ]_vars

(* Every POST is answered: a handler that suspends on its thread, for real  *)
(* or for a dry run, resumes.                                               *)
RequestsAnswered == \A r \in Request : ~Host!Idle(r) ~> Host!Idle(r) /\ request[r] = None

-----------------------------------------------------------------------------
(* What all of this amounts to for a command and for the mitigations that   *)
(* can be reversed: the service implements CommandLifecycle, whatever is    *)
(* suspended, fails or expires meanwhile.                                   *)

AskedOf(t) ==
    IF ~Log!Opened(t) THEN None
    ELSE LET command == records[t].command
         IN  IF Bare(command) THEN "rollback"
             ELSE IF command.intent = "ROLLBACK" THEN "restore" ELSE "mitigation"

(* A command that was taken up, is not resolved and has no handler has been *)
(* answered with an HTTP error.                                             *)
OutcomeOf(t) ==
    IF Log!Resolved(t) THEN IF records[t].success THEN "succeeded" ELSE "failed"
    ELSE IF grants[t] # <<>> /\ ~InFlight(t) THEN "refused" ELSE None

(* The token of the entry a rollback has popped: its handler knows it until *)
(* the record does.                                                         *)
ReversedBy(t) ==
    IF Log!Resolved(t) THEN records[t].linked_token
    ELSE IF InFlight(t)
    THEN LET entry == request[CHOOSE r \in Request : Serves(r, t)].entry
         IN  IF entry = None THEN None ELSE entry.token
    ELSE None

Asked == [t \in Token |-> AskedOf(t)]
Running == {request[r].token : r \in {s \in Request : request[s] # None}}
Outcomes == [t \in Token |-> OutcomeOf(t)]
Reversible == [i \in DOMAIN stack |-> stack[i].token]
Reversals == [t \in Token |-> ReversedBy(t)]

Lifecycle == INSTANCE CommandLifecycle
    WITH Depth <- MaxEntries, asked <- Asked, running <- Running, outcome <- Outcomes,
         reversible <- Reversible, reverses <- Reversals
ImplementsLifecycle == Lifecycle!LifecycleSpec

-----------------------------------------------------------------------------
(* What the documentation says and the code does not do. *)

(* README "Operational Boundaries": "a preview issued in one mode can never *)
(* execute against the other". A bare rollback reverses an entry of the     *)
(* mode its own token was issued in.                                        *)
RollbackKeepsMode ==
    \A t \in Token : Log!Opened(t) /\ records[t].linked_token # None =>
        records[t].mode = records[records[t].linked_token].mode

(* README "Latency": "Operator confirmation time is excluded from t3". The  *)
(* execution time reported is at most the time since the operator's click.  *)
ExecutionExcludesOperator ==
    \A t \in Token : Log!Resolved(t) /\ records[t].latency_waterfall # None =>
        records[t].latency_waterfall.exec <= records[t].resolved_at - grants[t][1]

=============================================================================
