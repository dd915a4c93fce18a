# VoiceOps-Controller in TLA+

VoiceOps-Controller lets an operator speak to a service that inspects a host or a
simulated Kubernetes cluster and, after a click on a single-use confirmation, kills
processes, blocks network traffic and undoes what it did. This directory models the part
of `src/` that decides *what is executed, when, and what is remembered of it*: TLA+
modules translated from the Python source, TLC configurations, and TLAPS proofs.

`PROJECT.json` lists components, runs, mutations, findings, hazards and theorems, and maps
every definition to the lines it translates.

## 1. The system

### Components, state and operations

| Component (source) | State | Operations | Correct when |
|---|---|---|---|
| Confirmation registry (`core/security.py`) | `_pending` under a lock | `register`, `redeem`, `peek`, each after pruning | a token is redeemed at most once, before its deadline, with the command and mode frozen at registration |
| Incident ledger (`services/incident_log.py`, `latency.py`, `api/v1/incident.py`) | `_records`, `_order`, the tracker's `_latest` | `open_incident`, `resolve_incident`, `latest_resolved`, `get`, post-mortem export | a resolution is final, the scan order is the order of opening, the HUD's waterfall is the last one completed, memory is bounded |
| Mitigation stack (`services/mitigation_stack.py`) | `_entries`, a deque of 50 | `push`, `peek`, `pop`, `preview_rollback`, `rollback_last` | every entry is a real success nobody has undone, in order of execution, and what it promises to restore can be restored |
| Cluster sandbox (`services/system_engine.py`) | pods, cluster-wide rates | `tick`, `cluster_execute`, `snapshot_pod`, `restore_pod_snapshot` | a pod changes only by a confirmed command or by being restored to its own past |
| Host engine (`services/system_engine.py`) | none of its own: OS processes, firewall | `terminate_process`, `isolate_network`, `unblock_ips`, in threads | no protected process is signalled; a reported termination happened to the process that was checked; every call returns |
| Confirmation endpoint (`api/v1/endpoints.py`) | suspended handlers | `POST /commands/confirm`, real or dry run | nothing is done that was not confirmed; every request is answered |
| Voice dialog (`services/intent_parser.py`, `api/v1/websockets.py`) | per-socket context: subject, clarification window | `on_turn`, `_handle_command`, `_execute_inspection`, `_gate_mutation` | no target is guessed; an expired window influences nothing; a token is minted only for what the endpoint can execute |
| Voice stream (`api/v1/websockets.py`) | audio queue of 8, tasks, flags | receive, enqueue, drain, close | backpressure ends in an error; no turn is handled after close; every task ends |
| AssemblyAI session (`services/assemblyai_client.py`) | provider socket, reader and sender | `connect`, `stream`, `close` | one failure is reported once; the close handshake ends |
| Telemetry (`services/telemetry_stream.py`) | subscribers, mode, broadcast task | connect, disconnect, broadcast, start, stop | a dead subscriber neither blocks nor stays |
| HUD (`static/app.js`) | dialog, reconnecting sockets, encoder | review, confirm, reconnect, stream | one review at a time, at most one real execution per review |
| Post-mortem writer, Discord alerts | none | outgoing HTTP with a fallback | the caller is not affected by a failure |

### How they interact

A final transcript reaches `_handle_command` on its voice socket. `IntentParser` reads it
against that socket's context; `_gate_mutation` previews the command (for the host in a
thread), registers it, opens an incident, and sends the token to the HUD. The operator's
click posts the token to `confirm_command`, which redeems it, drives one of the engines or
`rollback_last`, resolves the incident (which feeds the waterfall tracker) and pushes an
entry for later reversal. The telemetry mode is read at the start of a turn and frozen in
the token. Everything is in memory and in one process; only processes and firewall rules
lie outside.

### What is hard

* One event loop runs every handler, so a handler is atomic *between suspensions*; it
  suspends on `asyncio.to_thread`, and then other handlers, threads, process exits, PID
  reuse and manual firewall changes all happen.
* State is read, awaited over, and used: the mode, the top of the stack, the PID behind a
  preview, the clarification window.
* Firewall commands fail in the middle of a list or time out with an unknown effect.
* Three clocks run out independently: the token's TTL, the clarification window, the
  timeouts of `wait` and of the firewall commands.
* Bounded deques drop old entries while dictionaries beside them do not.

## 2. The modules

| Module | Models | Composition |
|---|---|---|
| `TokenLease` | abstract: a token is issued with a deadline, granted at most once before it | refined by `ConfirmationRegistry`, alone and inside `OperatorReview` and `ConfirmEndpoint` |
| `ConfirmationRegistry` | the registry | instantiated in `ConfirmEndpoint`, extended by `OperatorReview` |
| `CommandLifecycle` | abstract: a command is taken up at most once and ends once; a rollback takes the newest mitigation in line | extends `TokenLease`; refined by `ConfirmEndpoint` |
| `Deque` | `collections.deque(maxlen=...)` | used by the ledger and the stack |
| `IncidentLog` | the ledger and the waterfall tracker | instantiated in `ConfirmEndpoint` |
| `MitigationStack` | the LIFO stack | instantiated in `ConfirmEndpoint` |
| `ClusterSandbox` | the simulated pods | instantiated in `ConfirmEndpoint` |
| `HostEngine` | engine threads, processes, firewall | instantiated in `ConfirmEndpoint` |
| `GateContract` | the commands a token may stand for | assumed by `ConfirmEndpoint`, kept by `VoiceDialog` |
| `ConfirmEndpoint` | `confirm_command` over all five | the composition |
| `OperatorReview` | the HUD's confirmation dialog, its fetches, the network, server restarts | over `ConfirmationRegistry` |
| `VoiceDialog` | one voice socket, transcript to token | beside `ConfirmEndpoint`, through `GateContract` |
| `TurnDelivery` | abstract: final turns once, in order, none after the shutdown | refined by `VoiceStream` |
| `ProviderSession` | the AssemblyAI session: connect, reader, upload, close | extended by `VoiceStream` |
| `VoiceStream` | the voice socket from accept to close: receiver, queue, turns, drain, clean-up | a command of `VoiceDialog` is one await here |
| `TelemetryFeed` | broadcaster, subscribers, mode switch, reconnecting pages | on its own |
| `MC*` | instances for TLC | |
| `*Proofs` | theorems about the module they are named after | |

**Correspondence.** A method that holds its lock, or a coroutine that never suspends, is
one action with its own guard and early returns as conjuncts and disjuncts. A host path of
`confirm_command` is three kinds of action: `ConfirmHost` or `ConfirmUnblock` up to the
`to_thread` call, the thread's `ThreadStep`s (one per system call that others can observe),
and `Finish` from the return to the response. `request[r]` is what the suspended coroutine
still holds in its local variables. `HostEngine` separates a PID from an *incarnation*
(PID and creation time), because psutil refuses to signal a PID that changed hands; the
model can therefore state what that protection gives. A CPU or memory figure, a message or a
name is kept only as far as a decision depends on it: memory is one bit (the 75% threshold of
`_degraded_pod_candidates`), a transcript is what the parser finds in it, a telemetry payload
is the mode it was sampled in.

In `ProviderSession` and `VoiceStream` every asyncio task is a program counter: a field of
`task` (connect, reader, upload, stream, close, the turn in hand), `receive` or `main`. An
action runs from one await to the next, and a cancellation is delivered at the await where
the task is suspended, as asyncio does. In `TelemetryFeed` the broadcast's walk is a counter
of the same kind: `targets` and `sending` are what `broadcast` holds across its awaits. In
`OperatorReview` the promise of a fetch is `answer`: it is settled by the server's answer to
that fetch, as each `fetch` has a connection of its own, and the answer to a request that was
given up goes nowhere. The number in a fetch only keeps apart the requests that are still on
their way to the server.

A dry run of the endpoint suspends as an execution does: `PreviewHost` peeks and submits the
thread, the same `ThreadStep`s run with `dry_run`, and `FinishPreview` answers. That such a
thread signals nobody and installs no rule is part of `ApprovedOnly`, and that it comes back
part of `RequestsAnswered`. A dry run that needs no thread is the single action `Preview`.

`HostEngine` takes one step per system call another process can get between:
`psutil.Process(pid)` (`Open`), the check of the name (`Inspect`), the connections of an
isolation (`Connections`), each signal, each `wait`, each firewall command. So the PID may
change hands between any two of them: psutil compares creation times when it signals, but not
when it reads a name or lists connections, and the addresses an isolation blocks can be those
of a process that took the PID after the check. The code promises nothing about that, and no
property is stated of it; the model shows the behaviour.

In `ProviderSession`, `posted` records what the provider sends and which turns it has
finalized, so that `CleanDrain` can say what a clean end must not have lost.

**History variables.** `deadline`, `grants` (registry), `signalled`, `births` (host),
`heard` (dialog), `submitted`, `dismissed` (review), `posted.finals`, `shown`, `commanded` (voice
stream) record the past for the properties. Those read by a guard are `deadline` and
`births`: `deadline[t] = None` in `Register` says that `token_urlsafe` never draws a token
twice, the dialog of `OperatorReview` counts down to the deadline the server announced
(`expires_at`), and `births` tells incarnations apart.

**Composition by contract.** `ConfirmEndpoint` mints tokens only for `Offerable` commands.
That this assumption is true of the voice side, although the mode may flip while a preview
is suspended, is `VoiceDialog`'s property `HonoursContract`, and a theorem. The endpoint's
400 answers for a missing target, and the 404 for an unknown pod, are thereby unreachable,
and the model keeps of them only what `ConfirmRefused` says: the token is gone and nothing
else has changed.

## 3. The runs

Passing runs. The reported sizes are distinct states.

| Run | Question | Instance |
|---|---|---|
| `Review` (492k) | single use and TTL under delayed, lost and abandoned requests, reloads and restarts; one review at a time; no unwanted or second execution, none of what the page calls unavailable; the dialog comes free | 2 tokens, TTL 2, clock 0..3, 4 fetches: a dry run and an execution of each token, or of one again after a reload |
| `Ledger` (1.5M) | order, eviction, newest waterfall | 3 incidents over `MaxIncidents` 2, so that one is evicted before or after its resolution |
| `HostProcesses` (315k) | every failure has an outcome, protected processes, real terminations, threads return | 2 threads, 1 PID with up to two further incarnations, a protected and an ordinary name, faults, manual rule removal |
| `Endpoint` (334k) | stack, rollback, snapshots, finality, authorization, firewall accounting, pods and host over one stack and one ledger; the service implements `CommandLifecycle` | 3 tokens, 2 handlers, 2 pods, 1 PID, 2 addresses, stack and ledger of 2, failing and timing-out tools: two mitigations in line and a rollback that must choose, two rollbacks that compete for one entry, a mitigation finishing while a rollback is suspended, and three mitigations of which one is evicted. The clock stands still and no process is killed: expiry, kills and the order of `resolved_at` are `EndpointHost`'s |
| `EndpointHost` (315k) | authorization with PID reuse, recorded kills are real, live tokens stay, every request is answered, the stack in order of execution | 2 tokens that expire, kills, their dry runs and rollbacks, 2 handlers on 1 PID that may be born again, an ordinary and a protected name, clock 0..1, faults, no symmetry |
| `Dialog` (67k) | the voice dialog's properties | 3 pods, 11 kinds of utterance, window 2, clock 0..3 |
| `VoiceStream` (881k) | turns delivered once and in order, clean drain, one report of a failure, nothing outlives the socket, every socket ends | a queue of 1 and 2 frames, so that the receiver blocks; 2 provider messages out of partial and final transcripts of two turns, a final one without text, errors and terminations |
| `Telemetry` (275k) | no dead subscriber stays; pages show the mode in the end | 2 pages, 2 mode switches, 1 fault of a connection, a send or a sampling |

The registry has no run of its own: `Review` checks single use and expiry with
restarts in addition, and `EndpointHost` that nothing else ends a token. In the composition
single use is part of `ImplementsLifecycle`, whose commands are taken up by the lease's
`Grant`. That the registry implements `TokenLease` by itself is a theorem and not a property
of a run: step by step `Grant` asks what `SingleUse` asks of the history, so a run would check
the same thing twice.

What the runs share out. In `Endpoint` the clock stands still, so the order of `resolved_at`
in `StackSound` is tested in `EndpointHost`, where mitigations end at different times; the
part of `ApprovedOnly` about signals is tested there too, the parts about rules and pods in
`Endpoint`. With two provider messages only one turn can precede the termination, so `VoiceStream`
shows that a clean end loses no turn, and the order of several commands rests on the theorem
`StreamCleanDrain`. `ExpiredForgotten` asks nothing of an utterance heard with a window open
that closes while the handler runs, but that the window is gone at its end; what the late read
of the clock makes of the question is listed with the disagreements below.

**What the refinement hides.** `CommandLifecycle` has no store, engine, thread or handler.
Its mapping in `ConfirmEndpoint` reads a command's kind and outcome from the ledger; one that
was taken up, is not resolved and has no handler was refused with an HTTP error. The
mitigations in line are the tokens on the stack; what a rollback reverses is known to its
suspended handler until the record has it. A suspended execution is `Execute` or `Reverse` at
the redemption and `End` at the response, and everything its thread does in between is a
stutter: whatever fails, expires or overlaps, nobody else gets the mitigation a rollback took.

Bounds: `MaxTime` (clock), `MaxBirths` (processes started), `MaxRules` (rules of an address
when `HostEngine` alone starts another isolation), `MaxDelay` (the delays a waterfall
carries), `MaxFetches` (the page's requests), `Previewers` (the handlers
that may run a dry run on the host), `MaxFrames` and `MaxMessages` (what the client
and the provider send), `MaxFaults` and `MaxSwitches` (telemetry). They are guards of the
ticks (and of `Hear`, whose handler takes time), of `ProcessStart`, `HostNext`, `LogNext`,
of `Confirm` in the dialog, and of the environment's steps in the two streams. A TTL of one
or two ticks is enough, since a tick stands for any time in which nothing relevant expires
and both sides of each deadline are visited. Two handlers suffice for every pairwise race
between suspended handlers; a third token gives them something to race for. Two messages of
the provider give every order of partial, final, repeated, late and empty transcripts against
each other and against each end of the session. One fault of the telemetry feed meets the
broadcast at each of its steps.
Symmetry is used on tokens and handlers, and only in `Endpoint` and `Ledger*`, which have no
liveness. `Ledger*`, `Review`, `VoiceStream` and `Telemetry` switch deadlock checking off:
there every token may be drawn and decided, the socket may have ended, or the broadcaster may
have been stopped. All other runs check for deadlock.

**Fairness.**

* *Host and endpoint.* `HostSpec` and `FairSpec` assume weak fairness of each thread's own
  steps and (in `FairSpec`) of the event loop resuming a handler whose thread has returned.
  Each blocking call in a thread has a timeout (`wait(timeout=3)`,
  `subprocess.run(timeout=5)`), so a thread is never stuck, and asyncio resumes a finished
  future. Nothing is assumed of the operator, of processes exiting, or of the clock.
* *Voice stream.* Weak fairness of the program's own steps: each await whose answer comes
  from outside has a timeout in the code, and the timeout is one of the step's outcomes.
  Client and provider promise nothing. `CLEANUP_TIMEOUT` around the gathered tasks cannot
  expire, because the timeouts inside them add up to less; the one around the session's
  close can, and does in the model.
* *Telemetry.* The loop, the handlers and an open page's reading and reconnecting are weakly
  fair, answers to mode switches arrive, and a page's watchdog fires only when nothing has
  come. Breaking connections, failing samplings, switches and the stop are not assumed to
  happen, nor not to. That a dead connection is noticed is due to the server's pings
  (external).
* *Review.* Only the page's own fetch timer (15 s) is fair: `DialogFreed` needs no server.

### Disagreements between the code and its documentation

Each of these runs checks one sentence of the repository, and TLC shows a behaviour of the
code that contradicts it. `PROJECT.json` quotes the sentences.

| Run | What happens |
|---|---|
| `LedgerUnbounded` | `_records` is never trimmed: the trimming loop waits for a deque to exceed its own `maxlen` |
| `LedgerExport` | the default post-mortem is the newest *opened* resolved incident |
| `RollbackMode` | a bare rollback gated in one mode undoes a mitigation of the other |
| `ExecutionTime` | the execution time contains the operator's confirmation time |

Six more that the models show and that have no run of their own:

* `websockets.py:373` reads the clock again in `narrow_candidates`: a clarification window
  that closes between that and the earlier test in the same handler produces a question
  without candidates, although `websockets.py:321` says it carries "the unresolved candidate
  set".
* `incident_log.py:4-5` says the record is marked resolved when the token is redeemed for a
  real execution; a `ProtectedProcessError` or `ProcessNotFoundError` (`endpoints.py:137-140`)
  consumes the token and leaves the incident open. `Finish` and `ConfirmRefused` show it.
* `mitigation_stack.py:3` says every successful mutating execution pushes an entry; a
  successful rollback of a *named* pod pushes none (`endpoints.py:148`, `ConfirmCluster`). A
  bare rollback that follows restores a snapshot older than it, and so undoes it too.
* `system_engine.py:353-355` says removing an absent rule counts as success; `iptables -D`
  runs with `check=True`, and its error fails the rollback (`Unblock`).
* `static/app.js:628` announces every rollback as a sandbox rollback; it may remove rules
  from the host's firewall (`ConfirmUnblock`).
* `FirewallAccounted` holds with `Platform = "linux"`, where `iptables -D` removes one rule of
  possibly several, and fails with `"win32"`, where `netsh` removes all rules of one name
  and the name depends on the address alone (`RuleRemoved`): two isolations that block one
  address, then one rollback, leave an entry on the stack whose rule is gone. Nor does it hold
  with `OutsideEdits`: a rule deleted by hand makes a rollback stop at its address, and the
  entry's later rules stay with nothing that lists them.

## 4. The proofs

TLAPS checks the following for every value of the constants under the modules' named
assumptions (`*Assumption`: the TTL and the sizes are positive, `None` is not data, the
commands are parsed commands, addresses are ordered like natural numbers, `Pod` is finite in
`VoiceDialog`, where its members are counted, faults are on or off).

*`ConfirmationRegistryProofs`.* `IInv` is `TypeOK /\ StoreAgrees /\ SingleUse`.
`SingleUse` is not inductive: it does not say that a token still in the store has not been
granted, nor that the stored deadline is the issued one. `StoreAgrees` says both, and `IInv`
is preserved by each action, pruning included. From it follow `RegistryTypeCorrect`,
`RegistrySingleUse`, the action property `RegistryValidUntilRedeemed`, and
`RegistryImplementsLease`: `redeem` maps to the lease's grant when it returns an entry and
to stuttering otherwise; `peek` and pruning are always stuttering.

*`OperatorReviewProofs`.* Each step of the dialog, the network or the server is a step of the
registry, the restart, or leaves the registry alone, so `IInv` is kept by citing the
registry's lemmas; a restart only empties the store. `OInv` adds what ties the page to it: an
offer reaches the page once; `consumed` says whether the execution of the token under review
was submitted; only submitted executions, of tokens nobody dismissed, are on their way; the
page waits for exactly the fetch about what it shows, a dry run unless the request is consumed;
and what is shown as unavailable is not consumed. `ReviewOneSubmission`,
`ReviewNoUnwantedExecution`, `ReviewStaysPinned` and `ReviewImplementsLease` follow.

*`IncidentLogProofs`.* `LInv` is `LogTypeOK /\ KeptOpened /\ RecordsTimed /\ LedgerOrder /\
LatestIsNewest`: what is in the order has a record, and no record lies in the future, so the
incident resolved now is as new as any and the one opened now comes last. The lemma
`AppendedRight` says what a full deque drops.

*`HostEngineProofs`.* `HostTypeCorrect`, `HostProtectedSurvive` and `HostTerminationIsReal`,
of the engine on its own. Neither safety property is inductive. `HInv` adds what a thread
holds between its check and its signals (`Checked`: the process opened is not protected, or it
has lost its PID for good and psutil will not signal it; `PhaseFits`: which operation can be in
which phase, and that a dry run is in none that acts) and that every incarnation
seen is older than the next one (`Older`), so that whoever gets a reused PID differs from
the process a thread reported as gone. `FirstOfThem`, that the firewall loops take an
address they were given, uses the well-foundedness of `<` on the natural numbers.

*`ConfirmEndpointProofs`.* The invariant of the service, `ServiceInv`, is a conjunction of
seven parts, three of which are those of the components' own proofs:

* `RegistryInv`, `LogInv`, `HostInv` are the inductive invariants of the registry, the ledger
  and the engine, reached through named `INSTANCE`s. Every endpoint action is an action of
  the component or leaves it alone, so the components' inductive steps are cited, not
  repeated. `EndpointSingleUse`, `EndpointValidUntilRedeemed` and `EndpointProtectedSurvive`
  need no more.
* `LedgerInv` gives `EndpointResolutionIsFinal`: an incident is opened only for an issued
  token; a pending token, and the token of a suspended handler, have no resolved incident; no
  two handlers are suspended on one token. The interesting step is `Finish`: the incident it
  resolves is unresolved because its token was in flight, and no other handler has it because
  redemption had removed the token from the store.
* `MitigationInv` relates the stack and the handlers to the ledger. `StackSound` alone is not
  inductive: it says nothing of an entry that a suspended rollback has popped. `PoppedInv`
  says that such an entry is still undoable (`Undoable`: succeeded, no rollback, linked by
  nobody), is no longer on the stack and is in nobody else's hands; `SuspendedInv` that a
  handler's token is redeemed and its incident open; `OffersOpened` that the store and the
  ledger agree about what was offered. `EndpointStackSound` and `EndpointRolledBackOnce`
  follow.
* `ThreadsServe` says that a thread runs for a suspended handler, on the command of that
  handler's incident or on the entry it popped. With it what a thread reports back makes a
  well-formed entry, which `EndpointTypeCorrect` needs, and what a thread does was approved
  (`EndpointApprovedOnly`). What the thread achieved is what the ledger says of it:
  `EndpointRecordedKillsAreReal` follows a kill from the check in the thread to the success in
  its record. A thread that runs for no suspended handler is that of a dry run; the lemma
  `PreviewsWriteNothing` says that its beginning and its end change nothing but what the store
  prunes and the thread itself.
* `SnapshotInv` gives `EndpointSnapshotsNested`: a pod's restarts never fall but by a
  restoration, which takes the topmost of its entries.

`EndpointFirewallAccounted` counts. `Claims(ip)` is the set of tokens whose isolation has a
rule for `ip` that is still to be removed: their entry is on the stack, or their thread is
installing, or a rollback's thread is removing. `FirewallInv` says that the claims on an
address never outnumber its rules: a thread adds a claim only together with a rule, and
removes a rule only together with its own claim, which `StackInv` and `PoppedInv` show to be
nobody else's. The theorem has the hypotheses `Platform = "linux"` and `~OutsideEdits`,
without which the property is false (section 3).

Two refinements close this module. `EndpointImplementsLease` is the registry's, under every
step of the service. `EndpointImplementsLifecycle` is shown action by action: `Confirm`'s paths
map to `Execute`, `NothingToReverse` or `Reverse`, or to a stutter when nothing is redeemable;
`Finish` to `End`; `Gate` to `Offer`; threads, previews, pod ticks and the outside world to
stutters. `OthersStand` is the lemma all of them need: a step about one token leaves what the
mapping says of the others as it was, because no two handlers serve one token (`LedgerInv`). So
the service's invariants are what the refinement rests on: `End` concludes an outcome that was
`None` only because the incident of a suspended handler is open, and `Reverse` finds its
mitigation at the end of the line because the deques agree item by item (`PopReverses`,
`PushQueues`). One fact was missing and is proved beside them, `UnblockAnswers`: a thread that
removes rules has no process to miss or to protect, so a rollback that has popped an entry is
never answered with an HTTP error.

*`VoiceDialogProofs`.* `DInv` is the type, `WindowSound` and `TurnGated`: a suspended preview
is an inspection, or about a kill or an isolation with a PID, of what was named or of a
process, in the mode its token will freeze. The proof follows `_gate_mutation`'s five
outcomes. `DialogNeverGuesses` has a hypothesis: no process is named like a pod
(`Process \cap Pod = {}`); otherwise a host command on such a process is literally a command
that names a pod nobody spoke of.
`DialogHonoursContract` discharges the assumption `ConfirmEndpoint` is built on.

*`VoiceStreamProofs`.* `VInv` relates the program counters: a transcript being handed on is
one the provider sent (`TurnInHand`); no final transcript shown is above the session's
`_last_finalized_turn`, and one that waits for the ready message is above all of those shown
(`FinalsKnown`); what has ended at each point of the session (`TasksSound`) and of the handler
(`HandlerSound`). `StreamTurnsDelivered` is the refinement of `TurnDelivery`: only `on_turn`'s
first step, before its first await, maps to `Show`, and only the assignment of
`accepting_turns` to `ShutDown`. `StreamFailureReported` is an action property: the step that
begins the shutdown reads the failure in the same step.

`StreamCleanDrain` rests on a second invariant, `DrainInv`. `FramesInOrder` says where every
frame of the client is: with the provider, in the upload's hands, in the queue or in the hands
of a blocked receiver, in this order, the end marker last; so an upload that meets the marker has
sent them all. `CommandsFollow` says that while nothing has failed every final transcript shown
was carried out, but for the last one while `on_turn` is at work on it. `StreamSound` says what
the stream task has seen to when it is done, and `CleanEnd` that the decision to close with 1000
found all of it: the upload at its end, the reader gone, the termination confirmed. The witness
for the order of commands (`CarriedOut`) is extended by one position whenever a command is
carried out, which is why `CleanDrain` can be proved without induction over the transcripts.
A third invariant, `FinalsInv`, follows the turns the provider has finalized. While nothing has
failed, and in a socket that has ended well, each of them is shown, in the hands of a reader
that waits for the ready message, or still in the inbox with nothing before it that would make it old
(`FinalsFollow`); `FinalsBound` says that the session has taken nothing for final that the
provider had not finalized, and `ProviderSound` that a termination is the provider's last
message, so that a reader that has seen it has emptied the inbox.

*`TelemetryFeedProofs`.* `FeedInv` is the type, `NoGhosts` and the fact that the numbers of
sockets not yet opened are unused. Two may remove one subscriber, the broadcast after a
failed send and the handler in its `finally`; the proof shows neither order leaves it behind.

*Model-checked only.* Liveness (`ThreadsReturn`, `RequestsAnswered`, `DialogFreed`,
`SocketEnds`, `PagesFollowMode`) and anything about `ENABLED` are outside the reach of the
installed provers and stay with TLC. Every other property of the passing runs, each invariant,
action property and refinement, is also the subject of a theorem.

## 5. Not modelled

* *How words are recognised* (lexicons, fuzzy matching): `VoiceDialog` quantifies over what
  may have been recognised, so every such result is covered, but not which text yields it.
* *The HUD's microphone uplink, speech output and rendering*: the worklet's buffering and
  reconnecting of the voice socket happen in the browser's audio thread; the server sees only
  a client that sends, stops or leaves, which `VoiceStream` has.
* *`groq_client`, `discord_alerts`, `render_markdown`, logging, settings, routing*: no state
  that another component reads.
* *Figures that are only displayed*: CPU, rates, messages, the waterfall's timestamps in the
  voice stream (its delays are kept in `IncidentLog`), and whether an error is called
  retryable.
* *Cancellation of running handlers by a shutdown of the server*: the process ends with them.
  The broadcaster's own stop is modelled.
* *The firewall after a restart*: the ledger and the stack are lost while the rules stay, and
  the documentation promises nothing about them (`mitigation_stack.py:7`). What a restart does
  to the tokens and the dialog is modelled in `OperatorReview`.

## 6. Plan

Done, in order of importance: registry with proofs; ledger; stack, sandbox and host engine;
their composition in the endpoint; the voice dialog; the operator's review over an unreliable
network; the voice stream over the provider's session; the telemetry feed; proofs of all of
them.

Next:

1. `Restart` in `ConfirmEndpoint`, with a property of what remains of the firewall; today no
   document states one.
2. Two voice sockets over one `ConfirmEndpoint`, with `VoiceDialog` and `VoiceStream` in place
   of `Gate`, to replace the contract between them by the composition itself.
