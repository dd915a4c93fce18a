---------------------------- MODULE TelemetryFeed ----------------------------
(***************************************************************************)
(* The telemetry feed from end to end: TelemetryBroadcaster and its         *)
(* TelemetryConnectionManager (app/services/telemetry_stream.py), the       *)
(* endpoint that subscribes a socket (telemetry_feed of                     *)
(* app/api/v1/websockets.py), the mode switch, and the page's               *)
(* ReconnectingSocket (app/static/app.js).                                  *)
(*                                                                          *)
(* A broadcast walks over a copy of the subscribers and awaits each send:   *)
(* meanwhile sockets come and go, and one slow subscriber holds up all the  *)
(* others. A payload is the mode it was sampled in. A socket holds one      *)
(* payload the page has not read; a send waits for room until the page      *)
(* reads or the connection dies (the server's pings, external).             *)
(*                                                                          *)
(* A page opens one socket after the other, numbered; it never runs out of  *)
(* numbers, because a socket is only lost to one of MaxFaults faults.       *)
(***************************************************************************)
EXTENDS Naturals, FiniteSets

CONSTANTS Page,
          MaxFaults,    \* bound on the faults of network, sends and sampling
          MaxSwitches,  \* bound on the mode switches
          None

VARIABLES mode,         \* TelemetryBroadcaster._mode
          loop,         \* where _run is
          payload,      \* what this cycle sends
          targets,      \* the copied subscribers the walk has not come to
          sending,      \* the subscriber whose send is awaited, or None
          connections,  \* TelemetryConnectionManager._connections
          feed,         \* feed[s]: where the endpoint's handler of s is
          up,           \* up[s]: is s connected, as the page sees it?
          buffer,       \* buffer[s]: the payload on its way to the page, or None
          socket,       \* socket[p]: the page's current socket, or 0 while it waits to retry
          opened,       \* opened[p]: sockets p has opened so far
          shown,        \* shown[p]: the mode the page shows (telemetryMode)
          replies,      \* answers to mode switches on their way to the pages
          switches, faults

server == <<mode, loop, payload, targets, sending, connections, feed>>
client == <<socket, opened, shown>>
vars == <<server, up, buffer, client, replies, switches, faults>>

TelemetryMode == {"HOST_LOCAL", "K8S_CLUSTER"}
Socket == Page \X (1..MaxFaults + 1)

ASSUME FeedAssumption ==
    /\ {MaxFaults, MaxSwitches} \subseteq Nat
    /\ None \notin TelemetryMode \cup Socket

FeedTypeOK ==
    /\ mode \in TelemetryMode
    /\ loop \in {"sleeping", "building", "walking", "stopped"}
    /\ payload \in TelemetryMode
    /\ targets \subseteq Socket /\ sending \in Socket \cup {None} /\ connections \subseteq Socket
    /\ feed \in [Socket -> {"none", "accepting", "subscribed", "gone"}]
    /\ up \in [Socket -> BOOLEAN]
    /\ buffer \in [Socket -> TelemetryMode \cup {None}]
    /\ socket \in [Page -> 0..MaxFaults + 1] /\ opened \in [Page -> 0..MaxFaults + 1]
    /\ shown \in [Page -> TelemetryMode]
    /\ replies \subseteq (Page \X TelemetryMode)
    /\ switches \in 0..MaxSwitches /\ faults \in 0..MaxFaults

Init ==
    /\ mode = "HOST_LOCAL" /\ loop = "sleeping" /\ payload = "HOST_LOCAL" 
    /\ targets = {} /\ sending = None /\ connections = {}
    /\ feed = [s \in Socket |-> "none"]
    /\ up = [s \in Socket |-> FALSE] /\ buffer = [s \in Socket |-> None]
    /\ socket = [p \in Page |-> 0] /\ opened = [p \in Page |-> 0]
    /\ shown = [p \in Page |-> "HOST_LOCAL"]
    /\ replies = Page \X {"HOST_LOCAL"}  \* of the GET /telemetry/mode of a fresh page
    /\ switches = 0 /\ faults = 0

Fault == faults < MaxFaults /\ faults' = faults + 1

-----------------------------------------------------------------------------
(* TelemetryBroadcaster._run. *)

(* Mutation: the payload is not labelled with the mode it was sampled in. *)
SampledUnlabelled == None

(* _build_payload reads the mode once, for the source and for the label. *)
Sampled == mode

Build ==
    /\ loop = "sleeping"
    /\ loop' = "building" /\ payload' = Sampled
    /\ UNCHANGED <<mode, targets, sending, connections, feed, up, buffer, client, replies, switches, faults>>

(* The sampling fails: the cycle is logged and skipped. *)
BuildFails ==
    /\ loop = "building" /\ Fault
    /\ loop' = "sleeping"
    /\ UNCHANGED <<mode, payload, targets, sending, connections, feed, up, buffer, client, replies, switches>>

(* broadcast copies the subscribers under the lock, which nobody holds      *)
(* across an await.                                                         *)
Broadcast ==
    /\ loop = "building"
    /\ loop' = "walking" /\ targets' = connections
    /\ UNCHANGED <<mode, payload, sending, connections, feed, up, buffer, client, replies, switches, faults>>

(* Mutation: a subscriber is discarded from the copy only. *)
SubscribersKept(s) == connections

(* disconnect: discarding twice does no harm. *)
SubscribersWithout(s) == connections \ {s}

(* The next subscriber: discarded if the endpoint has seen its client       *)
(* leave (client_state), else its send begins.                              *)
Walk(s) ==
    /\ loop = "walking" /\ sending = None /\ s \in targets
    /\ targets' = targets \ {s}
    /\ IF feed[s] = "gone"
       THEN connections' = SubscribersWithout(s) /\ UNCHANGED sending
       ELSE sending' = s /\ UNCHANGED connections
    /\ UNCHANGED <<mode, loop, payload, feed, up, buffer, client, replies, switches, faults>>

Sent ==
    /\ loop = "walking" /\ sending # None
    /\ up[sending] /\ buffer[sending] = None
    /\ buffer' = [buffer EXCEPT ![sending] = payload]
    /\ sending' = None
    /\ UNCHANGED <<mode, loop, payload, targets, connections, feed, up, client, replies, switches, faults>>

(* The connection is dead: the payload is lost without a sign of it, or the *)
(* send raises; or something else makes it raise. Then the subscriber is    *)
(* dropped, but its socket is not closed.                                   *)
NotSent ==
    /\ loop = "walking" /\ sending # None
    /\ \/ /\ ~up[sending]
          /\ connections' \in {connections, SubscribersWithout(sending)}
          /\ UNCHANGED faults
       \/ /\ up[sending] /\ Fault
          /\ connections' = SubscribersWithout(sending)
    /\ sending' = None
    /\ UNCHANGED <<mode, loop, payload, targets, feed, up, buffer, client, replies, switches>>

CycleEnds ==
    /\ loop = "walking" /\ targets = {} /\ sending = None
    /\ loop' = "sleeping"
    /\ UNCHANGED <<mode, payload, targets, sending, connections, feed, up, buffer, client, replies, switches, faults>>

(* stop() at the end of the lifespan cancels _run wherever it is. *)
StopBroadcaster ==
    /\ loop # "stopped"
    /\ loop' = "stopped" /\ targets' = {} /\ sending' = None
    /\ UNCHANGED <<mode, payload, connections, feed, up, buffer, client, replies, switches, faults>>

-----------------------------------------------------------------------------
(* telemetry_feed. *)

(* connect: accept, then add. *)
Accept(s) ==
    /\ feed[s] = "accepting"
    /\ feed' = [feed EXCEPT ![s] = "subscribed"]
    /\ connections' = connections \cup {s}
    /\ UNCHANGED <<mode, loop, payload, targets, sending, up, buffer, client, replies, switches, faults>>

(* receive_text raises WebSocketDisconnect; the finally discards. *)
FeedEnds(s) ==
    /\ feed[s] = "subscribed" /\ ~up[s]
    /\ feed' = [feed EXCEPT ![s] = "gone"]
    /\ connections' = SubscribersWithout(s)
    /\ UNCHANGED <<mode, loop, payload, targets, sending, up, buffer, client, replies, switches, faults>>

-----------------------------------------------------------------------------
(* The pages and the network. *)

Current(p) == <<p, socket[p]>>

Connect(p) ==
    /\ socket[p] = 0 /\ opened[p] <= MaxFaults
    /\ opened' = [opened EXCEPT ![p] = @ + 1]
    /\ socket' = [socket EXCEPT ![p] = opened'[p]]
    /\ up' = [up EXCEPT ![<<p, opened'[p]>>] = TRUE]
    /\ feed' = [feed EXCEPT ![<<p, opened'[p]>>] = "accepting"]
    /\ UNCHANGED <<mode, loop, payload, targets, sending, connections, buffer, shown, replies, switches, faults>>

(* onclose: the page waits and connects again. *)
Closed(p) ==
    /\ up' = [up EXCEPT ![Current(p)] = FALSE]
    /\ buffer' = [buffer EXCEPT ![Current(p)] = None]
    /\ socket' = [socket EXCEPT ![p] = 0]
    /\ UNCHANGED <<server, opened, shown, replies, switches>>

(* The network breaks, or a slow neighbour lets the watchdog expire. *)
ConnectionBreaks(p) == socket[p] # 0 /\ Fault /\ Closed(p)

(* Mutation: no watchdog. *)
NoWatchdog(p) == FALSE

(* The watchdog: nothing has come for 6 s, and nothing is on its way, since *)
(* the broadcaster, which is quicker, has dropped the socket.               *)
Idle(p) ==
    /\ feed[Current(p)] = "subscribed" /\ Current(p) \notin connections \cup {sending}
    /\ buffer[Current(p)] = None

WatchdogExpires(p) == socket[p] # 0 /\ Idle(p) /\ UNCHANGED faults /\ Closed(p)

(* updateTelemetry. *)
Receive(p) ==
    /\ socket[p] # 0 /\ buffer[Current(p)] # None
    /\ shown' = [shown EXCEPT ![p] = buffer[Current(p)]]
    /\ buffer' = [buffer EXCEPT ![Current(p)] = None]
    /\ UNCHANGED <<server, up, socket, opened, replies, switches, faults>>

(* POST /telemetry/mode from a page, and its answer. *)
SetMode(p, m) ==
    /\ switches < MaxSwitches /\ m # mode
    /\ switches' = switches + 1
    /\ mode' = m
    /\ replies' = replies \cup {<<p, m>>}
    /\ UNCHANGED <<loop, payload, targets, sending, connections, feed, up, buffer, client, faults>>

ModeReply(r) ==
    /\ r \in replies
    /\ replies' = replies \ {r}
    /\ shown' = [shown EXCEPT ![r[1]] = r[2]]
    /\ UNCHANGED <<server, up, buffer, socket, opened, switches, faults>>

-----------------------------------------------------------------------------
RunStep ==
    \/ Build \/ Broadcast \/ Sent \/ NotSent \/ CycleEnds
    \/ \E s \in Socket : Walk(s)

Next ==
    \/ RunStep \/ BuildFails \/ StopBroadcaster
    \/ \E s \in Socket : Accept(s) \/ FeedEnds(s)
    \/ \E p \in Page :
        \/ Connect(p) \/ ConnectionBreaks(p) \/ WatchdogExpires(p) \/ Receive(p)
        \/ \E m \in TelemetryMode : SetMode(p, m)
    \/ \E r \in replies : ModeReply(r)

(* The event loop runs what can run, open pages read and reconnect (their   *)
(* attempts are unlimited), and answers arrive.                             *)
Fairness ==
    /\ WF_vars(RunStep)
    /\ \A s \in Socket : WF_vars(Accept(s)) /\ WF_vars(FeedEnds(s))
    /\ \A p \in Page : WF_vars(Connect(p)) /\ WF_vars(WatchdogExpires(p)) /\ WF_vars(Receive(p))
    /\ \A r \in Page \X TelemetryMode : WF_vars(ModeReply(r))

Spec == Init /\ [][Next]_vars /\ Fairness

-----------------------------------------------------------------------------
(* Whoever comes and goes during a broadcast, the set holds only sockets    *)
(* whose handler is still there: each is removed by its own handler at the  *)
(* latest, and none is put back.                                            *)
NoGhosts == \A s \in connections : feed[s] = "subscribed"

(* Once the mode stays what it is, every open page shows it in the end:     *)
(* late payloads and late answers of an earlier mode, dropped subscribers,  *)
(* a failed sampling and reconnects only delay it.                          *)
PagesFollowMode ==
    \A m \in TelemetryMode :
        <>[](mode = m /\ loop # "stopped") => <>[](\A p \in Page : shown[p] = m)
=============================================================================
