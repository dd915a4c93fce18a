-------------------------- MODULE TelemetryFeedProofs --------------------------
(***************************************************************************)
(* TelemetryFeed, for every set of pages and any number of faults and mode  *)
(* switches: the subscriber set holds no socket whose handler is gone.      *)
(*                                                                          *)
(* The broadcaster only takes sockets out of the set; a handler puts its    *)
(* own in once, when it is accepted, and never after it has left; and the   *)
(* number of a new socket has not been used before.                         *)
(***************************************************************************)
EXTENDS TelemetryFeed, TLAPS

(* Sockets a page has not opened have no handler. *)
UnopenedUnused ==
    \A p \in Page, n \in 1..MaxFaults + 1 : opened[p] < n => feed[<<p, n>>] = "none"

FeedInv == FeedTypeOK /\ UnopenedUnused /\ NoGhosts

LEMMA SocketPairs ==
  ASSUME NEW p \in Page, NEW n \in 1..MaxFaults + 1
  PROVE  <<p, n>> \in Socket
  BY DEF Socket

LEMMA FeedInvInitially == Init => FeedInv
<1> SUFFICES ASSUME Init PROVE FeedInv
  OBVIOUS
<1>1. 0 \in 0..MaxFaults + 1 /\ 0 \in 0..MaxSwitches /\ 0 \in 0..MaxFaults
  BY FeedAssumption
<1>2. FeedTypeOK
  BY <1>1 DEF Init, FeedTypeOK, TelemetryMode
<1>3. UnopenedUnused
  BY SocketPairs DEF Init, UnopenedUnused
<1>4. NoGhosts
  BY DEF Init, NoGhosts
<1>5. QED
  BY <1>2, <1>3, <1>4 DEF FeedInv

-----------------------------------------------------------------------------
(* The broadcaster. *)

(* Its steps take sockets out of the set at most, and touch no handler. *)
LEMMA BroadcasterKeeps ==
  ASSUME FeedInv, RunStep \/ BuildFails \/ StopBroadcaster
  PROVE  FeedInv'
<1>0. FeedTypeOK /\ UnopenedUnused /\ NoGhosts
  BY DEF FeedInv
<1>1. UNCHANGED <<mode, feed, up, client, replies, switches>> /\ connections' \subseteq connections
  BY DEF RunStep, BuildFails, StopBroadcaster, Build, Broadcast, Walk, Sent, NotSent, CycleEnds,
         SubscribersWithout
<1>2. UnopenedUnused' /\ NoGhosts'
  BY <1>0, <1>1 DEF UnopenedUnused, NoGhosts, client
<1>3. /\ loop' \in {"sleeping", "building", "walking", "stopped"}
      /\ payload' \in TelemetryMode
      /\ faults' \in 0..MaxFaults
  BY <1>0, FeedAssumption
     DEF FeedTypeOK, RunStep, BuildFails, StopBroadcaster, Build, Broadcast, Walk, Sent, NotSent,
         CycleEnds, Sampled, Fault
<1>4. targets' \subseteq Socket /\ sending' \in Socket \cup {None} /\ connections' \subseteq Socket
  BY <1>0, <1>1
     DEF FeedTypeOK, RunStep, BuildFails, StopBroadcaster, Build, Broadcast, Walk, Sent, NotSent,
         CycleEnds
<1>5. buffer' \in [Socket -> TelemetryMode \cup {None}]
  BY <1>0
     DEF FeedTypeOK, RunStep, BuildFails, StopBroadcaster, Build, Broadcast, Walk, Sent, NotSent,
         CycleEnds
<1>6. QED
  BY <1>0, <1>1, <1>2, <1>3, <1>4, <1>5 DEF FeedInv, FeedTypeOK, client

-----------------------------------------------------------------------------
(* The endpoint. *)

LEMMA AcceptKeeps ==
  ASSUME FeedInv, NEW s \in Socket, Accept(s)
  PROVE  FeedInv'
<1>0. FeedTypeOK /\ UnopenedUnused /\ NoGhosts
  BY DEF FeedInv
<1>1. /\ feed[s] = "accepting" /\ feed' = [feed EXCEPT ![s] = "subscribed"]
      /\ connections' = connections \cup {s} /\ UNCHANGED client
  BY DEF Accept
<1>2. FeedTypeOK'
  BY <1>0, <1>1 DEF Accept, FeedTypeOK, client
<1>3. UnopenedUnused'
  BY <1>0, <1>1, SocketPairs DEF FeedTypeOK, UnopenedUnused, client
<1>4. NoGhosts'
  BY <1>0, <1>1 DEF FeedTypeOK, NoGhosts
<1>5. QED
  BY <1>2, <1>3, <1>4 DEF FeedInv

LEMMA FeedEndsKeeps ==
  ASSUME FeedInv, NEW s \in Socket, FeedEnds(s)
  PROVE  FeedInv'
<1>0. FeedTypeOK /\ UnopenedUnused /\ NoGhosts
  BY DEF FeedInv
<1>1. /\ feed[s] = "subscribed" /\ feed' = [feed EXCEPT ![s] = "gone"]
      /\ connections' = connections \ {s} /\ UNCHANGED client
  BY DEF FeedEnds, SubscribersWithout
<1>2. FeedTypeOK'
  BY <1>0, <1>1 DEF FeedEnds, FeedTypeOK, client
<1>3. UnopenedUnused'
  BY <1>0, <1>1, SocketPairs DEF FeedTypeOK, UnopenedUnused, client
<1>4. NoGhosts'
  BY <1>0, <1>1 DEF FeedTypeOK, NoGhosts
<1>5. QED
  BY <1>2, <1>3, <1>4 DEF FeedInv

-----------------------------------------------------------------------------
(* The pages. *)

LEMMA ConnectKeeps ==
  ASSUME FeedInv, NEW p \in Page, Connect(p)
  PROVE  FeedInv'
<1>0. FeedTypeOK /\ UnopenedUnused /\ NoGhosts
  BY DEF FeedInv
<1> DEFINE n == opened[p] + 1
<1>1. n \in 1..MaxFaults + 1 /\ opened[p] < n /\ n \in Nat
  BY <1>0, FeedAssumption DEF Connect, FeedTypeOK
<1>2. <<p, n>> \in Socket /\ feed[<<p, n>>] = "none"
  BY <1>0, <1>1, SocketPairs DEF UnopenedUnused
<1>3. opened'[p] = n /\ opened' = [opened EXCEPT ![p] = n]
  BY <1>0 DEF Connect, FeedTypeOK
<1>4. /\ feed' = [feed EXCEPT ![<<p, n>>] = "accepting"]
      /\ up' = [up EXCEPT ![<<p, n>>] = TRUE]
      /\ socket' = [socket EXCEPT ![p] = n]
      /\ UNCHANGED connections
  BY <1>3 DEF Connect
<1> HIDE DEF n
<1>5. FeedTypeOK'
  <2>1. n \in 0..MaxFaults + 1
    BY <1>1
  <2>2. QED
    BY <1>0, <1>2, <1>3, <1>4, <2>1 DEF Connect, FeedTypeOK
<1>6. UnopenedUnused'
  <2>1. SUFFICES ASSUME NEW q \in Page, NEW m \in 1..MaxFaults + 1, opened'[q] < m
                 PROVE  feed'[<<q, m>>] = "none"
    BY DEF UnopenedUnused
  <2>2. opened[q] < m
    BY <1>0, <1>1, <1>3, <2>1 DEF FeedTypeOK, n
  <2>3. <<q, m>> # <<p, n>>
    BY <1>0, <1>1, <1>3, <2>1 DEF FeedTypeOK
  <2>4. QED
    BY <1>0, <1>4, <2>2, <2>3, SocketPairs DEF FeedTypeOK, UnopenedUnused
<1>7. NoGhosts'
  BY <1>0, <1>2, <1>4 DEF FeedTypeOK, NoGhosts
<1>8. QED
  BY <1>5, <1>6, <1>7 DEF FeedInv

(* The other steps of the pages leave the handlers and the set alone. *)
LEMMA PageKeeps ==
  ASSUME FeedInv, NEW p \in Page, ConnectionBreaks(p) \/ WatchdogExpires(p) \/ Receive(p)
  PROVE  FeedInv'
<1>0. FeedTypeOK /\ UnopenedUnused /\ NoGhosts
  BY DEF FeedInv
<1>1. UNCHANGED <<server, opened, replies, switches>>
  BY DEF ConnectionBreaks, WatchdogExpires, Receive, Closed
<1>2. UnopenedUnused' /\ NoGhosts'
  BY <1>0, <1>1 DEF server, UnopenedUnused, NoGhosts
<1>3. ASSUME socket[p] # 0
      PROVE  Current(p) \in Socket
  <2>1. socket[p] \in 1..MaxFaults + 1
    BY <1>0, <1>3, FeedAssumption DEF FeedTypeOK
  <2>2. QED
    BY <2>1, SocketPairs DEF Current
<1>4. CASE ConnectionBreaks(p) \/ WatchdogExpires(p)
  <2>1. Closed(p) /\ faults' \in 0..MaxFaults
    BY <1>0, <1>4, FeedAssumption DEF ConnectionBreaks, WatchdogExpires, Fault, FeedTypeOK
  <2>2. up' \in [Socket -> BOOLEAN] /\ buffer' \in [Socket -> TelemetryMode \cup {None}]
    BY <1>0, <2>1 DEF Closed, FeedTypeOK
  <2>3. socket' \in [Page -> 0..MaxFaults + 1]
    <3>1. 0 \in 0..MaxFaults + 1
      BY FeedAssumption
    <3>2. QED
      BY <1>0, <2>1, <3>1 DEF Closed, FeedTypeOK
  <2>4. FeedTypeOK'
    BY <1>0, <1>1, <2>1, <2>2, <2>3 DEF Closed, FeedTypeOK, server
  <2>5. QED
    BY <1>2, <2>4 DEF FeedInv
<1>5. CASE Receive(p)
  <2>1. buffer[Current(p)] \in TelemetryMode
    BY <1>0, <1>3, <1>5 DEF Receive, FeedTypeOK
  <2>2. shown' \in [Page -> TelemetryMode] /\ buffer' \in [Socket -> TelemetryMode \cup {None}]
    BY <1>0, <1>5, <2>1 DEF Receive, FeedTypeOK
  <2>3. FeedTypeOK'
    BY <1>0, <1>1, <1>5, <2>2 DEF Receive, FeedTypeOK, server
  <2>4. QED
    BY <1>2, <2>3 DEF FeedInv
<1>6. QED
  BY <1>4, <1>5

LEMMA ModeKeeps ==
  ASSUME FeedInv,
         \/ \E p \in Page, m \in TelemetryMode : SetMode(p, m)
         \/ \E r \in replies : ModeReply(r)
  PROVE  FeedInv'
<1>0. FeedTypeOK /\ UnopenedUnused /\ NoGhosts
  BY DEF FeedInv
<1>1. ASSUME NEW p \in Page, NEW m \in TelemetryMode, SetMode(p, m)
      PROVE  FeedInv'
  <2>1. FeedTypeOK'
    BY <1>0, <1>1, FeedAssumption DEF SetMode, FeedTypeOK, client
  <2>2. UnopenedUnused' /\ NoGhosts'
    BY <1>0, <1>1 DEF SetMode, UnopenedUnused, NoGhosts, client
  <2>3. QED
    BY <2>1, <2>2 DEF FeedInv
<1>2. ASSUME NEW r \in replies, ModeReply(r)
      PROVE  FeedInv'
  <2>1. r[1] \in Page /\ r[2] \in TelemetryMode
    BY <1>0 DEF FeedTypeOK
  <2>2. FeedTypeOK'
    BY <1>0, <1>2, <2>1 DEF ModeReply, FeedTypeOK, server
  <2>3. UnopenedUnused' /\ NoGhosts'
    BY <1>0, <1>2 DEF ModeReply, UnopenedUnused, NoGhosts, server
  <2>4. QED
    BY <2>2, <2>3 DEF FeedInv
<1>3. QED
  BY <1>1, <1>2

LEMMA FeedInvInductive == FeedInv /\ [Next]_vars => FeedInv'
<1> SUFFICES ASSUME FeedInv, [Next]_vars PROVE FeedInv'
  OBVIOUS
<1>1. CASE UNCHANGED vars
  BY <1>1 DEF vars, server, client, FeedInv, FeedTypeOK, UnopenedUnused, NoGhosts
<1>2. CASE Next
  BY <1>2, BroadcasterKeeps, AcceptKeeps, FeedEndsKeeps, ConnectKeeps, PageKeeps, ModeKeeps DEF Next
<1>3. QED
  BY <1>1, <1>2

LEMMA FeedInvAlways == Spec => []FeedInv
  BY FeedInvInitially, FeedInvInductive, PTL DEF Spec

(* The broadcaster, the handlers, the sockets and the pages stay what they  *)
(* are meant to be.                                                         *)
THEOREM FeedTypeCorrect == Spec => []FeedTypeOK
<1>1. FeedInv => FeedTypeOK
  BY DEF FeedInv
<1>2. QED
  BY <1>1, FeedInvAlways, PTL

(* telemetry_stream.py:43, 49, websockets.py:112: whichever of a broadcast, *)
(* its failed sends and the handler's finally removes a subscriber first,   *)
(* and however often it is removed, none is left whose handler is gone.     *)
THEOREM FeedNoGhosts == Spec => []NoGhosts
<1>1. FeedInv => NoGhosts
  BY DEF FeedInv
<1>2. QED
  BY <1>1, FeedInvAlways, PTL

=============================================================================
