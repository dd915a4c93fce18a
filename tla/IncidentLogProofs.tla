-------------------------- MODULE IncidentLogProofs --------------------------
(***************************************************************************)
(* IncidentLog, for any tokens, ledger size and bounds.                     *)
(*                                                                          *)
(* The order of _order is that of the openings because the clock does not   *)
(* run backwards (RecordsTimed) and a token is opened once, so that it is   *)
(* not in _order yet (KeptOpened). The tracker holds the newest waterfall   *)
(* for the same reason: whatever is resolved now is resolved last.          *)
(***************************************************************************)
EXTENDS IncidentLog, TLAPS

(* The loop over _order finds a record for each of its tokens. *)
KeptOpened == \A i \in DOMAIN order : Opened(order[i])

(* Nothing in the ledger lies in the future. *)
RecordsTimed ==
    \A t \in Token : Opened(t) =>
        /\ records[t].opened_at <= now
        /\ Resolved(t) => records[t].resolved_at <= now

LInv == LogTypeOK /\ KeptOpened /\ RecordsTimed /\ LedgerOrder /\ LatestIsNewest

-----------------------------------------------------------------------------
(* What appending to a bounded deque does to its items. *)
LEMMA AppendedRight ==
  ASSUME NEW S, NEW q \in Seq(S), NEW x \in S, NEW max \in Nat \ {0}, Len(q) <= max
  PROVE  /\ AppendRight(q, x, max) \in Seq(S)
         /\ \E d \in {0, 1} :
              /\ Len(AppendRight(q, x, max)) = Len(q) + 1 - d
              /\ d = 1 => Len(q) = max
              /\ d = 0 => Len(q) < max
              /\ AppendRight(q, x, max)[Len(q) + 1 - d] = x
              /\ \A i \in 1..(Len(q) - d) : AppendRight(q, x, max)[i] = q[i + d]
<1>0. Len(q) \in Nat
  OBVIOUS
<1>1. CASE Len(q) < max
  <2>1. AppendRight(q, x, max) = Append(q, x)
    BY <1>1 DEF AppendRight
  <2>2. /\ Append(q, x) \in Seq(S) /\ Len(Append(q, x)) = Len(q) + 1 - 0
        /\ Append(q, x)[Len(q) + 1 - 0] = x
        /\ \A i \in 1..(Len(q) - 0) : Append(q, x)[i] = q[i + 0]
    OBVIOUS
  <2>3. QED
    BY <1>1, <2>1, <2>2
<1>2. CASE ~(Len(q) < max)
  <2>1. Len(q) = max /\ q # <<>>
    BY <1>0, <1>2
  <2>2. Tail(q) \in Seq(S) /\ Len(Tail(q)) = Len(q) - 1
        /\ \A i \in 1..(Len(q) - 1) : Tail(q)[i] = q[i + 1]
    BY <2>1
  <2>3. AppendRight(q, x, max) = Append(Tail(q), x)
    BY <1>2 DEF AppendRight
  <2>4. /\ Append(Tail(q), x) \in Seq(S) /\ Len(Append(Tail(q), x)) = Len(q) + 1 - 1
        /\ Append(Tail(q), x)[Len(q) + 1 - 1] = x
        /\ \A i \in 1..(Len(q) - 1) : Append(Tail(q), x)[i] = q[i + 1]
    <3> DEFINE p == Tail(q)
    <3>1. p \in Seq(S) /\ Len(p) = Len(q) - 1
      BY <2>2
    <3>2. \A i \in 1..(Len(q) - 1) : p[i] = q[i + 1]
      BY <2>2
    <3> HIDE DEF p
    <3>3. /\ Append(p, x) \in Seq(S) /\ Len(Append(p, x)) = Len(p) + 1
          /\ Append(p, x)[Len(p) + 1] = x
          /\ \A i \in 1..Len(p) : Append(p, x)[i] = p[i]
      BY <3>1
    <3>4. Len(p) + 1 = Len(q) + 1 - 1
      BY <1>0, <3>1
    <3>5. QED
      BY <1>0, <3>1, <3>2, <3>3, <3>4 DEF p
  <2>5. QED
    BY <2>1, <2>3, <2>4
<1>3. QED
  BY <1>1, <1>2

LEMMA Known ==
  ASSUME LogTypeOK, NEW t \in Token, Opened(t)
  PROVE  /\ records[t] \in IncidentRecord
         /\ records[t].opened_at \in Nat /\ records[t].resolved_at \in Optional(Nat)
         /\ records[t].latency_waterfall \in Optional(Waterfall)
         /\ now \in Nat
<1>1. records[t] \in Optional(IncidentRecord) /\ now \in 0..MaxTime
  BY DEF LogTypeOK
<1>2. records[t] \in IncidentRecord
  BY <1>1 DEF Opened, Optional
<1>3. QED
  BY <1>1, <1>2, LogAssumption DEF IncidentRecord

LEMMA KeptTokens ==
  ASSUME LogTypeOK
  PROVE  /\ Len(order) \in Nat /\ DOMAIN order = 1..Len(order)
         /\ \A i \in DOMAIN order : order[i] \in Token
<1>1. order \in Seq(Token)
  BY DEF LogTypeOK
<1>2. QED
  BY <1>1

LEMMA LInvInitially == LogInit => LInv
<1> SUFFICES ASSUME LogInit PROVE LInv
  OBVIOUS
<1>1. LogTypeOK
  <2>1. 0 \in 0..MaxTime /\ <<>> \in Seq(Token)
    BY LogAssumption
  <2>2. QED
    BY <2>1 DEF LogInit, LogTypeOK, Optional
<1>2. DOMAIN order = {} /\ Len(order) = 0 /\ \A t \in Token : ~Opened(t)
  BY DEF LogInit, Opened
<1>3. KeptOpened /\ RecordsTimed /\ LedgerOrder
  BY <1>2, LogAssumption DEF KeptOpened, RecordsTimed, LedgerOrder
<1>4. LatestIsNewest
  BY <1>2 DEF LogInit, LatestIsNewest, Resolved
<1>5. QED
  BY <1>1, <1>3, <1>4 DEF LInv

-----------------------------------------------------------------------------
(* open_incident. *)

LEMMA OpeningKeeps ==
  ASSUME LInv, NEW t \in Token, NEW command \in Command, NEW mode \in Mode,
         NEW waterfall \in Optional(Waterfall), ~Opened(t), OpenIncident(t, command, mode, waterfall)
  PROVE  LInv'
<1>0. LogTypeOK /\ KeptOpened /\ RecordsTimed /\ LedgerOrder /\ LatestIsNewest
  BY DEF LInv
<1> DEFINE r == [command |-> command, mode |-> mode,
                 timeline |-> <<[timestamp |-> now, message |-> "requested"]>>,
                 opened_at |-> now, resolved_at |-> None, success |-> None,
                 mttr_seconds |-> None, latency_waterfall |-> waterfall, linked_token |-> None]
<1>1. /\ records' = [records EXCEPT ![t] = r] /\ order' = AppendRight(order, t, MaxIncidents)
      /\ now' = now /\ latest' = latest
  BY DEF OpenIncident
<1>2. now \in Nat /\ now \in 0..MaxTime /\ records \in [Token -> Optional(IncidentRecord)]
      /\ order \in Seq(Token) /\ MaxIncidents \in Nat \ {0}
  BY <1>0, LogAssumption DEF LogTypeOK
<1>3. r \in IncidentRecord /\ r.opened_at = now /\ r.resolved_at = None /\ r # None
  <2>1. <<[timestamp |-> now, message |-> "requested"]>> \in Seq(IncidentEvent)
    <3>1. [timestamp |-> now, message |-> "requested"] \in IncidentEvent
      BY <1>2 DEF IncidentEvent
    <3>2. QED
      BY <3>1
  <2>2. r \in IncidentRecord
    BY <1>2, <2>1 DEF IncidentRecord, Optional
  <2>3. QED
    BY <2>2, LogAssumption
<1> HIDE DEF r
<1>4. /\ \A u \in Token \ {t} : records'[u] = records[u] /\ (Opened(u)' <=> Opened(u)) /\ (Resolved(u)' <=> Resolved(u))
      /\ records'[t] = r /\ Opened(t)' /\ ~Resolved(t)' /\ ~Resolved(t)
  BY <1>1, <1>2, <1>3 DEF Opened, Resolved
<1>5. LedgerOrder => Len(order) <= MaxIncidents
  BY DEF LedgerOrder
<1>6. PICK d \in {0, 1} :
        /\ order' \in Seq(Token)
        /\ Len(order') = Len(order) + 1 - d
        /\ d = 1 => Len(order) = MaxIncidents
        /\ d = 0 => Len(order) < MaxIncidents
        /\ order'[Len(order) + 1 - d] = t
        /\ \A i \in 1..(Len(order) - d) : order'[i] = order[i + d]
  <2>1. Len(order) <= MaxIncidents
    BY <1>0, <1>5
  <2> DEFINE q == AppendRight(order, t, MaxIncidents)
  <2>2. /\ q \in Seq(Token)
        /\ \E d \in {0, 1} :
              /\ Len(q) = Len(order) + 1 - d
              /\ d = 1 => Len(order) = MaxIncidents
              /\ d = 0 => Len(order) < MaxIncidents
              /\ q[Len(order) + 1 - d] = t
              /\ \A i \in 1..(Len(order) - d) : q[i] = order[i + d]
    BY <1>2, <2>1, AppendedRight
  <2>3. order' = q
    BY <1>1
  <2> HIDE DEF q
  <2>4. QED
    BY <2>2, <2>3
<1>7. /\ Len(order) \in Nat /\ DOMAIN order = 1..Len(order) /\ DOMAIN order' = 1..(Len(order) + 1 - d)
      /\ \A i \in DOMAIN order : order[i] \in Token \ {t} /\ Opened(order[i])
  <2>1. DOMAIN order' = 1..Len(order')
    BY <1>6
  <2>2. QED
    BY <1>0, <1>6, <2>1, KeptTokens DEF KeptOpened
<1>8. ASSUME NEW i \in DOMAIN order'
      PROVE  \/ i = Len(order) + 1 - d /\ order'[i] = t
             \/ /\ i < Len(order) + 1 - d /\ i + d \in DOMAIN order /\ order'[i] = order[i + d]
                /\ order'[i] \in Token \ {t} /\ Opened(order'[i])
  <2>1. i = Len(order) + 1 - d \/ (i \in 1..(Len(order) - d) /\ i + d \in 1..Len(order) /\ i < Len(order) + 1 - d)
    BY <1>7, <1>8
  <2>2. QED
    BY <1>6, <1>7, <2>1
<1>9. LogTypeOK'
  BY <1>0, <1>1, <1>2, <1>3, <1>6 DEF LogTypeOK, Optional
<1>10. KeptOpened'
  BY <1>4, <1>8 DEF KeptOpened
<1>11. RecordsTimed'
  <2>1. ASSUME NEW u \in Token, Opened(u)'
        PROVE  /\ records'[u].opened_at <= now'
               /\ Resolved(u)' => records'[u].resolved_at <= now'
    <3>1. CASE u = t
      <4>1. records'[u].opened_at = now /\ now <= now
        BY <1>2, <1>3, <1>4, <3>1
      <4>2. QED
        BY <1>1, <1>4, <3>1, <4>1
    <3>2. CASE u # t
      BY <1>0, <1>1, <1>4, <2>1, <3>2 DEF RecordsTimed
    <3>3. QED
      BY <3>1, <3>2
  <2>2. QED
    BY <2>1 DEF RecordsTimed
<1>12. \A u \in Token \ {t} : Opened(u) => records[u].opened_at <= now /\ records[u].opened_at \in Nat
  BY <1>0, Known DEF RecordsTimed
<1>13. LedgerOrder'
  <2>1. Len(order') <= MaxIncidents
    <3>1. MaxIncidents \in Nat /\ Len(order) \in Nat /\ Len(order) <= MaxIncidents
      BY <1>0, <1>2, <1>5, <1>7
    <3>2. QED
      BY <1>6, <3>1
  <2>2. ASSUME NEW i \in DOMAIN order', NEW j \in DOMAIN order', i < j
        PROVE  order'[i] # order'[j] /\ records'[order'[i]].opened_at <= records'[order'[j]].opened_at
    <3>0. /\ i < Len(order) + 1 - d /\ i + d \in DOMAIN order /\ order'[i] = order[i + d]
          /\ order'[i] \in Token \ {t} /\ Opened(order'[i])
      BY <1>7, <1>8, <2>2
    <3>1. CASE order'[j] = t
      BY <1>2, <1>3, <1>4, <1>12, <3>0, <3>1
    <3>2. CASE /\ j + d \in DOMAIN order /\ order'[j] = order[j + d] /\ order'[j] \in Token \ {t}
      <4>1. i + d < j + d
        BY <1>7, <2>2
      <4>2. /\ order[i + d] # order[j + d]
            /\ records[order[i + d]].opened_at <= records[order[j + d]].opened_at
        BY <1>0, <3>0, <3>2, <4>1 DEF LedgerOrder
      <4>3. QED
        BY <1>4, <3>0, <3>2, <4>2
    <3>3. QED
      BY <1>8, <3>1, <3>2
  <2>3. ASSUME NEW u \in Token, Opened(u)', \A i \in DOMAIN order' : order'[i] # u
        PROVE  /\ Len(order') = MaxIncidents
               /\ \A i \in DOMAIN order' : records'[u].opened_at <= records'[order'[i]].opened_at
    <3>0. u # t /\ Opened(u)
      <4>1. Len(order) + 1 - d \in DOMAIN order'
        <5>1. Len(order) + 1 - d >= 1
          <6>1. /\ Len(order) \in Nat /\ MaxIncidents \in Nat \ {0}
                /\ d \in {0, 1} /\ (d = 1 => Len(order) = MaxIncidents)
            BY <1>2, <1>6, <1>7
          <6>2. QED
            BY <6>1
        <5>2. QED
          BY <1>7, <5>1
      <4>2. QED
        BY <1>4, <1>6, <2>3, <4>1
    <3>1. CASE \A i \in DOMAIN order : order[i] # u
      <4>1. /\ Len(order) = MaxIncidents
            /\ \A i \in DOMAIN order : records[u].opened_at <= records[order[i]].opened_at
        BY <1>0, <3>0, <3>1 DEF LedgerOrder
      <4>2. Len(order') = MaxIncidents
        BY <1>2, <1>6, <1>7, <4>1
      <4>3. QED
        BY <1>3, <1>4, <1>8, <1>12, <3>0, <4>1, <4>2
    <3>2. CASE \E i \in DOMAIN order : order[i] = u
      <4>1. PICK k \in DOMAIN order : order[k] = u
        BY <3>2
      <4>2. k = 1 /\ d = 1
        <5>1. ~(k - d \in 1..(Len(order) - d))
          <6>1. SUFFICES ASSUME k - d \in 1..(Len(order) - d) PROVE FALSE
            OBVIOUS
          <6>2. k - d \in DOMAIN order' /\ (k - d) + d = k
            BY <1>7, <4>1, <6>1
          <6>3. order'[k - d] = order[k]
            BY <1>6, <6>1, <6>2
          <6>4. QED
            BY <2>3, <4>1, <6>2, <6>3
        <5>2. QED
          BY <1>7, <4>1, <5>1
      <4>3. Len(order') = MaxIncidents
        BY <1>2, <1>6, <1>7, <4>2
      <4>4. ASSUME NEW i \in DOMAIN order'
            PROVE  records'[u].opened_at <= records'[order'[i]].opened_at
        <5>1. CASE order'[i] = t
          BY <1>3, <1>4, <1>12, <3>0, <5>1
        <5>2. CASE /\ i + d \in DOMAIN order /\ order'[i] = order[i + d] /\ order'[i] \in Token \ {t}
          <6>1. k < i + d
            BY <1>7, <4>2
          <6>2. records[order[k]].opened_at <= records[order[i + d]].opened_at
            BY <1>0, <4>1, <5>2, <6>1 DEF LedgerOrder
          <6>3. QED
            BY <1>4, <3>0, <4>1, <5>2, <6>2
        <5>3. QED
          BY <1>8, <5>1, <5>2
      <4>5. QED
        BY <4>3, <4>4
    <3>3. QED
      BY <3>1, <3>2
  <2>4. QED
    BY <2>1, <2>2, <2>3 DEF LedgerOrder
<1>14. LatestIsNewest'
  <2>1. {u \in Token : Resolved(u)' /\ records'[u].latency_waterfall # None}
          = {u \in Token : Resolved(u) /\ records[u].latency_waterfall # None}
    BY <1>4
  <2>2. \A u \in Token : Resolved(u) => records'[u] = records[u]
    BY <1>4
  <2>3. QED
    BY <1>0, <1>1, <2>1, <2>2 DEF LatestIsNewest
<1>15. QED
  BY <1>9, <1>10, <1>11, <1>13, <1>14 DEF LInv

-----------------------------------------------------------------------------
(* resolve_incident of an incident that is not resolved yet. *)

(* The waterfall closed now is complete, and its parts add up. *)
LEMMA Closed ==
  ASSUME LogTypeOK, RecordsTimed, NEW t \in Token, Opened(t)
  PROVE  LET w == ClosedWaterfall(records[t])
         IN  /\ w \in Optional(Waterfall)
             /\ w # None => w.exec \in Nat /\ w.exec # None /\ w.total >= w.exec
<1> DEFINE r == records[t]
<1>1. r.opened_at \in Nat /\ now \in Nat /\ r.opened_at <= now
      /\ r.latency_waterfall \in Optional(Waterfall)
  BY Known DEF RecordsTimed
<1> HIDE DEF r
<1>2. CASE r.latency_waterfall = None
  BY <1>2 DEF ClosedWaterfall, Optional, r
<1>3. CASE r.latency_waterfall # None
  <2> DEFINE w == r.latency_waterfall
             exec == now - r.opened_at
  <2>1. w \in Waterfall
    BY <1>1, <1>3 DEF Optional
  <2>2. exec \in Nat
    BY <1>1
  <2>3. ClosedWaterfall(r) = [w EXCEPT !.exec = exec, !.total = w.stt + w.gate + exec]
    BY <1>3 DEF ClosedWaterfall
  <2> HIDE DEF w, exec
  <2>4. w.stt \in Nat /\ w.gate \in Nat
    BY <2>1 DEF Waterfall
  <2>5. w.stt + w.gate + exec \in Nat /\ w.stt + w.gate + exec >= exec
    BY <2>2, <2>4
  <2>6. /\ ClosedWaterfall(r) \in Waterfall
        /\ ClosedWaterfall(r).exec = exec /\ ClosedWaterfall(r).total = w.stt + w.gate + exec
    BY <2>1, <2>2, <2>3, <2>5 DEF Waterfall, Optional
  <2>7. QED
    BY <2>2, <2>5, <2>6, LogAssumption DEF Optional, r
<1>4. QED
  BY <1>2, <1>3

(* The record is closed with the outcome, now, and linked if there is a link. *)
LEMMA RecordCloses ==
  ASSUME LogTypeOK, RecordsTimed, NEW t \in Token, NEW success \in BOOLEAN,
         NEW linked \in Optional(Token), Opened(t), ResolveIncident(t, success, linked)
  PROVE  /\ records'[t] \in IncidentRecord /\ Opened(t)' /\ Resolved(t)'
         /\ records'[t].opened_at = records[t].opened_at
         /\ records'[t].command = records[t].command /\ records'[t].mode = records[t].mode
         /\ records'[t].resolved_at = now /\ records'[t].success = success
         /\ records'[t].linked_token = (IF linked # None THEN linked ELSE records[t].linked_token)
         /\ records'[t].latency_waterfall = ClosedWaterfall(records[t])
         /\ \A u \in Token \ {t} : records'[u] = records[u]
<1> DEFINE r == records[t]
           w == ClosedWaterfall(r)
           closed == [r EXCEPT !.resolved_at = now,
                               !.success = success,
                               !.mttr_seconds = now - r.opened_at,
                               !.linked_token = IF linked # None THEN linked ELSE @,
                               !.timeline = @ \o (IF linked # None THEN <<Event("rollback of")>> ELSE <<>>)
                                              \o <<Event("executed")>>,
                               !.latency_waterfall = w]
<1>1. records' = [records EXCEPT ![t] = closed]
  BY DEF ResolveIncident
<1>2. /\ r \in IncidentRecord /\ r.opened_at \in Nat /\ now \in Nat /\ r.opened_at <= now
      /\ records \in [Token -> Optional(IncidentRecord)]
  BY Known DEF LogTypeOK, RecordsTimed
<1>3. w \in Optional(Waterfall)
  BY Closed
<1>4. /\ closed \in IncidentRecord /\ closed # None /\ closed.opened_at = r.opened_at
      /\ closed.command = r.command /\ closed.mode = r.mode
      /\ closed.resolved_at = now /\ closed.success = success
      /\ closed.linked_token = (IF linked # None THEN linked ELSE r.linked_token)
      /\ closed.latency_waterfall = w
  <2> DEFINE timeline == r.timeline \o (IF linked # None THEN <<Event("rollback of")>> ELSE <<>>)
                                    \o <<Event("executed")>>
             link == IF linked # None THEN linked ELSE r.linked_token
  <2>1. timeline \in Seq(IncidentEvent)
    <3>1. Event("rollback of") \in IncidentEvent /\ Event("executed") \in IncidentEvent
      BY <1>2 DEF Event, IncidentEvent
    <3>2. r.timeline \in Seq(IncidentEvent)
      BY <1>2 DEF IncidentRecord
    <3>3. \A S : \A a \in Seq(S), b \in Seq(S), c \in Seq(S) : a \o b \o c \in Seq(S)
      OBVIOUS
    <3>4. <<Event("rollback of")>> \in Seq(IncidentEvent) /\ <<>> \in Seq(IncidentEvent)
          /\ <<Event("executed")>> \in Seq(IncidentEvent)
      <4>1. \A S : <<>> \in Seq(S) /\ \A e \in S : <<e>> \in Seq(S)
        OBVIOUS
      <4>2. QED
        BY <3>1, <4>1
    <3>5. QED
      BY <3>2, <3>3, <3>4
  <2>2. link \in Optional(Token) /\ now - r.opened_at \in Nat
    BY <1>2 DEF IncidentRecord
  <2>3. closed = [r EXCEPT !.resolved_at = now, !.success = success,
                           !.mttr_seconds = now - r.opened_at, !.linked_token = link,
                           !.timeline = timeline, !.latency_waterfall = w]
    BY <1>2 DEF IncidentRecord
  <2> HIDE DEF timeline, link, closed, w, r
  <2>4. /\ closed \in IncidentRecord /\ closed.opened_at = r.opened_at
        /\ closed.command = r.command /\ closed.mode = r.mode
        /\ closed.resolved_at = now /\ closed.success = success
        /\ closed.linked_token = link /\ closed.latency_waterfall = w
    BY <1>2, <1>3, <2>1, <2>2, <2>3 DEF IncidentRecord, Optional
  <2>5. QED
    BY <2>4, LogAssumption DEF link
<1> HIDE DEF closed, w
<1>5. records'[t] = closed /\ \A u \in Token \ {t} : records'[u] = records[u]
  BY <1>1, <1>2
<1>6. now # None
  BY <1>2, LogAssumption
<1>7. QED
  BY <1>4, <1>5, <1>6 DEF w, Opened, Resolved

LEMMA ResolvingKeeps ==
  ASSUME LInv, NEW t \in Token, NEW success \in BOOLEAN, NEW linked \in Optional(Token),
         ~Resolved(t), ResolveIncident(t, success, linked), Opened(t)
  PROVE  LInv'
<1>0. LogTypeOK /\ KeptOpened /\ RecordsTimed /\ LedgerOrder /\ LatestIsNewest
  BY DEF LInv
<1> DEFINE r == records[t]
           w == ClosedWaterfall(r)
           closed == [r EXCEPT !.resolved_at = now,
                               !.success = success,
                               !.mttr_seconds = now - r.opened_at,
                               !.linked_token = IF linked # None THEN linked ELSE @,
                               !.timeline = @ \o (IF linked # None THEN <<Event("rollback of")>> ELSE <<>>)
                                              \o <<Event("executed")>>,
                               !.latency_waterfall = w]
<1>1. /\ records' = [records EXCEPT ![t] = closed] /\ latest' = (IF w # None THEN w ELSE latest)
      /\ now' = now /\ order' = order
  BY DEF ResolveIncident
<1>2. /\ r \in IncidentRecord /\ r.opened_at \in Nat /\ now \in Nat /\ r.opened_at <= now
      /\ records \in [Token -> Optional(IncidentRecord)]
  BY <1>0, Known DEF LogTypeOK, RecordsTimed
<1>3. w \in Optional(Waterfall) /\ (w # None => w.exec \in Nat /\ w.exec # None /\ w.total >= w.exec)
  BY <1>0, Closed
<1>4. /\ closed \in IncidentRecord /\ closed # None /\ closed.opened_at = r.opened_at
      /\ closed.resolved_at = now /\ closed.latency_waterfall = w
  <2>1. records'[t] = closed
    BY <1>1, <1>2
  <2> HIDE DEF closed
  <2>2. QED
    BY <1>0, <2>1, RecordCloses DEF Opened
<1> HIDE DEF closed, w
<1>5. /\ \A u \in Token \ {t} : records'[u] = records[u] /\ (Opened(u)' <=> Opened(u)) /\ (Resolved(u)' <=> Resolved(u))
      /\ records'[t] = closed /\ Opened(t)' /\ Resolved(t)'
  BY <1>1, <1>2, <1>4, LogAssumption DEF Opened, Resolved
<1>6. \A u \in Token : (Opened(u)' <=> Opened(u)) /\ (Opened(u) => records'[u].opened_at = records[u].opened_at)
  BY <1>4, <1>5
<1>7. LogTypeOK'
  BY <1>0, <1>1, <1>2, <1>3, <1>4 DEF LogTypeOK, Optional
<1>8. KeptOpened' /\ LedgerOrder'
  <2>1. \A i \in DOMAIN order : order[i] \in Token /\ Opened(order[i])
    BY <1>0, KeptTokens DEF KeptOpened
  <2>2. KeptOpened'
    BY <1>1, <1>6, <2>1 DEF KeptOpened
  <2>3. LedgerOrder'
    BY <1>0, <1>1, <1>6, <2>1 DEF LedgerOrder
  <2>4. QED
    BY <2>2, <2>3
<1>9. RecordsTimed'
  <2>1. ASSUME NEW u \in Token, Opened(u)'
        PROVE  /\ records'[u].opened_at <= now'
               /\ Resolved(u)' => records'[u].resolved_at <= now'
    <3>1. CASE u = t
      <4>1. now <= now
        BY <1>2
      <4>2. QED
        BY <1>1, <1>2, <1>4, <1>5, <3>1, <4>1
    <3>2. CASE u # t
      BY <1>0, <1>1, <1>5, <2>1, <3>2 DEF RecordsTimed
    <3>3. QED
      BY <3>1, <3>2
  <2>2. QED
    BY <2>1 DEF RecordsTimed
<1>10. LatestIsNewest'
  <2> DEFINE before == {u \in Token : Resolved(u) /\ records[u].latency_waterfall # None}
             after == {u \in Token : Resolved(u)' /\ records'[u].latency_waterfall # None}
  <2>1. t \notin before
    OBVIOUS
  <2>2. CASE w = None
    <3>1. after = before /\ latest' = latest
      BY <1>1, <1>4, <1>5, <2>1, <2>2
    <3>2. \A u \in before : records'[u] = records[u]
      BY <1>5, <2>1
    <3>3. QED
      BY <1>0, <3>1, <3>2 DEF LatestIsNewest
  <2>3. CASE w # None
    <3>1. t \in after /\ latest' = w /\ records'[t].latency_waterfall = w /\ records'[t].resolved_at = now
      BY <1>1, <1>4, <1>5, <2>3
    <3>2. \A u \in Token : Resolved(u)' => records'[u].resolved_at <= now
      <4>1. \A u \in Token : Resolved(u)' => Opened(u)'
        BY DEF Resolved
      <4>2. QED
        BY <1>1, <1>9, <4>1 DEF RecordsTimed
    <3>3. \A u \in after : records'[u].resolved_at <= records'[t].resolved_at
      BY <3>1, <3>2
    <3>4. after # {} /\ latest' # None /\ latest'.exec # None /\ latest'.total >= latest'.exec
      BY <1>3, <2>3, <3>1
    <3>5. QED
      BY <3>1, <3>3, <3>4 DEF LatestIsNewest
  <2>4. QED
    BY <2>2, <2>3
<1>11. QED
  BY <1>7, <1>8, <1>9, <1>10 DEF LInv

-----------------------------------------------------------------------------
LEMMA TickKeeps == LInv /\ LogTick => LInv'
<1> SUFFICES ASSUME LInv, LogTick PROVE LInv'
  OBVIOUS
<1>0. LogTypeOK /\ KeptOpened /\ RecordsTimed /\ LedgerOrder /\ LatestIsNewest
  BY DEF LInv
<1>1. now' = now + 1 /\ now < MaxTime /\ UNCHANGED <<records, order, latest>>
  BY DEF LogTick
<1>2. LogTypeOK'
  BY <1>0, <1>1, LogAssumption DEF LogTypeOK
<1>3. KeptOpened' /\ LedgerOrder' /\ LatestIsNewest'
  BY <1>0, <1>1 DEF KeptOpened, Opened, Resolved, LedgerOrder, LatestIsNewest
<1>4. RecordsTimed'
  <2>1. ASSUME NEW u \in Token, Opened(u)
        PROVE  /\ records[u].opened_at <= now + 1
               /\ Resolved(u) => records[u].resolved_at <= now + 1
    <3>1. records[u].opened_at \in Nat /\ now \in Nat /\ records[u].resolved_at \in Optional(Nat)
      BY <1>0, <2>1, Known
    <3>2. Resolved(u) => records[u].resolved_at \in Nat
      BY <3>1 DEF Resolved, Optional
    <3>3. records[u].opened_at <= now /\ (Resolved(u) => records[u].resolved_at <= now)
      BY <1>0, <2>1 DEF RecordsTimed
    <3>4. QED
      BY <3>1, <3>2, <3>3
  <2>2. QED
    BY <1>1, <2>1 DEF RecordsTimed, Opened, Resolved
<1>5. QED
  BY <1>2, <1>3, <1>4 DEF LInv

LEMMA LInvInductive == LInv /\ [LogNext]_logVars => LInv'
<1> SUFFICES ASSUME LInv, [LogNext]_logVars PROVE LInv'
  OBVIOUS
<1>1. CASE LogTick
  BY <1>1, TickKeeps
<1>2. ASSUME NEW t \in Token, NEW command \in Command, NEW mode \in Mode,
             NEW stt \in 0..MaxDelay, NEW gate \in 0..MaxDelay, ~Opened(t),
             NEW waterfall \in {None, [stt |-> stt, gate |-> gate, exec |-> None, total |-> None]},
             OpenIncident(t, command, mode, waterfall)
      PROVE  LInv'
  <2>1. waterfall \in Optional(Waterfall)
    BY LogAssumption DEF Optional, Waterfall
  <2>2. QED
    BY <1>2, <2>1, OpeningKeeps
<1>3. ASSUME NEW t \in Token, NEW success \in BOOLEAN, NEW linked \in Optional({u \in Token : Resolved(u)}),
             ~Resolved(t), ResolveIncident(t, success, linked)
      PROVE  LInv'
  <2>1. linked \in Optional(Token)
    BY DEF Optional
  <2>2. CASE Opened(t)
    BY <1>3, <2>1, <2>2, ResolvingKeeps
  <2>3. CASE ~Opened(t)
    BY <1>3, <2>3 DEF ResolveIncident, logVars, LInv, LogTypeOK, KeptOpened, Opened, Resolved,
                      RecordsTimed, LedgerOrder, LatestIsNewest
  <2>4. QED
    BY <2>2, <2>3
<1>4. CASE UNCHANGED logVars
  BY <1>4 DEF logVars, LInv, LogTypeOK, KeptOpened, Opened, Resolved, RecordsTimed, LedgerOrder,
              LatestIsNewest
<1>5. QED
  BY <1>1, <1>2, <1>3, <1>4 DEF LogNext

LEMMA LInvAlways == LogSpec => []LInv
  BY LInvInitially, LInvInductive, PTL DEF LogSpec

(* incident_log.py:69: whatever is opened and resolved, a record keeps its  *)
(* shape, none of its durations is negative, and the tracker holds a        *)
(* waterfall or nothing.                                                    *)
THEOREM LedgerTypeCorrect == LogSpec => []LogTypeOK
<1>1. LInv => LogTypeOK
  BY DEF LInv
<1>2. QED
  BY <1>1, LInvAlways, PTL

(* incident_log.py:133: latest_resolved scans the tokens in the order their *)
(* incidents were opened, each once, and what _order has dropped is older   *)
(* than all that it kept.                                                   *)
THEOREM LedgerKeepsOrder == LogSpec => []LedgerOrder
<1>1. LInv => LedgerOrder
  BY DEF LInv
<1>2. QED
  BY <1>1, LInvAlways, PTL

(* latency.py:4: the waterfall the HUD is given is a complete one, of an    *)
(* incident after which no other one with a waterfall was resolved.         *)
THEOREM LedgerLatestIsNewest == LogSpec => []LatestIsNewest
<1>1. LInv => LatestIsNewest
  BY DEF LInv
<1>2. QED
  BY <1>1, LInvAlways, PTL

=============================================================================
