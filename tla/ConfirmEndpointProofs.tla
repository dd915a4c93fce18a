----------------------- MODULE ConfirmEndpointProofs -----------------------
(***************************************************************************)
(* ConfirmEndpoint, for every set of tokens, commands, handlers, processes  *)
(* and addresses and every bound.                                           *)
(*                                                                          *)
(* First, every handler touches the registry only through its methods, so   *)
(* the invariant ConfirmationRegistryProofs establishes for the store on    *)
(* its own holds of the running service. Second, on top of it, the          *)
(* invariant that keeps a resolved incident closed: a token that may still  *)
(* be redeemed, or whose handler is suspended, is not resolved yet, and no  *)
(* two handlers hold one token (LedgerInv).                                 *)
(*                                                                          *)
(* Third, the invariants of the ledger and of the host engine hold here     *)
(* too (LogInv, HostInv), and with them what ties the parts together:       *)
(* MitigationInv relates the stack and what the handlers hold to the        *)
(* ledger, ThreadsServe a thread to the incident it works for, SnapshotInv  *)
(* the stack to the pods. All of it is ServiceInv, and the properties of    *)
(* the stack, of the rollbacks and of what may be executed follow from it.  *)
(*                                                                          *)
(* Fourth, the firewall: each rule that an entry promises to remove is      *)
(* claimed by the token of its isolation (Claims), and no step of the       *)
(* service makes the claims on an address outnumber its rules.              *)
(*                                                                          *)
(* Last, what it all amounts to: the service keeps the lease of TokenLease  *)
(* and implements CommandLifecycle, one action of the service at a time.    *)
(***************************************************************************)
EXTENDS ConfirmEndpoint, FiniteSetTheorems, TLAPS

RegistryProofs == INSTANCE ConfirmationRegistryProofs

RegistryInv == RegistryProofs!IInv

(* What ConfirmationRegistry assumes of its constants. *)
LEMMA RegistryConstants ==
    /\ TTL \in Nat \ {0}
    /\ MaxTime \in Nat
    /\ None \notin RegistryProofs!PendingConfirmation \cup Nat
  BY EndpointAssumption
     DEF EndpointAssumption, RegistryProofs!PendingConfirmation, Registry!PendingConfirmation

(* resolve_incident leaves the clock alone. *)
LEMMA ResolveKeepsClock ==
  ASSUME NEW t, NEW success, NEW linked, Log!ResolveIncident(t, success, linked)
  PROVE  now' = now
  BY DEF Log!ResolveIncident, Log!logVars

(* A dry run on the host that starts or ends. All it can change is what the *)
(* store prunes and its own thread, which no suspended handler waits for.   *)
Previewing ==
    \E r \in Request : FinishPreview(r) \/ \E t \in Token : PreviewHost(r, t)

LEMMA PreviewsWriteNothing ==
  ASSUME Previewing
  PROVE  /\ UNCHANGED <<now, deadline, grants, records, order, latest, stack, pods,
                        procs, births, signalled, rules, request>>
         /\ pending' = pending \/ pending' = Registry!Pruned
  BY DEF Previewing, FinishPreview, PreviewHost, Host!Collect, Host!Submit, Registry!Peek

(* A step of the service is a step of the registry or leaves it unchanged.  *)
LEMMA RegistryStep ==
  ASSUME [Next]_vars
  PROVE  [RegistryProofs!RegistryNext]_(RegistryProofs!registryVars)
<1> USE DEF RegistryProofs!RegistryNext, RegistryProofs!registryVars
<1>1. CASE Tick
  BY <1>1 DEF Tick, Registry!Tick, RegistryProofs!Tick
<1>2. CASE PodTick
  BY <1>2 DEF PodTick
<1>3. CASE Outside
  BY <1>3 DEF Outside
<1>4. ASSUME NEW r \in Request, Thread(r)
      PROVE  UNCHANGED RegistryProofs!registryVars
  BY <1>4 DEF Thread
<1>5. ASSUME NEW r \in Request, Finish(r)
      PROVE  UNCHANGED RegistryProofs!registryVars
  <2>1. now' = now
    BY <1>5, ResolveKeepsClock DEF Finish
  <2>2. QED
    BY <1>5, <2>1 DEF Finish
<1>6. ASSUME NEW t \in Token, NEW command \in Command, NEW mode \in Mode, Gate(t, command, mode)
      PROVE  RegistryProofs!RegistryNext
  <2>1. RegistryProofs!Register(t, command, mode)
    BY <1>6 DEF Gate, Registry!Register, RegistryProofs!Register, Registry!Pruned,
                RegistryProofs!Pruned, Registry!Expired, RegistryProofs!Expired
  <2>2. QED
    BY <2>1
<1>7. ASSUME NEW t \in Token, Preview(t)
      PROVE  RegistryProofs!RegistryNext
  <2>1. RegistryProofs!Peek(t)
    BY <1>7 DEF Preview, Registry!Peek, RegistryProofs!Peek, Registry!Pruned,
                RegistryProofs!Pruned, Registry!Expired, RegistryProofs!Expired
  <2>2. QED
    BY <2>1
<1>8. ASSUME NEW t \in Token, Confirm(t)
      PROVE  RegistryProofs!RegistryNext
  <2>1. Registry!Redeem(t)
    BY <1>8 DEF Confirm, ConfirmRefused, ConfirmRollback, ConfirmCluster, ConfirmUnblock, ConfirmHost
  <2>2. RegistryProofs!Redeem(t)
    BY <2>1 DEF Registry!Redeem, RegistryProofs!Redeem, Registry!Pruned,
                RegistryProofs!Pruned, Registry!Expired, RegistryProofs!Expired
  <2>3. QED
    BY <2>2
<1>9. CASE UNCHANGED vars
  BY <1>9 DEF vars
<1>10. CASE Previewing
  <2>1. UNCHANGED <<now, deadline, grants>> /\ (pending' = pending \/ pending' = Registry!Pruned)
    BY <1>10, PreviewsWriteNothing
  <2>2. CASE pending' = pending
    BY <2>1, <2>2
  <2>3. CASE pending' # pending
    <3>1. PICK t \in Token : TRUE
      BY <1>10, <2>3 DEF Previewing, FinishPreview
    <3>2. RegistryProofs!Peek(t)
      BY <2>1, <2>3 DEF RegistryProofs!Peek, Registry!Pruned, RegistryProofs!Pruned,
                        Registry!Expired, RegistryProofs!Expired
    <3>3. QED
      BY <3>2
  <2>4. QED
    BY <2>1, <2>2, <2>3
<1>11. QED
  BY <1>1, <1>2, <1>3, <1>4, <1>5, <1>6, <1>7, <1>8, <1>9, <1>10 DEF Next, Previewing

(* The registry's invariant holds when the service starts ... *)
LEMMA RegistryInvInitially == Init => RegistryInv
<1>1. Init => RegistryProofs!RegistryInit
  BY DEF Init, Registry!RegistryInit, RegistryProofs!RegistryInit
<1>2. RegistryProofs!RegistryInit => RegistryProofs!IInv
  BY RegistryConstants, RegistryProofs!IInvInitially
<1>3. QED
  BY <1>1, <1>2 DEF RegistryInv

(* ... and every step of the service keeps it. *)
LEMMA RegistryInvInductive == RegistryInv /\ [Next]_vars => RegistryInv'
<1>1. RegistryProofs!IInv /\ [RegistryProofs!RegistryNext]_(RegistryProofs!registryVars)
        => RegistryProofs!IInv'
  BY RegistryConstants, RegistryProofs!IInvInductive
<1>2. QED
  BY <1>1, RegistryStep DEF RegistryInv

(* A token is redeemed at most once, and only before its deadline, in the   *)
(* whole service: concurrent handlers, previews and rollbacks included.     *)
THEOREM EndpointSingleUse == Spec => []SingleUse
<1>1. RegistryInv => SingleUse
  BY DEF RegistryInv, RegistryProofs!IInv, RegistryProofs!SingleUse, SingleUse, Registry!SingleUse
<1>2. QED
  BY <1>1, RegistryInvInitially, RegistryInvInductive, PTL DEF Spec

(* A confirmation still valid is only ever ended by its own redemption,     *)
(* also while handlers are suspended between redeeming and resolving.       *)
THEOREM EndpointValidUntilRedeemed == Spec => ValidUntilRedeemed
<1>1. RegistryInv /\ [Next]_vars
        => [\A t \in Token :
              /\ pending[t] # None
              /\ now < pending[t].expires_at
              /\ grants'[t] = grants[t]
              => pending'[t] = pending[t]]_(Registry!registryVars)
  BY RegistryStep, RegistryConstants, RegistryProofs!StepKeepsValid DEF RegistryInv
<1>2. QED
  BY <1>1, RegistryInvInitially, RegistryInvInductive, PTL
     DEF Spec, ValidUntilRedeemed, Registry!ValidUntilRedeemed

(* Each token of the service is a lease: issued once, granted at most once  *)
(* and only in time, whichever handlers, previews and rollbacks use it.     *)
THEOREM EndpointImplementsLease == Spec => Registry!ImplementsLease
<1>1. Init => Registry!Lease!Init
  BY DEF Init, Registry!RegistryInit, Registry!Lease!Init
<1>2. RegistryInv /\ [Next]_vars => [Registry!Lease!Next]_(Registry!Lease!lease)
  <2>1. RegistryInv /\ [Next]_vars => [RegistryProofs!Lease!Next]_(RegistryProofs!Lease!lease)
    BY RegistryStep, RegistryConstants, RegistryProofs!StepImplementsLease DEF RegistryInv
  <2>2. QED
    BY <2>1 DEF RegistryProofs!Lease!Next, RegistryProofs!Lease!lease, RegistryProofs!Lease!Advance,
                RegistryProofs!Lease!Issue, RegistryProofs!Lease!Grant,
                Registry!Lease!Next, Registry!Lease!lease, Registry!Lease!Advance,
                Registry!Lease!Issue, Registry!Lease!Grant
<1>3. QED
  BY <1>1, <1>2, RegistryInvInitially, RegistryInvInductive, PTL
     DEF Spec, Registry!ImplementsLease, Registry!Lease!Spec

-----------------------------------------------------------------------------

(* The part of the invariant about the ledger and the suspended handlers.   *)

Shapes ==
    /\ pending = [t \in Token |-> pending[t]]
    /\ records = [t \in Token |-> records[t]]
    /\ request = [r \in Request |-> request[r]]

(* A token that was never issued has no incident. *)
IssuedBeforeOpened == \A t \in Token : deadline[t] = None => records[t] = None

(* A token that can still be redeemed has an unresolved incident. *)
PendingUnresolved ==
    \A t \in Token : pending[t] # None => deadline[t] # None /\ ~Log!Resolved(t)

(* A suspended handler has used up its token and not resolved it yet. *)
SuspendedUnresolved ==
    \A r \in Request : request[r] # None =>
        LET t == request[r].token
        IN  t \in Token /\ deadline[t] # None /\ pending[t] = None /\ ~Log!Resolved(t)

(* No two handlers work for one token. *)
HandlersDistinct ==
    \A r, s \in Request : request[r] # None /\ request[s] # None /\ r # s =>
        request[r].token # request[s].token

LedgerInv ==
    /\ Shapes
    /\ IssuedBeforeOpened
    /\ PendingUnresolved
    /\ SuspendedUnresolved
    /\ HandlersDistinct

(* At the start no token is issued and no handler is suspended. *)
LEMMA LedgerInvInitially == Init => LedgerInv
  BY DEF Init, Registry!RegistryInit, Log!LogInit, LedgerInv, Shapes, IssuedBeforeOpened,
         PendingUnresolved, SuspendedUnresolved, HandlersDistinct

(* What pruning returns is still in the store. *)
LEMMA PrunedPending ==
  ASSUME NEW t \in Token, Registry!Pruned[t] # None
  PROVE  pending[t] # None
  BY DEF Registry!Pruned, Registry!Expired

(* redeem leaves at most what was pending, and never its own token.         *)
LEMMA RedeemShrinks ==
  ASSUME NEW t \in Token, Registry!Redeem(t), Shapes
  PROVE  /\ pending' = [u \in Token |-> pending'[u]]
         /\ pending'[t] = None
         /\ \A u \in Token : pending'[u] # None => pending[u] # None
         /\ deadline' = deadline
  BY DEF Registry!Redeem, Registry!Pruned, Registry!Expired

(* resolve_incident touches one record, and none when there is no incident. *)
LEMMA ResolveTouchesOne ==
  ASSUME NEW t \in Token, NEW success, NEW linked, Shapes, Log!ResolveIncident(t, success, linked)
  PROVE  /\ records' = [u \in Token |-> records'[u]]
         /\ \A u \in Token : u # t => records'[u] = records[u]
         /\ records[t] = None => records'[t] = None
  BY DEF Log!ResolveIncident, Log!logVars, Log!Opened, Shapes

(* The invariant is kept by any step that leaves the ledger and the         *)
(* handlers alone and at most shrinks the store.                            *)
LEMMA QuietStep ==
  ASSUME LedgerInv, UNCHANGED <<deadline, records, request>>,
         pending' = [t \in Token |-> pending'[t]],
         \A t \in Token : pending'[t] # None => pending[t] # None
  PROVE  LedgerInv'
  BY DEF LedgerInv, Shapes, IssuedBeforeOpened, PendingUnresolved, SuspendedUnresolved,
         HandlersDistinct, Log!Resolved, Log!Opened

(* ... by a step that resolves the redeemed token t itself; *)
LEMMA ResolvingStep ==
  ASSUME LedgerInv, NEW t \in Token, pending[t] # None, Registry!Redeem(t), request' = request,
         NEW success, NEW linked, Log!ResolveIncident(t, success, linked)
  PROVE  LedgerInv'
<1>1. Shapes /\ deadline[t] # None /\ \A r \in Request : request[r] # None => request[r].token # t
  BY DEF LedgerInv, PendingUnresolved, SuspendedUnresolved
<1>2. Shapes'
  BY <1>1, RedeemShrinks, ResolveTouchesOne DEF Shapes
<1>3. IssuedBeforeOpened'
  BY <1>1, RedeemShrinks, ResolveTouchesOne DEF LedgerInv, IssuedBeforeOpened
<1>4. PendingUnresolved'
  BY <1>1, RedeemShrinks, ResolveTouchesOne
     DEF LedgerInv, PendingUnresolved, Log!Resolved, Log!Opened
<1>5. SuspendedUnresolved'
  BY <1>1, RedeemShrinks, ResolveTouchesOne
     DEF LedgerInv, SuspendedUnresolved, Log!Resolved, Log!Opened
<1>6. QED
  BY <1>2, <1>3, <1>4, <1>5 DEF LedgerInv, HandlersDistinct

(* ... by a step that suspends a handler on the redeemed token t; *)
LEMMA SuspendingStep ==
  ASSUME LedgerInv, NEW t \in Token, pending[t] # None, Registry!Redeem(t), records' = records,
         NEW r \in Request, request[r] = None, NEW entry,
         request' = [request EXCEPT ![r] = [token |-> t, entry |-> entry]]
  PROVE  LedgerInv'
<1>1. Shapes /\ deadline[t] # None /\ ~Log!Resolved(t)
      /\ \A s \in Request : request[s] # None => request[s].token # t
  BY DEF LedgerInv, PendingUnresolved, SuspendedUnresolved
<1>2. request' = [s \in Request |-> request'[s]] /\ request'[r].token = t
      /\ \A s \in Request : s # r => request'[s] = request[s]
  BY <1>1 DEF Shapes
<1>3. Shapes'
  BY <1>1, <1>2, RedeemShrinks DEF Shapes
<1>4. IssuedBeforeOpened' /\ PendingUnresolved'
  BY <1>1, RedeemShrinks
     DEF LedgerInv, IssuedBeforeOpened, PendingUnresolved, Log!Resolved, Log!Opened
<1>5. SuspendedUnresolved'
  BY <1>1, <1>2, RedeemShrinks
     DEF LedgerInv, SuspendedUnresolved, Log!Resolved, Log!Opened
<1>6. HandlersDistinct'
  BY <1>1, <1>2 DEF LedgerInv, HandlersDistinct
<1>7. QED
  BY <1>3, <1>4, <1>5, <1>6 DEF LedgerInv

(* ... by a step that resumes the handler r and resolves its token, or not; *)
LEMMA FinishStep ==
  ASSUME LedgerInv, NEW r \in Request, Finish(r)
  PROVE  LedgerInv'
<1> DEFINE t == request[r].token
<1>1. /\ Shapes /\ t \in Token /\ pending[t] = None /\ deadline[t] # None
      /\ \A s \in Request : request[s] # None /\ s # r => request[s].token # t
  BY DEF Finish, LedgerInv, SuspendedUnresolved, HandlersDistinct
<1>2. /\ records' = [u \in Token |-> records'[u]]
      /\ \A u \in Token : u # t => records'[u] = records[u]
  <2>1. CASE UNCHANGED records
    BY <1>1, <2>1 DEF Shapes
  <2>2. ASSUME NEW success, NEW linked, Log!ResolveIncident(t, success, linked)
        PROVE  <1>2
    BY <1>1, <2>2, ResolveTouchesOne
  <2>3. QED
    BY <2>1, <2>2 DEF Finish
<1>3. /\ request' = [s \in Request |-> request'[s]] /\ request'[r] = None
      /\ \A s \in Request : s # r => request'[s] = request[s]
      /\ UNCHANGED <<pending, deadline>>
  BY <1>1 DEF Shapes, Finish
<1>4. Shapes'
  BY <1>1, <1>2, <1>3 DEF Shapes
<1>5. IssuedBeforeOpened' /\ PendingUnresolved'
  BY <1>1, <1>2, <1>3
     DEF LedgerInv, IssuedBeforeOpened, PendingUnresolved, Log!Resolved, Log!Opened
<1>6. SuspendedUnresolved'
  BY <1>1, <1>2, <1>3 DEF LedgerInv, SuspendedUnresolved, Log!Resolved, Log!Opened
<1>7. HandlersDistinct'
  BY <1>1, <1>3 DEF LedgerInv, HandlersDistinct
<1>8. QED
  BY <1>4, <1>5, <1>6, <1>7 DEF LedgerInv

(* ... and by a step that opens the incident of a new token. *)
LEMMA GateStep ==
  ASSUME RegistryInv, LedgerInv, NEW t \in Token, NEW command, NEW mode, Gate(t, command, mode)
  PROVE  LedgerInv'
<1>1. /\ Shapes /\ deadline[t] = None /\ records[t] = None
      /\ \A r \in Request : request[r] # None => request[r].token # t
  BY DEF LedgerInv, Gate, Registry!Register, IssuedBeforeOpened, SuspendedUnresolved
<1>2. /\ pending' = [u \in Token |-> pending'[u]]
      /\ \A u \in Token : u # t /\ pending'[u] # None => pending[u] # None
  BY DEF Gate, Registry!Register, Registry!Pruned, Registry!Expired
<1>3. \A u \in Token : u # t => deadline'[u] = deadline[u]
  BY DEF Gate, Registry!Register
<1>4. /\ records' = [u \in Token |-> records'[u]] /\ records'[t].resolved_at = None
      /\ \A u \in Token : u # t => records'[u] = records[u]
  BY <1>1 DEF Shapes, Gate, Log!OpenIncident
<1>5. request' = request
  BY DEF Gate
<1>6. deadline'[t] # None
  <2>1. now \in Nat /\ deadline \in [Token -> Nat \cup {None}]
    BY DEF RegistryInv, RegistryProofs!IInv, RegistryProofs!TypeOK
  <2>2. deadline'[t] = now + TTL
    BY <2>1 DEF Gate, Registry!Register
  <2>3. QED
    BY <2>1, <2>2, RegistryConstants
<1>7. Shapes'
  BY <1>1, <1>2, <1>4, <1>5 DEF Shapes
<1>8. IssuedBeforeOpened'
  BY <1>3, <1>4, <1>6 DEF LedgerInv, IssuedBeforeOpened
<1>9. PendingUnresolved'
  BY <1>2, <1>3, <1>4, <1>6 DEF LedgerInv, PendingUnresolved, Log!Resolved, Log!Opened
<1>10. SuspendedUnresolved' /\ HandlersDistinct'
  BY <1>1, <1>2, <1>3, <1>4, <1>5
     DEF LedgerInv, SuspendedUnresolved, HandlersDistinct, Log!Resolved, Log!Opened
<1>11. QED
  BY <1>7, <1>8, <1>9, <1>10 DEF LedgerInv

-----------------------------------------------------------------------------

(* Every other handler redeems t first. *)
LEMMA ConfirmStep ==
  ASSUME LedgerInv, NEW t \in Token, Confirm(t)
  PROVE  LedgerInv'
<1>1. Registry!Redeem(t) /\ Shapes
  BY DEF Confirm, ConfirmRefused, ConfirmRollback, ConfirmCluster, ConfirmUnblock, ConfirmHost,
         LedgerInv
<1>2. CASE ConfirmRefused(t)
  <2>1. UNCHANGED <<records, request>>
    BY <1>2 DEF ConfirmRefused, HostUntouched
  <2>2. QED
    BY <1>1, <2>1, RedeemShrinks, QuietStep
<1>3. CASE ConfirmRollback(t)
  <2>1. pending[t] # None /\ request' = request
    BY <1>3, PrunedPending DEF ConfirmRollback, Redeemable, HostUntouched
  <2>2. PICK success \in BOOLEAN, linked \in {None, Stack!Top.token} : Log!ResolveIncident(t, success, linked)
    BY <1>3 DEF ConfirmRollback
  <2>3. QED
    BY <1>1, <2>1, <2>2, ResolvingStep
<1>4. CASE ConfirmCluster(t)
  <2>1. pending[t] # None /\ request' = request /\ Log!ResolveIncident(t, TRUE, None)
    BY <1>4, PrunedPending DEF ConfirmCluster, Redeemable, HostUntouched
  <2>2. QED
    BY <1>1, <2>1, ResolvingStep
<1>5. ASSUME NEW r \in Request, ConfirmUnblock(r, t)
      PROVE  LedgerInv'
  <2>1. /\ pending[t] # None /\ request[r] = None /\ records' = records
        /\ request' = [request EXCEPT ![r] = [token |-> t, entry |-> Stack!Top]]
    BY <1>5, PrunedPending DEF ConfirmUnblock, Redeemable
  <2>2. QED
    BY <1>1, <2>1, SuspendingStep
<1>6. ASSUME NEW r \in Request, ConfirmHost(r, t)
      PROVE  LedgerInv'
  <2>1. /\ pending[t] # None /\ request[r] = None /\ records' = records
        /\ request' = [request EXCEPT ![r] = [token |-> t, entry |-> None]]
    BY <1>6, PrunedPending DEF ConfirmHost, Redeemable
  <2>2. QED
    BY <1>1, <2>1, SuspendingStep
<1>7. QED
  BY <1>2, <1>3, <1>4, <1>5, <1>6 DEF Confirm

(* Every step of the service keeps the ledger's invariant. *)
LEMMA LedgerInvInductive == RegistryInv /\ LedgerInv /\ [Next]_vars => LedgerInv'
<1> SUFFICES ASSUME RegistryInv, LedgerInv, [Next]_vars
             PROVE  LedgerInv'
    OBVIOUS
<1>0. Shapes
  BY DEF LedgerInv
<1>1. CASE Tick \/ PodTick \/ Outside \/ (\E r \in Request : Thread(r)) \/ UNCHANGED vars
  <2>1. UNCHANGED <<pending, deadline, records, request>>
    BY <1>1 DEF Tick, Registry!Tick, PodTick, Outside, Thread, vars
  <2>2. QED
    BY <1>0, <2>1, QuietStep DEF Shapes
<1>2. ASSUME NEW r \in Request, Finish(r)
      PROVE  LedgerInv'
  BY <1>2, FinishStep
<1>3. ASSUME NEW t \in Token, NEW command \in Command, NEW mode \in Mode, Gate(t, command, mode)
      PROVE  LedgerInv'
  BY <1>3, GateStep
<1>4. ASSUME NEW t \in Token, Preview(t)
      PROVE  LedgerInv'
  <2>1. /\ UNCHANGED <<deadline, records, request>>
        /\ pending' = [u \in Token |-> pending'[u]]
        /\ \A u \in Token : pending'[u] # None => pending[u] # None
    BY <1>4 DEF Preview, Registry!Peek, Registry!Pruned, Registry!Expired
  <2>2. QED
    BY <2>1, QuietStep
<1>5. ASSUME NEW t \in Token, Confirm(t)
      PROVE  LedgerInv'
  BY <1>5, ConfirmStep
<1>6. CASE Previewing
  <2>1. /\ UNCHANGED <<deadline, records, request>>
        /\ pending' = [u \in Token |-> pending'[u]]
        /\ \A u \in Token : pending'[u] # None => pending[u] # None
    BY <1>0, <1>6, PreviewsWriteNothing DEF Shapes, Registry!Pruned, Registry!Expired
  <2>2. QED
    BY <2>1, QuietStep
<1>7. QED
  BY <1>1, <1>2, <1>3, <1>4, <1>5, <1>6 DEF Next, Previewing

(* A resolved incident is never written again: no second redemption, no     *)
(* rollback and no late thread rewrites an outcome, an MTTR or a link.      *)
LEMMA ResolvedUntouched ==
  ASSUME LedgerInv, [Next]_vars, NEW t \in Token, Log!Resolved(t)
  PROVE  records'[t] = records[t]
<1>0. Shapes /\ records[t] # None /\ pending[t] = None /\ deadline[t] # None
      /\ \A r \in Request : request[r] # None => request[r].token # t
  BY DEF LedgerInv, IssuedBeforeOpened, PendingUnresolved, SuspendedUnresolved,
         Log!Resolved, Log!Opened
<1>1. CASE UNCHANGED records
  BY <1>1
<1>2. ASSUME NEW u \in Token, u # t, NEW success, NEW linked, Log!ResolveIncident(u, success, linked)
      PROVE  records'[t] = records[t]
  BY <1>0, <1>2, ResolveTouchesOne
<1>3. ASSUME NEW r \in Request, Finish(r)
      PROVE  records'[t] = records[t]
  <2>1. request[r] # None /\ request[r].token \in Token /\ request[r].token # t
    BY <1>0, <1>3 DEF Finish, LedgerInv, SuspendedUnresolved
  <2>2. \/ UNCHANGED records
        \/ \E success, linked : Log!ResolveIncident(request[r].token, success, linked)
    BY <1>3 DEF Finish
  <2>3. QED
    BY <1>1, <1>2, <2>1, <2>2
<1>4. ASSUME NEW u \in Token, NEW command, NEW mode, Gate(u, command, mode)
      PROVE  records'[t] = records[t]
  BY <1>0, <1>4 DEF Gate, Registry!Register, Log!OpenIncident, Shapes
<1>5. ASSUME NEW u \in Token, Confirm(u)
      PROVE  records'[t] = records[t]
  <2>1. UNCHANGED records \/ u # t
    BY <1>0, <1>5, PrunedPending
       DEF Confirm, ConfirmRefused, ConfirmRollback, ConfirmCluster, ConfirmUnblock, ConfirmHost,
           Redeemable
  <2>2. \/ UNCHANGED records
        \/ \E success, linked : Log!ResolveIncident(u, success, linked)
    BY <1>5 DEF Confirm, ConfirmRefused, ConfirmRollback, ConfirmCluster, ConfirmUnblock, ConfirmHost
  <2>3. QED
    BY <1>1, <1>2, <2>1, <2>2
<1>6. QED
  <2>1. CASE Tick \/ PodTick \/ Outside \/ (\E r \in Request : Thread(r)) \/ UNCHANGED vars
             \/ (\E u \in Token : Preview(u)) \/ Previewing
    BY <1>1, <2>1, PreviewsWriteNothing DEF Tick, PodTick, Outside, Thread, Preview, vars
  <2>2. QED
    BY <1>3, <1>4, <1>5, <2>1 DEF Next, Previewing

(* incident_log.py:105: what a post-mortem exported stays what happened. In *)
(* the whole service no step rewrites the record of a resolved incident.    *)
THEOREM EndpointResolutionIsFinal == Spec => ResolutionIsFinal
<1>1. LedgerInv /\ [Next]_vars
        => [\A t \in Token : Log!Resolved(t) => records'[t] = records[t]]_vars
  BY ResolvedUntouched
<1>2. QED
  BY <1>1, RegistryInvInitially, RegistryInvInductive, LedgerInvInitially, LedgerInvInductive, PTL
     DEF Spec, ResolutionIsFinal

-----------------------------------------------------------------------------
(* The parts of the service on their own: what their modules prove of them. *)

LogProofs == INSTANCE IncidentLogProofs WITH MaxDelay <- MaxTime
HostProofs == INSTANCE HostEngineProofs WITH Worker <- Request

LogInv == LogProofs!LInv
HostInv == HostProofs!HInv

(* What IncidentLog assumes of its constants, ... *)
LEMMA LogConstants ==
    /\ MaxIncidents \in Nat \ {0}
    /\ MaxTime \in Nat
    /\ None \notin LogProofs!IncidentRecord \cup LogProofs!Waterfall \cup Nat \cup BOOLEAN \cup Token
<1>1. LogProofs!IncidentRecord = Log!IncidentRecord /\ LogProofs!Waterfall = Log!Waterfall
  BY DEF LogProofs!IncidentRecord, Log!IncidentRecord, LogProofs!Waterfall, Log!Waterfall,
         LogProofs!IncidentEvent, Log!IncidentEvent, LogProofs!Optional, Log!Optional
<1>2. QED
  BY <1>1, EndpointAssumption DEF EndpointAssumption

(* ... and HostEngine of its own. *)
LEMMA HostConstants ==
    /\ Protected \subseteq Name
    /\ Ip \subseteq Nat
    /\ Platform \in {"linux", "win32"}
    /\ {OutsideEdits, Faults} \subseteq BOOLEAN
    /\ {MaxBirths, MaxRules} \subseteq Nat
    /\ None \notin HostProofs!Incarnation \cup Pid
<1>1. HostProofs!Incarnation = Host!Incarnation
  BY DEF HostProofs!Incarnation, Host!Incarnation
<1>2. QED
  BY <1>1, EndpointAssumption DEF EndpointAssumption

LEMMA LogInvInitially == Init => LogInv
<1>1. Init => LogProofs!LogInit
  BY DEF Init, Log!LogInit, LogProofs!LogInit
<1>2. LogProofs!LogInit => LogProofs!LInv
  BY LogConstants, LogProofs!LInvInitially
<1>3. QED
  BY <1>1, <1>2 DEF LogInv

LEMMA HostInvInitially == Init => HostInv
<1>1. Init => HostProofs!HostInit
  BY DEF Init, Host!HostInit, HostProofs!HostInit, Host!IdleThread, HostProofs!IdleThread
<1>2. HostProofs!HostInit => HostProofs!HInv
  BY HostConstants, HostProofs!HInvInitially
<1>3. QED
  BY <1>1, <1>2 DEF HostInv

(* open_incident and resolve_incident as ConfirmEndpoint calls them.        *)
LEMMA LogOpens ==
  ASSUME LogInv, NEW t \in Token, NEW command \in Command, NEW mode \in Mode, records[t] = None,
         NEW waterfall \in Log!Optional(Log!Waterfall), Log!OpenIncident(t, command, mode, waterfall)
  PROVE  LogInv'
<1>1. waterfall \in LogProofs!Optional(LogProofs!Waterfall)
  BY DEF LogProofs!Waterfall, Log!Waterfall, LogProofs!Optional, Log!Optional
<1>2. LogProofs!OpenIncident(t, command, mode, waterfall)
  BY DEF Log!OpenIncident, LogProofs!OpenIncident, Log!AppendRight, LogProofs!AppendRight
<1>3. ~LogProofs!Opened(t)
  BY DEF LogProofs!Opened
<1>4. QED
  BY <1>1, <1>2, <1>3, LogConstants, LogProofs!OpeningKeeps DEF LogInv

LEMMA LogResolves ==
  ASSUME LogInv, NEW t \in Token, NEW success \in BOOLEAN, NEW linked \in Token \cup {None},
         Log!Opened(t), ~Log!Resolved(t), Log!ResolveIncident(t, success, linked)
  PROVE  LogInv'
<1>1. LogProofs!ResolveIncident(t, success, linked)
  BY DEF Log!ResolveIncident, LogProofs!ResolveIncident, Log!Opened, LogProofs!Opened,
         Log!ClosedWaterfall, LogProofs!ClosedWaterfall, Log!Event, LogProofs!Event,
         Log!logVars, LogProofs!logVars
<1>2. LogProofs!Opened(t) /\ ~LogProofs!Resolved(t) /\ linked \in LogProofs!Optional(Token)
  BY DEF Log!Opened, LogProofs!Opened, Log!Resolved, LogProofs!Resolved, LogProofs!Optional
<1>3. QED
  BY <1>1, <1>2, LogConstants, LogProofs!ResolvingKeeps DEF LogInv

LEMMA LogTicks ==
  ASSUME LogInv, Registry!Tick, UNCHANGED <<records, order, latest>>
  PROVE  LogInv'
<1>1. LogProofs!LogTick
  BY DEF Registry!Tick, LogProofs!LogTick
<1>2. QED
  BY <1>1, LogConstants, LogProofs!TickKeeps DEF LogInv

LEMMA LogRests ==
  ASSUME LogInv, UNCHANGED <<now, records, order, latest>>
  PROVE  LogInv'
<1>1. [LogProofs!LogNext]_(LogProofs!logVars)
  BY DEF LogProofs!logVars
<1>2. QED
  BY <1>1, LogConstants, LogProofs!LInvInductive DEF LogInv

(* The engine as ConfirmEndpoint drives it. *)
LEMMA HostSubmits ==
  ASSUME HostInv, NEW r \in Request, NEW op \in {"terminate", "isolate", "unblock"},
         NEW pid \in Pid \cup {None}, NEW ips \in SUBSET Ip, NEW dry_run \in BOOLEAN,
         op # "unblock" => pid \in Pid, Host!Submit(r, op, pid, ips, dry_run)
  PROVE  HostInv'
<1>1. HostProofs!Submit(r, op, pid, ips, dry_run)
  BY DEF Host!Submit, HostProofs!Submit, Host!Idle, HostProofs!Idle, Host!IdleThread, HostProofs!IdleThread
<1>2. op \in HostProofs!Op
  BY DEF HostProofs!Op
<1>3. QED
  BY <1>1, <1>2, HostConstants, HostProofs!SubmitKeeps DEF HostInv

LEMMA HostCollects ==
  ASSUME HostInv, NEW r \in Request, Host!Collect(r)
  PROVE  HostInv'
<1>1. HostProofs!Collect(r)
  BY DEF Host!Collect, HostProofs!Collect, Host!Returned, HostProofs!Returned,
         Host!IdleThread, HostProofs!IdleThread
<1>2. QED
  BY <1>1, HostConstants, HostProofs!CollectKeeps DEF HostInv

LEMMA HostThreadMoves ==
  ASSUME HostInv, NEW r \in Request, Host!ThreadStep(r)
  PROVE  HostInv'
<1>1. HostProofs!ThreadStep(r)
  BY DEF Host!ThreadStep, HostProofs!ThreadStep, Host!Open, HostProofs!Open,
         Host!Inspect, HostProofs!Inspect, Host!Passed, HostProofs!Passed,
         Host!Connections, HostProofs!Connections, Host!Kill, HostProofs!Kill,
         Host!Terminate, HostProofs!Terminate, Host!WaitReturns, HostProofs!WaitReturns,
         Host!WaitTimesOut, HostProofs!WaitTimesOut, Host!KillWaitTimesOut, HostProofs!KillWaitTimesOut,
         Host!Block, HostProofs!Block, Host!Unblock, HostProofs!Unblock, Host!Holder, HostProofs!Holder,
         Host!SameProcess, HostProofs!SameProcess, Host!Inspectable, HostProofs!Inspectable,
         Host!Signal, HostProofs!Signal, Host!Goto, HostProofs!Goto, Host!Return, HostProofs!Return,
         Host!First, HostProofs!First, Host!Advance, HostProofs!Advance,
         Host!RuleRemoved, HostProofs!RuleRemoved
<1>2. QED
  BY <1>1, HostConstants, HostProofs!ThreadStepKeeps DEF HostInv

LEMMA HostSurroundings ==
  ASSUME HostInv, Host!OutsideStep
  PROVE  HostInv'
<1>1. HostProofs!OutsideStep
  BY DEF Host!OutsideStep, HostProofs!OutsideStep, Host!ProcessExit, HostProofs!ProcessExit,
         Host!ProcessStart, HostProofs!ProcessStart, Host!ManualRemoval, HostProofs!ManualRemoval
<1>2. QED
  BY <1>1, HostConstants, HostProofs!OutsideKeeps DEF HostInv

LEMMA HostRests ==
  ASSUME HostInv, UNCHANGED <<procs, births, signalled, rules, worker>>
  PROVE  HostInv'
<1>1. [HostProofs!HostNext]_(HostProofs!hostVars)
  BY DEF HostProofs!hostVars
<1>2. QED
  BY <1>1, HostConstants, HostProofs!HInvInductive DEF HostInv

-----------------------------------------------------------------------------
(* The deque behind the stack. *)

StackShape == Stack!StackTypeOK /\ Len(stack) <= MaxEntries

LEMMA StackItems ==
  ASSUME StackShape
  PROVE  /\ stack \in Seq(Stack!MitigationEntry)
         /\ Len(stack) \in Nat /\ DOMAIN stack = 1..Len(stack)
         /\ \A i \in DOMAIN stack : stack[i] \in Stack!MitigationEntry
<1>1. stack \in Seq(Stack!MitigationEntry)
  BY DEF StackShape, Stack!StackTypeOK
<1>2. QED
  BY <1>1

(* The first n entries of the new stack are entries of the old one, from    *)
(* the same distance d of its bottom on: the deque drops at one end, pop    *)
(* takes from the other.                                                    *)
Keeps(n, d) == \A i \in 1..n : i + d \in DOMAIN stack /\ stack'[i] = stack[i + d]

LEMMA PopKeepsRest ==
  ASSUME StackShape, Stack!Pop, stack # <<>>
  PROVE  /\ StackShape' /\ Len(stack) \in DOMAIN stack
         /\ Stack!Top = stack[Len(stack)] /\ Stack!Top \in Stack!MitigationEntry
         /\ Len(stack') = Len(stack) - 1 /\ DOMAIN stack' = 1..Len(stack')
         /\ Keeps(Len(stack'), 0)
<1>1. stack \in Seq(Stack!MitigationEntry) /\ Len(stack) \in Nat \ {0} /\ DOMAIN stack = 1..Len(stack)
  BY StackItems
<1>2. stack' = SubSeq(stack, 1, Len(stack) - 1)
  BY DEF Stack!Pop, Stack!PopRight
<1>3. /\ stack' \in Seq(Stack!MitigationEntry) /\ Len(stack') = Len(stack) - 1
      /\ \A i \in 1..Len(stack) - 1 : stack'[i] = stack[i]
  BY <1>1, <1>2
<1>4. MaxEntries \in Nat
  BY EndpointAssumption DEF EndpointAssumption
<1>5. StackShape'
  BY <1>1, <1>3, <1>4 DEF StackShape, Stack!StackTypeOK
<1>6. Stack!Top = stack[Len(stack)] /\ Stack!Top \in Stack!MitigationEntry
  BY <1>1 DEF Stack!Top
<1>7. QED
  BY <1>1, <1>3, <1>5, <1>6 DEF Keeps

LEMMA PushKeepsRest ==
  ASSUME StackShape, NEW e \in Stack!MitigationEntry, Stack!Push(e)
  PROVE  /\ StackShape' /\ Len(stack') \in Nat \ {0}
         /\ DOMAIN stack' = 1..Len(stack') /\ stack'[Len(stack')] = e
         /\ \E d \in {0, 1} : Keeps(Len(stack') - 1, d)
<1>1. stack \in Seq(Stack!MitigationEntry) /\ Len(stack) \in Nat /\ DOMAIN stack = 1..Len(stack)
  BY StackItems
<1>2. MaxEntries \in Nat \ {0} /\ Len(stack) <= MaxEntries
  BY EndpointAssumption DEF EndpointAssumption, StackShape
<1>3. stack' = LogProofs!AppendRight(stack, e, MaxEntries)
  BY DEF Stack!Push, Stack!AppendRight, LogProofs!AppendRight
<1>4. /\ stack' \in Seq(Stack!MitigationEntry)
      /\ \E d \in {0, 1} :
           /\ Len(stack') = Len(stack) + 1 - d
           /\ d = 1 => Len(stack) = MaxEntries
           /\ d = 0 => Len(stack) < MaxEntries
           /\ stack'[Len(stack) + 1 - d] = e
           /\ \A i \in 1..(Len(stack) - d) : stack'[i] = stack[i + d]
  <2> DEFINE Entry == Stack!MitigationEntry
             new == LogProofs!AppendRight(stack, e, MaxEntries)
  <2>1. e \in Entry /\ stack \in Seq(Entry)
    BY <1>1
  <2> HIDE DEF Entry
  <2>2. /\ new \in Seq(Entry)
        /\ \E d \in {0, 1} :
             /\ Len(new) = Len(stack) + 1 - d
             /\ d = 1 => Len(stack) = MaxEntries
             /\ d = 0 => Len(stack) < MaxEntries
             /\ new[Len(stack) + 1 - d] = e
             /\ \A i \in 1..(Len(stack) - d) : new[i] = stack[i + d]
    BY ONLY <1>2, <2>1, LogConstants, LogProofs!AppendedRight
  <2>3. stack' = new
    BY <1>3
  <2> HIDE DEF new
  <2>4. QED
    BY <2>2, <2>3 DEF Entry
<1>5. PICK d \in {0, 1} :
           /\ Len(stack') = Len(stack) + 1 - d
           /\ d = 1 => Len(stack) = MaxEntries
           /\ d = 0 => Len(stack) < MaxEntries
           /\ stack'[Len(stack) + 1 - d] = e
           /\ \A i \in 1..(Len(stack) - d) : stack'[i] = stack[i + d]
  BY <1>4
<1>6. Len(stack') \in Nat \ {0} /\ Len(stack') <= MaxEntries /\ DOMAIN stack' = 1..Len(stack')
  <2>1. stack' \in Seq(Stack!MitigationEntry) /\ Len(stack') = Len(stack) + 1 - d
    BY <1>4, <1>5
  <2>2. d \in {0, 1} /\ (d = 1 => Len(stack) = MaxEntries) /\ (d = 0 => Len(stack) < MaxEntries)
    BY <1>5
  <2>3. Len(stack) \in Nat /\ MaxEntries \in Nat \ {0}
    BY <1>1, <1>2
  <2>4. DOMAIN stack' = 1..Len(stack')
    BY ONLY <2>1
  <2>5. Len(stack') \in Nat \ {0} /\ Len(stack') <= MaxEntries
    BY ONLY <2>1, <2>2, <2>3
  <2>6. QED
    BY <2>4, <2>5
<1>7. Keeps(Len(stack') - 1, d)
  <2>1. Len(stack') = Len(stack) + 1 - d /\ Len(stack) \in Nat /\ d \in {0, 1}
    BY <1>1, <1>5
  <2>2. Len(stack') - 1 = Len(stack) - d
    BY ONLY <2>1
  <2>3. \A i \in 1..(Len(stack) - d) : i + d \in 1..Len(stack)
    BY ONLY <2>1
  <2>4. \A i \in 1..(Len(stack') - 1) : i + d \in DOMAIN stack /\ stack'[i] = stack[i + d]
    BY ONLY <1>1, <1>5, <2>2, <2>3
  <2>5. QED
    BY <2>4 DEF Keeps
<1>8. QED
  BY <1>4, <1>5, <1>6, <1>7 DEF StackShape, Stack!StackTypeOK

-----------------------------------------------------------------------------
(* Which incidents can still be undone. *)

(* The incident of a real, successful mitigation that no rollback links to. *)
Undoable(t) ==
    /\ grants[t] # <<>>
    /\ Log!Resolved(t) /\ records[t].success
    /\ records[t].command.intent # "ROLLBACK"
    /\ \A u \in Token : Log!Opened(u) => records[u].linked_token # t

(* The stack lists undoable incidents, each once, as they were resolved.    *)
StackInv ==
    /\ \A i \in DOMAIN stack :
          Undoable(stack[i].token) /\ records[stack[i].token].mode = stack[i].mode
    /\ \A i, j \in DOMAIN stack : i < j =>
          /\ stack[i].token # stack[j].token
          /\ records[stack[i].token].resolved_at <= records[stack[j].token].resolved_at

(* An entry a suspended rollback has popped is undoable until it is linked, *)
(* and nobody else has it.                                                  *)
PoppedInv ==
    \A r \in Request : request[r] # None /\ request[r].entry # None =>
        /\ Undoable(request[r].entry.token)
        /\ Bare(records[request[r].token].command)
        /\ \A i \in DOMAIN stack : stack[i].token # request[r].entry.token
        /\ \A s \in Request \ {r} : request[s] # None /\ request[s].entry # None =>
              request[s].entry.token # request[r].entry.token

(* A suspended handler works for a redeemed token whose incident is open.   *)
SuspendedInv ==
    /\ request \in [Request -> Suspended \cup {None}]
    /\ \A r \in Request : request[r] # None =>
          /\ grants[request[r].token] # <<>> /\ Log!Opened(request[r].token)
          /\ request[r].entry = None =>
                /\ records[request[r].token].mode = "HOST_LOCAL"
                /\ records[request[r].token].command.intent # "ROLLBACK"

(* The store and the ledger agree on what was offered. *)
OffersOpened ==
    \A t \in Token : pending[t] # None =>
        /\ Log!Opened(t)
        /\ records[t].command = pending[t].command /\ records[t].mode = pending[t].mode

(* Only a resolution links an incident. *)
LinkedResolved ==
    \A t \in Token : Log!Opened(t) /\ records[t].linked_token # None => Log!Resolved(t)

MitigationInv ==
    /\ StackShape /\ StackInv /\ PoppedInv /\ SuspendedInv
    /\ OffersOpened /\ LinkedResolved /\ RolledBackOnce

LEMMA MitigationInvInitially == Init => MitigationInv
<1> SUFFICES ASSUME Init PROVE MitigationInv
  OBVIOUS
<1>1. stack = <<>> /\ Len(stack) = 0 /\ DOMAIN stack = {} /\ stack \in Seq(Stack!MitigationEntry)
  BY DEF Init, Stack!StackInit
<1>2. StackShape /\ StackInv
  BY <1>1, EndpointAssumption DEF EndpointAssumption, StackShape, Stack!StackTypeOK, StackInv
<1>3. PoppedInv /\ SuspendedInv
  BY DEF Init, PoppedInv, SuspendedInv
<1>4. OffersOpened /\ LinkedResolved /\ RolledBackOnce
  BY DEF Init, Registry!RegistryInit, Log!LogInit, OffersOpened, LinkedResolved, RolledBackOnce,
         Log!Opened
<1>5. QED
  BY <1>2, <1>3, <1>4 DEF MitigationInv

-----------------------------------------------------------------------------
(* What can be undone stays so until it is linked. *)

LEMMA EntriesTyped ==
  ASSUME NEW e \in Stack!MitigationEntry
  PROVE  e.token \in Token /\ e # None
  BY EndpointAssumption DEF EndpointAssumption, Stack!MitigationEntry

LEMMA HandlersTyped ==
  ASSUME SuspendedInv, NEW r \in Request, request[r] # None
  PROVE  /\ request[r] \in Suspended /\ request[r].token \in Token
         /\ request[r].entry # None => request[r].entry \in Stack!MitigationEntry
                                       /\ request[r].entry.token \in Token
<1>1. request[r] \in Suspended
  BY DEF SuspendedInv
<1>2. request[r].token \in Token /\ request[r].entry \in Stack!MitigationEntry \cup {None}
  BY <1>1 DEF Suspended
<1>3. QED
  BY <1>1, <1>2, EntriesTyped

LEMMA ResolvedTimes ==
  ASSUME LogInv, NEW t \in Token, Log!Resolved(t)
  PROVE  records[t].resolved_at \in Nat /\ now \in Nat /\ records[t].resolved_at <= now
<1>1. LogProofs!LogTypeOK /\ LogProofs!RecordsTimed /\ LogProofs!Opened(t) /\ LogProofs!Resolved(t)
  BY DEF LogInv, LogProofs!LInv, Log!Resolved, Log!Opened, LogProofs!Resolved, LogProofs!Opened
<1>2. /\ records[t].resolved_at \in LogProofs!Optional(Nat) /\ now \in Nat
  BY <1>1, LogConstants, LogProofs!Known
<1>3. QED
  BY <1>1, <1>2 DEF LogProofs!RecordsTimed, LogProofs!Optional, Log!Resolved

LEMMA LinksTyped ==
  ASSUME LogInv, NEW t \in Token, Log!Opened(t), records[t].linked_token # None
  PROVE  records[t].linked_token \in Token
<1>1. LogProofs!LogTypeOK /\ LogProofs!Opened(t)
  BY DEF LogInv, LogProofs!LInv, Log!Opened, LogProofs!Opened
<1>2. records[t] \in LogProofs!IncidentRecord
  BY <1>1, LogConstants, LogProofs!Known
<1>3. QED
  BY <1>2 DEF LogProofs!IncidentRecord, LogProofs!Optional

(* What resolve_incident does to the ledger. *)
LEMMA Resolution ==
  ASSUME LogInv, NEW t \in Token, NEW success \in BOOLEAN, NEW linked \in Token \cup {None},
         Log!Opened(t), Log!ResolveIncident(t, success, linked)
  PROVE  /\ now' = now /\ now \in Nat
         /\ Log!Opened(t)' /\ Log!Resolved(t)'
         /\ records'[t].command = records[t].command /\ records'[t].mode = records[t].mode
         /\ records'[t].resolved_at = now /\ records'[t].success = success
         /\ records'[t].linked_token = (IF linked # None THEN linked ELSE records[t].linked_token)
         /\ \A u \in Token \ {t} : records'[u] = records[u]
<1>1. LogProofs!LogTypeOK /\ LogProofs!RecordsTimed /\ LogProofs!Opened(t)
      /\ linked \in LogProofs!Optional(Token)
  BY DEF LogInv, LogProofs!LInv, Log!Opened, LogProofs!Opened, LogProofs!Optional
<1>2. LogProofs!ResolveIncident(t, success, linked)
  BY DEF Log!ResolveIncident, LogProofs!ResolveIncident, Log!Opened, LogProofs!Opened,
         Log!ClosedWaterfall, LogProofs!ClosedWaterfall, Log!Event, LogProofs!Event,
         Log!logVars, LogProofs!logVars
<1>3. /\ LogProofs!Opened(t)' /\ LogProofs!Resolved(t)'
      /\ records'[t].command = records[t].command /\ records'[t].mode = records[t].mode
      /\ records'[t].resolved_at = now /\ records'[t].success = success
      /\ records'[t].linked_token = (IF linked # None THEN linked ELSE records[t].linked_token)
      /\ \A u \in Token \ {t} : records'[u] = records[u]
  BY <1>1, <1>2, LogConstants, LogProofs!RecordCloses
<1>4. Log!Opened(t)' /\ Log!Resolved(t)'
  BY <1>3 DEF LogProofs!Opened, LogProofs!Resolved, Log!Opened, Log!Resolved
<1>5. now \in Nat
  BY <1>1, LogConstants DEF LogProofs!LogTypeOK
<1>6. now' = now
  BY DEF Log!ResolveIncident
<1>7. QED
  BY <1>3, <1>4, <1>5, <1>6

LEMMA UndoableKept ==
  ASSUME NEW u \in Token, Undoable(u), records'[u] = records[u],
         grants[u] # <<>> => grants'[u] # <<>>,
         \A v \in Token : Log!Opened(v)' /\ records'[v].linked_token = u =>
             Log!Opened(v) /\ records[v].linked_token = u
  PROVE  Undoable(u)'
  BY DEF Undoable, Log!Resolved, Log!Opened

(* An incident that nobody resolved is linked by nobody. *)
LEMMA OpenNotLinked ==
  ASSUME RolledBackOnce, NEW t \in Token, ~Log!Resolved(t), NEW u \in Token, Log!Opened(u)
  PROVE  records[u].linked_token # t
<1>1. SUFFICES ASSUME records[u].linked_token = t
               PROVE  FALSE
  OBVIOUS
<1>2. records[u].linked_token # None
  BY <1>1, EndpointAssumption DEF EndpointAssumption
<1>3. QED
  BY <1>1, <1>2 DEF RolledBackOnce

(* The step that resolves t and takes the stack from some of its entries to *)
(* the same ones, with an entry for t on top if onTop.                      *)
LEMMA ResolvingMitigation ==
  ASSUME LogInv, MitigationInv,
         NEW t \in Token, NEW success \in BOOLEAN, NEW linked \in Token \cup {None},
         Log!Opened(t), ~Log!Resolved(t), Log!ResolveIncident(t, success, linked),
         \A u \in Token : grants[u] # <<>> => grants'[u] # <<>>,
         \A u \in Token : pending'[u] # None => pending'[u] = pending[u],
         request' \in [Request -> Suspended \cup {None}],
         \A r \in Request : request'[r] # None => request'[r] = request[r] /\ request[r].token # t,
         linked # None =>
            /\ Undoable(linked) /\ Bare(records[t].command)
            /\ \A i \in DOMAIN stack' : stack'[i].token # linked
            /\ \A r \in Request : request'[r] # None /\ request'[r].entry # None =>
                  request'[r].entry.token # linked,
         NEW onTop \in BOOLEAN, NEW n \in Nat, NEW d \in Nat, Keeps(n, d), StackShape',
         DOMAIN stack' = (IF onTop THEN 1..n + 1 ELSE 1..n),
         onTop => /\ stack'[n + 1].token = t /\ stack'[n + 1].mode = records[t].mode
                  /\ success /\ linked = None
                  /\ records[t].command.intent # "ROLLBACK" /\ grants'[t] # <<>>
  PROVE  MitigationInv'
<1>0. /\ StackShape /\ StackInv /\ PoppedInv /\ SuspendedInv
      /\ OffersOpened /\ LinkedResolved /\ RolledBackOnce
  BY DEF MitigationInv
<1>1. /\ now' = now /\ now \in Nat
      /\ Log!Opened(t)' /\ Log!Resolved(t)'
      /\ records'[t].command = records[t].command /\ records'[t].mode = records[t].mode
      /\ records'[t].resolved_at = now /\ records'[t].success = success
      /\ \A u \in Token \ {t} : records'[u] = records[u]
  BY Resolution
<1>2. records'[t].linked_token = linked
  <2>1. records'[t].linked_token = (IF linked # None THEN linked ELSE records[t].linked_token)
    BY Resolution
  <2>2. records[t].linked_token = None
    BY <1>0 DEF LinkedResolved
  <2>3. QED
    BY <2>1, <2>2
<1>3. \A u \in Token : Log!Resolved(u) => u # t /\ records'[u] = records[u]
  BY <1>1
<1>4. ASSUME NEW u \in Token, Undoable(u), u # linked
      PROVE  Undoable(u)'
  <2>1. u # t /\ records'[u] = records[u]
    BY <1>3, <1>4 DEF Undoable
  <2>2. ASSUME NEW v \in Token, Log!Opened(v)', records'[v].linked_token = u
        PROVE  Log!Opened(v) /\ records[v].linked_token = u
    BY <1>1, <1>2, <1>4, <2>2 DEF Log!Opened
  <2>3. QED
    BY <1>4, <2>1, <2>2, UndoableKept
<1>5. ASSUME NEW i \in 1..n
      PROVE  /\ i \in DOMAIN stack' /\ i + d \in DOMAIN stack /\ stack'[i] = stack[i + d]
             /\ stack'[i].token \in Token /\ Undoable(stack'[i].token)
             /\ stack'[i].token # linked /\ stack'[i].token # t
             /\ records[stack'[i].token].mode = stack'[i].mode
  <2>1. i \in DOMAIN stack' /\ i + d \in DOMAIN stack /\ stack'[i] = stack[i + d]
    BY DEF Keeps
  <2>2. stack[i + d] \in Stack!MitigationEntry /\ Undoable(stack[i + d].token)
        /\ records[stack[i + d].token].mode = stack[i + d].mode
    BY <1>0, <2>1, StackItems DEF StackInv
  <2>3. stack'[i].token \in Token
    BY <2>1, <2>2, EntriesTyped
  <2>4. stack'[i].token # linked
    BY <2>1, <2>3, EndpointAssumption DEF EndpointAssumption
  <2>5. stack'[i].token # t
    BY <2>1, <2>2 DEF Undoable
  <2>6. QED
    BY <2>1, <2>2, <2>3, <2>4, <2>5
<1>6. onTop => Undoable(t)'
  <2> SUFFICES ASSUME onTop PROVE Undoable(t)'
    OBVIOUS
  <2>1. ASSUME NEW v \in Token, Log!Opened(v)' PROVE records'[v].linked_token # t
    <3>1. CASE v = t
      BY <1>2, <3>1, EndpointAssumption DEF EndpointAssumption
    <3>2. CASE v # t
      BY <1>0, <1>1, <2>1, <3>2, OpenNotLinked DEF Log!Opened
    <3>3. QED
      BY <3>1, <3>2
  <2>2. QED
    BY <1>1, <2>1 DEF Undoable
<1>7. StackInv'
  <2>1. ASSUME NEW i \in DOMAIN stack'
        PROVE  Undoable(stack[i].token)' /\ records'[stack'[i].token].mode = stack'[i].mode
    <3>1. CASE i \in 1..n
      <4>1. PICK u \in Token : u = stack'[i].token
        BY <1>5, <3>1
      <4>2. Undoable(u)' /\ records'[u] = records[u]
        BY <1>3, <1>4, <1>5, <3>1, <4>1 DEF Undoable
      <4>3. QED
        BY <1>5, <3>1, <4>1, <4>2 DEF Undoable
    <3>2. CASE onTop /\ i = n + 1
      BY <1>1, <1>6, <3>2 DEF Undoable
    <3>3. QED
      BY <3>1, <3>2
  <2>2. ASSUME NEW i \in DOMAIN stack', NEW j \in DOMAIN stack', i < j
        PROVE  /\ stack'[i].token # stack'[j].token
               /\ records'[stack'[i].token].resolved_at <= records'[stack'[j].token].resolved_at
    <3>1. i \in 1..n
      BY <2>2
    <3>2. records'[stack'[i].token] = records[stack'[i].token]
      BY <1>3, <1>5, <3>1 DEF Undoable
    <3>3. CASE j \in 1..n
      <4>1. i + d < j + d /\ i + d \in DOMAIN stack /\ j + d \in DOMAIN stack
        BY <1>5, <2>2, <3>1, <3>3
      <4>2. /\ stack[i + d].token # stack[j + d].token
            /\ records[stack[i + d].token].resolved_at <= records[stack[j + d].token].resolved_at
        BY <1>0, <4>1 DEF StackInv
      <4>3. records'[stack'[j].token] = records[stack'[j].token]
        BY <1>3, <1>5, <3>3 DEF Undoable
      <4>4. QED
        BY <1>5, <3>1, <3>2, <3>3, <4>2, <4>3
    <3>4. CASE onTop /\ j = n + 1
      <4>1. Log!Resolved(stack'[i].token)
        BY <1>5, <3>1 DEF Undoable
      <4>2. records[stack'[i].token].resolved_at <= now
        BY <1>5, <3>1, <4>1, ResolvedTimes
      <4>3. QED
        BY <1>1, <1>5, <3>1, <3>2, <3>4, <4>2
    <3>5. QED
      BY <3>3, <3>4
  <2>3. QED
    BY <2>1, <2>2 DEF StackInv
<1>8. PoppedInv'
  <2> SUFFICES ASSUME NEW r \in Request, request'[r] # None, request'[r].entry # None
               PROVE  /\ Undoable(request[r].entry.token)'
                      /\ Bare(records'[request'[r].token].command)
                      /\ \A i \in DOMAIN stack' : stack'[i].token # request'[r].entry.token
                      /\ \A s \in Request \ {r} : request'[s] # None /\ request'[s].entry # None =>
                            request'[s].entry.token # request'[r].entry.token
    BY DEF PoppedInv
  <2>1. request'[r] = request[r] /\ request[r].token # t /\ request[r].token \in Token
        /\ request[r].entry.token \in Token
    BY <1>0, HandlersTyped
  <2>2. PICK u \in Token : u = request[r].entry.token /\ u = request'[r].entry.token
    BY <2>1
  <2>3. /\ Undoable(u) /\ Bare(records[request[r].token].command)
        /\ \A i \in DOMAIN stack : stack[i].token # u
        /\ \A s \in Request \ {r} : request[s] # None /\ request[s].entry # None =>
              request[s].entry.token # u
    BY <1>0, <2>1, <2>2 DEF PoppedInv
  <2>4. u # linked
    BY <2>2, EndpointAssumption DEF EndpointAssumption
  <2>5. Undoable(u)'
    BY <1>4, <2>3, <2>4
  <2>6. Bare(records'[request'[r].token].command)
    BY <1>1, <2>1, <2>3
  <2>7. ASSUME NEW i \in DOMAIN stack' PROVE stack'[i].token # u
    <3>1. CASE i \in 1..n
      BY <1>5, <2>3, <3>1
    <3>2. CASE onTop /\ i = n + 1
      BY <2>3, <3>2 DEF Undoable
    <3>3. QED
      BY <3>1, <3>2
  <2>8. ASSUME NEW s \in Request \ {r}, request'[s] # None, request'[s].entry # None
        PROVE  request'[s].entry.token # u
    BY <2>3, <2>8
  <2>9. Undoable(request[r].entry.token)'
    BY <2>2, <2>5 DEF Undoable
  <2>10. QED
    BY <2>2, <2>6, <2>7, <2>8, <2>9
<1>9. SuspendedInv'
  <2> SUFFICES ASSUME NEW r \in Request, request'[r] # None
               PROVE  /\ grants'[request'[r].token] # <<>> /\ Log!Opened(request[r].token)'
                      /\ request'[r].entry = None =>
                            /\ records'[request'[r].token].mode = "HOST_LOCAL"
                            /\ records'[request'[r].token].command.intent # "ROLLBACK"
    BY DEF SuspendedInv
  <2>1. request'[r] = request[r] /\ request[r].token \in Token \ {t}
    BY <1>0, HandlersTyped
  <2>2. QED
    BY <1>0, <1>1, <2>1 DEF SuspendedInv, Log!Opened
<1>10. OffersOpened'
  BY <1>0, <1>1 DEF OffersOpened, Log!Opened
<1>11. LinkedResolved'
  BY <1>0, <1>1 DEF LinkedResolved, Log!Opened, Log!Resolved
<1>12. RolledBackOnce'
  <2> SUFFICES ASSUME NEW v \in Token, Log!Opened(v)', records'[v].linked_token # None
               PROVE  LET x == records'[v].linked_token
                      IN  /\ \A u \in Token : Log!Opened(u)' /\ records'[u].linked_token = x => u = v
                          /\ Bare(records'[v].command)
                          /\ Log!Resolved(records[v].linked_token)' /\ records'[x].success
                          /\ ~Bare(records'[x].command)
                          /\ records'[x].resolved_at <= records'[v].resolved_at
    BY DEF RolledBackOnce
  <2>1. CASE v = t
    <3>1. linked \in Token /\ linked # None /\ Undoable(linked) /\ linked # t
      BY <1>2, <2>1 DEF Undoable
    <3>2. records'[linked] = records[linked] /\ Log!Resolved(linked)
      BY <1>3, <3>1 DEF Undoable
    <3>3. records[linked].resolved_at <= now
      BY <3>1, <3>2, ResolvedTimes
    <3>4. \A u \in Token \ {t} : Log!Opened(u)' => records'[u].linked_token # linked
      BY <1>1, <3>1 DEF Undoable, Log!Opened
    <3>5. ~Bare(records[linked].command) /\ records[linked].success
      BY <3>1 DEF Undoable, Bare
    <3>6. Bare(records'[t].command)
      BY <1>1, <3>1
    <3>7. Log!Resolved(records[t].linked_token)'
      BY <1>2, <3>2 DEF Log!Resolved, Log!Opened
    <3>8. QED
      BY <1>1, <1>2, <2>1, <3>2, <3>3, <3>4, <3>5, <3>6, <3>7
  <2>2. CASE v # t
    <3>1. Log!Opened(v) /\ records'[v] = records[v]
      BY <1>1, <2>2 DEF Log!Opened
    <3>2. PICK x \in Token : x = records[v].linked_token /\ x = records'[v].linked_token
      BY <3>1, LinksTyped
    <3>3. /\ \A u \in Token : Log!Opened(u) /\ records[u].linked_token = x => u = v
          /\ Bare(records[v].command)
          /\ Log!Resolved(x) /\ records[x].success
          /\ ~Bare(records[x].command)
          /\ records[x].resolved_at <= records[v].resolved_at
      BY <1>0, <3>1, <3>2, EndpointAssumption DEF EndpointAssumption, RolledBackOnce
    <3>4. x # linked
      BY <3>1, <3>2 DEF Undoable
    <3>5. records'[x] = records[x]
      BY <1>3, <3>3
    <3>6. \A u \in Token : Log!Opened(u)' /\ records'[u].linked_token = x => u = v
      BY <1>1, <1>2, <3>3, <3>4 DEF Log!Opened
    <3>7. Log!Resolved(records[v].linked_token)'
      BY <3>2, <3>3, <3>5 DEF Log!Resolved, Log!Opened
    <3>8. QED
      BY <3>1, <3>2, <3>3, <3>5, <3>6, <3>7
  <2>3. QED
    BY <2>1, <2>2
<1>13. QED
  BY <1>7, <1>8, <1>9, <1>10, <1>11, <1>12 DEF MitigationInv

(* The step that leaves the ledger alone: handlers may end, and one may     *)
(* begin, with an entry it takes off the stack or without one.              *)
LEMMA StandingMitigation ==
  ASSUME MitigationInv, records' = records,
         \A u \in Token : grants[u] # <<>> => grants'[u] # <<>>,
         \A u \in Token : pending'[u] # None => pending'[u] = pending[u],
         NEW n \in Nat, Keeps(n, 0), StackShape', DOMAIN stack' = 1..n,
         request' \in [Request -> Suspended \cup {None}],
         \A r \in Request : request'[r] # None /\ request'[r] # request[r] =>
            /\ grants'[request'[r].token] # <<>> /\ Log!Opened(request'[r].token)
            /\ request'[r].entry = None =>
                  /\ records[request'[r].token].mode = "HOST_LOCAL"
                  /\ records[request'[r].token].command.intent # "ROLLBACK"
            /\ request'[r].entry # None =>
                  /\ Undoable(request'[r].entry.token)
                  /\ Bare(records[request'[r].token].command)
                  /\ \A i \in DOMAIN stack' : stack'[i].token # request'[r].entry.token
                  /\ \A s \in Request \ {r} : request'[s] # None /\ request'[s].entry # None =>
                        request'[s].entry.token # request'[r].entry.token
  PROVE  MitigationInv'
<1>0. /\ StackShape /\ StackInv /\ PoppedInv /\ SuspendedInv
      /\ OffersOpened /\ LinkedResolved /\ RolledBackOnce
  BY DEF MitigationInv
<1>1. ASSUME NEW u \in Token, Undoable(u) PROVE Undoable(u)'
  BY <1>1, UndoableKept DEF Log!Opened
<1>2. ASSUME NEW i \in DOMAIN stack'
      PROVE  i \in DOMAIN stack /\ stack'[i] = stack[i] /\ stack[i].token \in Token
  <2>1. i + 0 \in DOMAIN stack /\ stack'[i] = stack[i + 0] /\ i \in Nat
    BY DEF Keeps
  <2>2. QED
    BY <1>0, <2>1, StackItems, EntriesTyped
<1>3. StackInv'
  <2>1. ASSUME NEW i \in DOMAIN stack'
        PROVE  Undoable(stack[i].token)' /\ records'[stack'[i].token].mode = stack'[i].mode
    <3>1. PICK u \in Token : u = stack[i].token /\ u = stack'[i].token
      BY <1>2
    <3>2. Undoable(u) /\ records[u].mode = stack[i].mode
      BY <1>0, <1>2, <3>1 DEF StackInv
    <3>3. Undoable(u)'
      BY <1>1, <3>2
    <3>4. QED
      BY <1>2, <3>1, <3>2, <3>3 DEF Undoable
  <2>2. ASSUME NEW i \in DOMAIN stack', NEW j \in DOMAIN stack', i < j
        PROVE  /\ stack'[i].token # stack'[j].token
               /\ records'[stack'[i].token].resolved_at <= records'[stack'[j].token].resolved_at
    BY <1>0, <1>2, <2>2 DEF StackInv
  <2>3. QED
    BY <2>1, <2>2 DEF StackInv
<1>4. PoppedInv'
  <2> SUFFICES ASSUME NEW r \in Request, request'[r] # None, request'[r].entry # None
               PROVE  /\ Undoable(request[r].entry.token)'
                      /\ Bare(records'[request'[r].token].command)
                      /\ \A i \in DOMAIN stack' : stack'[i].token # request'[r].entry.token
                      /\ \A s \in Request \ {r} : request'[s] # None /\ request'[s].entry # None =>
                            request'[s].entry.token # request'[r].entry.token
    BY DEF PoppedInv
  <2>1. PICK u : u = request'[r].entry.token
    OBVIOUS
  <2>2. u \in Token
    <3>1. request'[r] \in Suspended
      OBVIOUS
    <3>2. request'[r].entry \in Stack!MitigationEntry
      BY <3>1 DEF Suspended
    <3>3. QED
      BY <2>1, <3>2, EntriesTyped
  <2>3. Undoable(u) /\ Bare(records[request'[r].token].command)
        /\ \A i \in DOMAIN stack' : stack'[i].token # u
    <3>1. CASE request'[r] = request[r]
      BY <1>0, <1>2, <2>1, <3>1 DEF PoppedInv
    <3>2. CASE request'[r] # request[r]
      BY <2>1, <3>2
    <3>3. QED
      BY <3>1, <3>2
  <2>4. Undoable(u)'
    BY <1>1, <2>2, <2>3
  <2>5. ASSUME NEW s \in Request \ {r}, request'[s] # None, request'[s].entry # None
        PROVE  request'[s].entry.token # u
    <3>1. CASE request'[r] = request[r] /\ request'[s] = request[s]
      BY <1>0, <2>1, <2>5, <3>1 DEF PoppedInv
    <3>2. CASE request'[r] # request[r]
      BY <2>1, <2>5, <3>2
    <3>3. CASE request'[s] # request[s]
      BY <2>1, <2>5, <3>3
    <3>4. QED
      BY <3>1, <3>2, <3>3
  <2>6. QED
    BY <2>1, <2>3, <2>4, <2>5 DEF Undoable
<1>5. SuspendedInv'
  <2> SUFFICES ASSUME NEW r \in Request, request'[r] # None
               PROVE  /\ grants'[request'[r].token] # <<>> /\ Log!Opened(request[r].token)'
                      /\ request'[r].entry = None =>
                            /\ records'[request'[r].token].mode = "HOST_LOCAL"
                            /\ records'[request'[r].token].command.intent # "ROLLBACK"
    BY DEF SuspendedInv
  <2>1. CASE request'[r] = request[r]
    BY <1>0, <2>1, HandlersTyped DEF SuspendedInv, Log!Opened
  <2>2. CASE request'[r] # request[r]
    BY <2>2 DEF Log!Opened
  <2>3. QED
    BY <2>1, <2>2
<1>6. OffersOpened' /\ LinkedResolved' /\ RolledBackOnce'
  BY <1>0 DEF OffersOpened, LinkedResolved, RolledBackOnce, Log!Opened, Log!Resolved
<1>7. QED
  BY <1>3, <1>4, <1>5, <1>6 DEF MitigationInv

(* ... in particular one that leaves the stack alone, too. *)
LEMMA QuietMitigation ==
  ASSUME MitigationInv, UNCHANGED <<records, stack, request>>,
         \A u \in Token : grants[u] # <<>> => grants'[u] # <<>>,
         \A u \in Token : pending'[u] # None => pending'[u] = pending[u]
  PROVE  MitigationInv'
<1>1. StackShape /\ SuspendedInv
  BY DEF MitigationInv
<1>2. Len(stack) \in Nat /\ DOMAIN stack' = 1..Len(stack) /\ StackShape' /\ Keeps(Len(stack), 0)
  BY <1>1, StackItems DEF StackShape, Stack!StackTypeOK, Keeps
<1>3. request' \in [Request -> Suspended \cup {None}]
  BY <1>1 DEF SuspendedInv
<1>4. QED
  BY <1>2, <1>3, StandingMitigation

(* The step that opens the incident of a token never issued before. *)
LEMMA GateMitigation ==
  ASSUME RegistryInv, LedgerInv, LogInv, MitigationInv,
         NEW t \in Token, NEW command \in Command, NEW mode \in Mode, Gate(t, command, mode)
  PROVE  MitigationInv'
<1>0. /\ StackShape /\ StackInv /\ PoppedInv /\ SuspendedInv
      /\ OffersOpened /\ LinkedResolved /\ RolledBackOnce
  BY DEF MitigationInv
<1>1. /\ UNCHANGED <<grants, stack, request>>
      /\ records[t] = None /\ records = [u \in Token |-> records[u]]
  BY DEF Gate, Registry!Register, LedgerInv, IssuedBeforeOpened, Shapes
<1>2. /\ \A u \in Token \ {t} : records'[u] = records[u]
      /\ records'[t].command = command /\ records'[t].mode = mode
      /\ records'[t].resolved_at = None /\ records'[t].linked_token = None
  BY <1>1 DEF Gate, Log!OpenIncident
<1>3. Log!Opened(t)'
  <2>1. LogInv'
    <3>1. [stt |-> 0, gate |-> 0, exec |-> None, total |-> None] \in Log!Optional(Log!Waterfall)
      BY DEF Log!Optional, Log!Waterfall
    <3>2. QED
      BY <1>1, <3>1, LogOpens DEF Gate
  <2>2. \A S : None \notin S => \A x \in S : x # None
    OBVIOUS
  <2>3. records'[t] \in Log!IncidentRecord
    <3> DEFINE new == [command |-> command, mode |-> mode,
                       timeline |-> <<[timestamp |-> now, message |-> "requested"]>>,
                       opened_at |-> now, resolved_at |-> None, success |-> None,
                       mttr_seconds |-> None,
                       latency_waterfall |-> [stt |-> 0, gate |-> 0, exec |-> None, total |-> None],
                       linked_token |-> None]
    <3>1. records'[t] = new
      BY <1>1 DEF Gate, Log!OpenIncident
    <3>2. now \in Nat
      BY DEF RegistryInv, RegistryProofs!IInv, RegistryProofs!TypeOK
    <3>3. <<[timestamp |-> now, message |-> "requested"]>> \in Seq(Log!IncidentEvent)
      <4>1. [timestamp |-> now, message |-> "requested"] \in Log!IncidentEvent
        BY <3>2 DEF Log!IncidentEvent
      <4>2. QED
        BY <4>1
    <3>4. [stt |-> 0, gate |-> 0, exec |-> None, total |-> None] \in Log!Waterfall
      BY DEF Log!Optional, Log!Waterfall
    <3>5. new \in Log!IncidentRecord
      BY <3>2, <3>3, <3>4 DEF Log!IncidentRecord, Log!Optional
    <3>6. QED
      BY <3>1, <3>5
  <2>4. QED
    BY <2>3, EndpointAssumption DEF EndpointAssumption, Log!Opened
<1>4. ASSUME NEW u \in Token, Undoable(u)
      PROVE  Undoable(u)' /\ u # t /\ records'[u] = records[u]
  <2>1. u # t /\ records'[u] = records[u]
    BY <1>1, <1>2, <1>4 DEF Undoable, Log!Resolved, Log!Opened
  <2>2. ASSUME NEW v \in Token, Log!Opened(v)', records'[v].linked_token = u
        PROVE  Log!Opened(v) /\ records[v].linked_token = u
    BY <1>2, <2>2, EndpointAssumption DEF EndpointAssumption, Log!Opened
  <2>3. QED
    BY <1>1, <1>4, <2>1, <2>2, UndoableKept
<1>5. \A i \in DOMAIN stack : stack[i].token \in Token
  BY <1>0, StackItems, EntriesTyped
<1>6. StackShape'
  BY <1>0, <1>1 DEF StackShape, Stack!StackTypeOK
<1>7. StackInv'
  <2>1. ASSUME NEW i \in DOMAIN stack
        PROVE  Undoable(stack[i].token)' /\ records'[stack[i].token] = records[stack[i].token]
    <3>1. PICK u \in Token : u = stack[i].token
      BY <1>5
    <3>2. Undoable(u)
      BY <1>0, <3>1 DEF StackInv
    <3>3. Undoable(u)' /\ records'[u] = records[u] /\ u = stack'[i].token
      BY <1>1, <1>4, <3>1, <3>2
    <3>4. QED
      BY <3>1, <3>3 DEF Undoable
  <2>2. QED
    BY <1>0, <1>1, <2>1 DEF StackInv
<1>8. SuspendedInv'
  BY <1>0, <1>1, <1>2, HandlersTyped DEF SuspendedInv, Log!Opened
<1>9. PoppedInv'
  <2> SUFFICES ASSUME NEW r \in Request, request[r] # None, request[r].entry # None
               PROVE  /\ Undoable(request[r].entry.token)'
                      /\ Bare(records'[request[r].token].command)
                      /\ \A i \in DOMAIN stack : stack[i].token # request[r].entry.token
                      /\ \A s \in Request \ {r} : request[s] # None /\ request[s].entry # None =>
                            request[s].entry.token # request[r].entry.token
    BY <1>1 DEF PoppedInv
  <2>1. PICK u \in Token : u = request[r].entry.token
    BY <1>0, HandlersTyped
  <2>2. Undoable(u) /\ Bare(records[request[r].token].command)
    BY <1>0, <2>1 DEF PoppedInv
  <2>3. Undoable(u)' /\ u = request'[r].entry.token
    BY <1>1, <1>4, <2>1, <2>2
  <2>4. request[r].token \in Token /\ Log!Opened(request[r].token)
    BY <1>0, HandlersTyped DEF SuspendedInv
  <2>5. records'[request[r].token] = records[request[r].token]
    BY <1>1, <1>2, <2>4 DEF Log!Opened
  <2>6. QED
    BY <1>0, <2>2, <2>3, <2>5 DEF PoppedInv, Undoable
<1>10. OffersOpened'
  <2>1. \A u \in Token \ {t} : pending'[u] # None => pending'[u] = pending[u]
    BY DEF Gate, Registry!Register, Registry!Pruned, Registry!Expired
  <2>2. pending'[t].command = command /\ pending'[t].mode = mode
    BY DEF Gate, Registry!Register, Registry!Pruned
  <2>3. QED
    BY <1>0, <1>2, <1>3, <2>1, <2>2 DEF OffersOpened, Log!Opened
<1>11. LinkedResolved'
  BY <1>0, <1>2 DEF LinkedResolved, Log!Opened, Log!Resolved
<1>12. RolledBackOnce'
  <2> SUFFICES ASSUME NEW v \in Token, Log!Opened(v)', records'[v].linked_token # None
               PROVE  LET x == records'[v].linked_token
                      IN  /\ \A u \in Token : Log!Opened(u)' /\ records'[u].linked_token = x => u = v
                          /\ Bare(records'[v].command)
                          /\ Log!Resolved(records[v].linked_token)' /\ records'[x].success
                          /\ ~Bare(records'[x].command)
                          /\ records'[x].resolved_at <= records'[v].resolved_at
    BY DEF RolledBackOnce
  <2>1. v # t /\ Log!Opened(v) /\ records'[v] = records[v]
    BY <1>2 DEF Log!Opened
  <2>2. PICK x \in Token : x = records[v].linked_token /\ x = records'[v].linked_token
    BY <2>1, LinksTyped
  <2>3. /\ \A u \in Token : Log!Opened(u) /\ records[u].linked_token = x => u = v
        /\ Bare(records[v].command) /\ Log!Resolved(x) /\ records[x].success
        /\ ~Bare(records[x].command) /\ records[x].resolved_at <= records[v].resolved_at
    BY <1>0, <2>1, <2>2, EndpointAssumption DEF EndpointAssumption, RolledBackOnce
  <2>4. x # t /\ records'[x] = records[x]
    BY <1>1, <1>2, <2>3 DEF Log!Resolved, Log!Opened
  <2>5. \A u \in Token : Log!Opened(u)' /\ records'[u].linked_token = x => u = v
    BY <1>2, <2>3, EndpointAssumption DEF EndpointAssumption, Log!Opened
  <2>6. Log!Resolved(records[v].linked_token)'
    BY <2>2, <2>3, <2>4 DEF Log!Resolved, Log!Opened
  <2>7. QED
    BY <2>1, <2>2, <2>3, <2>4, <2>5, <2>6
<1>13. QED
  BY <1>6, <1>7, <1>8, <1>9, <1>10, <1>11, <1>12 DEF MitigationInv

-----------------------------------------------------------------------------
(* What every handler gets from the store it redeems its token from.        *)

LEMMA Redemption ==
  ASSUME RegistryInv, NEW t \in Token, Registry!Redeem(t)
  PROVE  /\ \A u \in Token : grants[u] # <<>> => grants'[u] # <<>>
         /\ \A u \in Token : pending'[u] # None => pending'[u] = pending[u]
         /\ Redeemable(t) # None => Len(grants'[t]) > Len(grants[t]) /\ grants'[t] # <<>>
         /\ now' = now
<1>1. grants \in [Token -> Seq(Nat)] /\ now \in Nat
  BY DEF RegistryInv, RegistryProofs!IInv, RegistryProofs!TypeOK
<1>2. \A u \in Token : u # t => grants'[u] = grants[u]
  BY <1>1 DEF Registry!Redeem
<1>3. CASE Redeemable(t) = None
  <2>1. grants' = grants
    BY <1>3 DEF Registry!Redeem, Redeemable
  <2>2. QED
    BY <1>3, <2>1 DEF Registry!Redeem, Registry!Pruned
<1>4. CASE Redeemable(t) # None
  <2>1. grants'[t] = Append(grants[t], now)
    BY <1>1, <1>4 DEF Registry!Redeem, Redeemable
  <2>2. Len(grants'[t]) = Len(grants[t]) + 1 /\ grants[t] \in Seq(Nat)
    BY <1>1, <2>1
  <2>3. Len(grants'[t]) > Len(grants[t]) /\ grants'[t] # <<>>
    BY <2>2
  <2>4. QED
    BY <1>2, <2>3 DEF Registry!Redeem, Registry!Pruned
<1>5. QED
  BY <1>3, <1>4

(* The command a handler redeems is the one its incident was opened for,    *)
(* which nobody has resolved and no handler works on.                       *)
LEMMA RedeemedIncident ==
  ASSUME RegistryInv, LedgerInv, MitigationInv, NEW t \in Token, Redeemable(t) # None
  PROVE  /\ Redeemable(t) = pending[t] /\ pending[t] # None
         /\ Redeemable(t).command \in Command /\ Redeemable(t).mode \in Mode
         /\ Log!Opened(t) /\ ~Log!Resolved(t)
         /\ records[t].command = Redeemable(t).command /\ records[t].mode = Redeemable(t).mode
         /\ \A r \in Request : request[r] # None => request[r].token # t
<1>1. Redeemable(t) = pending[t] /\ pending[t] # None
  BY DEF Redeemable, Registry!Pruned
<1>2. pending[t] \in RegistryProofs!PendingConfirmation
  BY <1>1 DEF RegistryInv, RegistryProofs!IInv, RegistryProofs!TypeOK
<1>3. pending[t].command \in Command /\ pending[t].mode \in Mode
  BY <1>2 DEF RegistryProofs!PendingConfirmation
<1>4. Log!Opened(t) /\ records[t].command = pending[t].command /\ records[t].mode = pending[t].mode
  BY <1>1 DEF MitigationInv, OffersOpened
<1>5. ~Log!Resolved(t) /\ \A r \in Request : request[r] # None => request[r].token # t
  BY <1>1 DEF LedgerInv, PendingUnresolved, SuspendedUnresolved
<1>6. QED
  BY <1>1, <1>3, <1>4, <1>5

(* The handlers as they are: nobody among them has the entry on top. *)
LEMMA TopIsFree ==
  ASSUME MitigationInv, stack # <<>>, Stack!Pop
  PROVE  /\ Stack!Top \in Stack!MitigationEntry /\ Stack!Top.token \in Token
         /\ Stack!Top # None /\ Stack!Top.token # None
         /\ StackShape' /\ Len(stack') \in Nat /\ DOMAIN stack' = 1..Len(stack')
         /\ Keeps(Len(stack'), 0)
         /\ Undoable(Stack!Top.token)
         /\ \A i \in DOMAIN stack' : stack'[i].token # Stack!Top.token
         /\ \A r \in Request : request[r] # None /\ request[r].entry # None =>
               request[r].entry.token # Stack!Top.token
<1>0. StackShape /\ StackInv /\ PoppedInv
  BY DEF MitigationInv
<1>1. /\ StackShape' /\ Len(stack) \in DOMAIN stack
      /\ Stack!Top = stack[Len(stack)] /\ Stack!Top \in Stack!MitigationEntry
      /\ Len(stack') = Len(stack) - 1 /\ DOMAIN stack' = 1..Len(stack')
      /\ Keeps(Len(stack'), 0)
  BY <1>0, PopKeepsRest
<1>2. Len(stack) \in Nat /\ DOMAIN stack = 1..Len(stack)
  BY <1>0, StackItems
<1>3. Len(stack') \in Nat
  BY <1>1, <1>2
<1>4. Stack!Top.token \in Token /\ Stack!Top # None /\ Stack!Top.token # None
  BY <1>1, EntriesTyped, EndpointAssumption DEF EndpointAssumption
<1>5. \A i \in DOMAIN stack' : stack'[i].token # Stack!Top.token
  <2> SUFFICES ASSUME NEW i \in DOMAIN stack' PROVE stack'[i].token # Stack!Top.token
    OBVIOUS
  <2>1. i \in DOMAIN stack /\ i < Len(stack) /\ stack'[i] = stack[i]
    BY <1>1, <1>2 DEF Keeps
  <2>2. QED
    BY <1>0, <1>1, <2>1 DEF StackInv
<1>6. Undoable(Stack!Top.token)
  <2>1. PICK u \in Token : u = Stack!Top.token /\ u = stack[Len(stack)].token
    BY <1>1, <1>4
  <2>2. Undoable(u)
    BY <1>0, <1>1, <2>1 DEF StackInv
  <2>3. QED
    BY <2>1, <2>2
<1>7. \A r \in Request : request[r] # None /\ request[r].entry # None =>
               request[r].entry.token # Stack!Top.token
  BY <1>0, <1>1 DEF PoppedInv
<1>8. QED
  BY <1>1, <1>3, <1>4, <1>5, <1>6, <1>7

-----------------------------------------------------------------------------
(* The handlers, one by one: the synchronous ones, ... *)

LEMMA RollbackMitigation ==
  ASSUME RegistryInv, LedgerInv, LogInv, MitigationInv, NEW t \in Token, ConfirmRollback(t)
  PROVE  MitigationInv'
<1>0. StackShape /\ SuspendedInv
  BY DEF MitigationInv
<1>1. Redeemable(t) # None /\ Registry!Redeem(t) /\ Bare(Redeemable(t).command) /\ request' = request
  BY DEF ConfirmRollback, HostUntouched
<1>2. Log!Opened(t) /\ ~Log!Resolved(t) /\ Bare(records[t].command)
      /\ \A r \in Request : request[r] # None => request[r].token # t
  BY <1>1, RedeemedIncident
<1>3. /\ \A u \in Token : grants[u] # <<>> => grants'[u] # <<>>
      /\ \A u \in Token : pending'[u] # None => pending'[u] = pending[u]
  BY <1>1, Redemption
<1>4. request' \in [Request -> Suspended \cup {None}]
  BY <1>0, <1>1 DEF SuspendedInv
<1>5. CASE Stack!Top = None
  <2>1. Log!ResolveIncident(t, FALSE, None) /\ stack' = stack
    BY <1>5 DEF ConfirmRollback
  <2>2. Len(stack) \in Nat /\ DOMAIN stack' = 1..Len(stack) /\ StackShape' /\ Keeps(Len(stack), 0)
    BY <1>0, <2>1, StackItems DEF StackShape, Stack!StackTypeOK, Keeps
  <2>3. DOMAIN stack' = (IF FALSE THEN 1..Len(stack) + 1 ELSE 1..Len(stack))
    BY <2>2
  <2>4. QED
    BY <1>1, <1>2, <1>3, <1>4, <2>1, <2>2, <2>3, ResolvingMitigation
<1>6. CASE Stack!Top # None
  <2>1. Stack!Pop /\ stack # <<>>
    BY <1>6 DEF ConfirmRollback, Stack!Top
  <2>2. PICK success \in BOOLEAN : Log!ResolveIncident(t, success, Stack!Top.token)
    BY <1>6 DEF ConfirmRollback
  <2>3. PICK linked \in Token : linked = Stack!Top.token
    BY <2>1, TopIsFree
  <2>4. /\ StackShape' /\ Len(stack') \in Nat /\ DOMAIN stack' = 1..Len(stack')
        /\ Keeps(Len(stack'), 0) /\ linked # None
        /\ \A i \in DOMAIN stack' : stack'[i].token # linked
        /\ \A r \in Request : request[r] # None /\ request[r].entry # None =>
              request[r].entry.token # linked
    BY <2>1, <2>3, TopIsFree
  <2>5. Undoable(linked)
    <3>1. Undoable(Stack!Top.token)
      BY <2>1, TopIsFree
    <3>2. QED
      BY <2>3, <3>1
  <2>6. Log!ResolveIncident(t, success, linked)
    BY <2>2, <2>3
  <2>7. PICK n \in Nat : n = Len(stack') /\ Keeps(n, 0) /\ DOMAIN stack' = 1..n
    BY <2>4
  <2>8. DOMAIN stack' = (IF FALSE THEN 1..n + 1 ELSE 1..n)
    BY <2>7
  <2>9. QED
    BY <1>1, <1>2, <1>3, <1>4, <2>4, <2>5, <2>6, <2>7, <2>8, ResolvingMitigation
<1>7. QED
  BY <1>5, <1>6

LEMMA ClusterMitigation ==
  ASSUME RegistryInv, LedgerInv, LogInv, MitigationInv, pods \in [Pod -> Cluster!PodState],
         NEW t \in Token, ConfirmCluster(t)
  PROVE  MitigationInv'
<1>0. StackShape /\ SuspendedInv
  BY DEF MitigationInv
<1>1. /\ Redeemable(t) # None /\ Registry!Redeem(t) /\ Redeemable(t).mode = "K8S_CLUSTER"
      /\ Redeemable(t).command.name \in Pod /\ Log!ResolveIncident(t, TRUE, None) /\ request' = request
  BY DEF ConfirmCluster, HostUntouched
<1>2. /\ Log!Opened(t) /\ ~Log!Resolved(t)
      /\ records[t].command = Redeemable(t).command /\ records[t].mode = Redeemable(t).mode
      /\ \A r \in Request : request[r] # None => request[r].token # t
  BY <1>1, RedeemedIncident
<1>3. /\ \A u \in Token : grants[u] # <<>> => grants'[u] # <<>>
      /\ \A u \in Token : pending'[u] # None => pending'[u] = pending[u]
      /\ grants'[t] # <<>>
  BY <1>1, Redemption
<1>4. request' \in [Request -> Suspended \cup {None}]
  BY <1>0, <1>1 DEF SuspendedInv
<1>5. CASE Redeemable(t).command.intent = "ROLLBACK"
  <2>1. stack' = stack
    BY <1>5 DEF ConfirmCluster
  <2>2. Len(stack) \in Nat /\ DOMAIN stack' = 1..Len(stack) /\ StackShape' /\ Keeps(Len(stack), 0)
    BY <1>0, <2>1, StackItems DEF StackShape, Stack!StackTypeOK, Keeps
  <2>3. DOMAIN stack' = (IF FALSE THEN 1..Len(stack) + 1 ELSE 1..Len(stack))
    BY <2>2
  <2>4. QED
    BY <1>1, <1>2, <1>3, <1>4, <2>2, <2>3, ResolvingMitigation
<1>6. CASE Redeemable(t).command.intent # "ROLLBACK"
  <2> DEFINE p == Redeemable(t).command.name
             e == PodEntry(t, p, pods[p])
  <2>1. Stack!Push(e)
    BY <1>6 DEF ConfirmCluster
  <2>2. e \in Stack!MitigationEntry /\ e.token = t /\ e.mode = "K8S_CLUSTER"
    BY <1>1 DEF PodEntry, Stack!MitigationEntry, Mode
  <2> HIDE DEF e
  <2>3. /\ StackShape' /\ Len(stack') \in Nat \ {0}
        /\ DOMAIN stack' = 1..Len(stack') /\ stack'[Len(stack')] = e
        /\ \E d \in {0, 1} : Keeps(Len(stack') - 1, d)
    BY <1>0, <2>1, <2>2, PushKeepsRest
  <2>4. PICK d \in Nat : Keeps(Len(stack') - 1, d)
    BY <2>3
  <2>5. PICK n \in Nat : n = Len(stack') - 1 /\ Len(stack') = n + 1
    <3>1. Len(stack') \in Nat \ {0}
      BY <2>3
    <3>2. Len(stack') - 1 \in Nat /\ Len(stack') = (Len(stack') - 1) + 1
      BY ONLY <3>1
    <3>3. QED
      BY <3>2
  <2>6. /\ Keeps(n, d) /\ DOMAIN stack' = (IF TRUE THEN 1..n + 1 ELSE 1..n) /\ stack'[n + 1] = e
    BY <2>3, <2>4, <2>5
  <2>7. /\ stack'[n + 1].token = t /\ stack'[n + 1].mode = records[t].mode
        /\ records[t].command.intent # "ROLLBACK"
    BY <1>1, <1>2, <1>6, <2>2, <2>6
  <2>8. StackShape'
    BY <2>3
  <2>9. QED
    BY <1>1, <1>2, <1>3, <1>4, <2>6, <2>7, <2>8, ResolvingMitigation
<1>7. QED
  BY <1>5, <1>6

(* ... those that suspend, ... *)

LEMMA UnblockMitigation ==
  ASSUME RegistryInv, LedgerInv, MitigationInv,
         NEW t \in Token, NEW r \in Request, ConfirmUnblock(r, t)
  PROVE  MitigationInv'
<1>0. StackShape /\ SuspendedInv
  BY DEF MitigationInv
<1>1. /\ request[r] = None /\ Redeemable(t) # None /\ Registry!Redeem(t)
      /\ Bare(Redeemable(t).command) /\ Stack!Top # None /\ Stack!Pop /\ records' = records
      /\ request' = [request EXCEPT ![r] = [token |-> t, entry |-> Stack!Top]]
  BY DEF ConfirmUnblock
<1>2. Log!Opened(t) /\ Bare(records[t].command)
  BY <1>1, RedeemedIncident
<1>3. /\ \A u \in Token : grants[u] # <<>> => grants'[u] # <<>>
      /\ \A u \in Token : pending'[u] # None => pending'[u] = pending[u]
      /\ grants'[t] # <<>>
  BY <1>1, Redemption
<1>4. stack # <<>>
  BY <1>1 DEF Stack!Top
<1>5. /\ Stack!Top \in Stack!MitigationEntry /\ Stack!Top.token \in Token
      /\ Stack!Top # None
      /\ StackShape' /\ Len(stack') \in Nat /\ DOMAIN stack' = 1..Len(stack')
      /\ Keeps(Len(stack'), 0)
      /\ \A i \in DOMAIN stack' : stack'[i].token # Stack!Top.token
      /\ \A s \in Request : request[s] # None /\ request[s].entry # None =>
            request[s].entry.token # Stack!Top.token
  BY <1>1, <1>4, TopIsFree
<1>6. Undoable(Stack!Top.token)
  BY <1>1, <1>4, TopIsFree
<1>7. [token |-> t, entry |-> Stack!Top] \in Suspended
  BY <1>5 DEF Suspended
<1>8. /\ request' \in [Request -> Suspended \cup {None}]
      /\ request'[r].token = t /\ request'[r].entry = Stack!Top
      /\ \A s \in Request \ {r} : request'[s] = request[s]
  BY <1>0, <1>1, <1>7 DEF SuspendedInv
<1>9. ASSUME NEW s \in Request, request'[s] # None, request'[s] # request[s]
      PROVE  /\ grants'[request'[s].token] # <<>> /\ Log!Opened(request'[s].token)
             /\ request'[s].entry = None =>
                   /\ records[request'[s].token].mode = "HOST_LOCAL"
                   /\ records[request'[s].token].command.intent # "ROLLBACK"
             /\ request'[s].entry # None =>
                   /\ Undoable(request'[s].entry.token)
                   /\ Bare(records[request'[s].token].command)
                   /\ \A i \in DOMAIN stack' : stack'[i].token # request'[s].entry.token
                   /\ \A v \in Request \ {s} : request'[v] # None /\ request'[v].entry # None =>
                         request'[v].entry.token # request'[s].entry.token
  <2>1. s = r
    BY <1>8, <1>9
  <2>2. Log!Opened(request'[s].token)
    BY <1>2, <1>8, <2>1
  <2>3. Undoable(request'[s].entry.token)
    BY <1>6, <1>8, <2>1
  <2>4. QED
    BY <1>2, <1>3, <1>5, <1>8, <2>1, <2>2, <2>3
<1>10. PICK n \in Nat : n = Len(stack') /\ Keeps(n, 0) /\ DOMAIN stack' = 1..n
  BY <1>5
<1>11. QED
  BY <1>1, <1>3, <1>5, <1>8, <1>9, <1>10, StandingMitigation

LEMMA HostMitigation ==
  ASSUME RegistryInv, LedgerInv, MitigationInv,
         NEW t \in Token, NEW r \in Request, ConfirmHost(r, t)
  PROVE  MitigationInv'
<1>0. StackShape /\ SuspendedInv
  BY DEF MitigationInv
<1>1. /\ request[r] = None /\ Redeemable(t) # None /\ Registry!Redeem(t)
      /\ Redeemable(t).mode = "HOST_LOCAL" /\ Redeemable(t).command.intent # "ROLLBACK"
      /\ UNCHANGED <<records, stack>>
      /\ request' = [request EXCEPT ![r] = [token |-> t, entry |-> None]]
  BY DEF ConfirmHost, ForHost
<1>2. /\ Log!Opened(t) /\ records[t].mode = "HOST_LOCAL"
      /\ records[t].command.intent # "ROLLBACK"
  BY <1>1, RedeemedIncident
<1>3. /\ \A u \in Token : grants[u] # <<>> => grants'[u] # <<>>
      /\ \A u \in Token : pending'[u] # None => pending'[u] = pending[u]
      /\ grants'[t] # <<>>
  BY <1>1, Redemption
<1>4. Len(stack) \in Nat /\ DOMAIN stack' = 1..Len(stack) /\ StackShape' /\ Keeps(Len(stack), 0)
  BY <1>0, <1>1, StackItems DEF StackShape, Stack!StackTypeOK, Keeps
<1>5. [token |-> t, entry |-> None] \in Suspended
  BY DEF Suspended
<1>6. /\ request' \in [Request -> Suspended \cup {None}]
      /\ request'[r].token = t /\ request'[r].entry = None
      /\ \A s \in Request \ {r} : request'[s] = request[s]
  BY <1>0, <1>1, <1>5 DEF SuspendedInv
<1>7. ASSUME NEW s \in Request, request'[s] # None, request'[s] # request[s]
      PROVE  /\ grants'[request'[s].token] # <<>> /\ Log!Opened(request'[s].token)
             /\ records[request'[s].token].mode = "HOST_LOCAL"
             /\ records[request'[s].token].command.intent # "ROLLBACK"
             /\ request'[s].entry = None
  BY <1>2, <1>3, <1>6, <1>7 DEF Log!Opened
<1>8. QED
  BY <1>1, <1>3, <1>4, <1>6, <1>7, StandingMitigation

-----------------------------------------------------------------------------
(* ... and what they find when they resume. *)

(* A thread runs for a dry run, or for a suspended handler on exactly what  *)
(* its incident or the entry it popped asks for, from the submission to the *)
(* collection. A handler that wrote anything never waits for a dry run.     *)
ThreadsServe ==
    \A r \in Request :
        /\ worker[r].pc # "idle" /\ request[r] = None => worker[r].dry_run /\ worker[r].op # "unblock"
        /\ request[r] # None => ~worker[r].dry_run
        /\ request[r] # None /\ request[r].entry # None =>
              worker[r].op = "unblock" /\ worker[r].todo \subseteq request[r].entry.ips
        /\ request[r] # None /\ request[r].entry = None =>
              LET command == records[request[r].token].command
              IN  /\ worker[r].op = (IF command.intent = "PROCESS_KILL" THEN "terminate" ELSE "isolate")
                  /\ worker[r].pid = command.pid

LEMMA ThreadTyped ==
  ASSUME HostInv, NEW r \in Request
  PROVE  /\ worker = [s \in Request |-> worker[s]]
         /\ worker[r] \in HostProofs!Thread /\ worker[r].done \in SUBSET Ip
         /\ worker[r].outcome \in {"ok", "failed", "protected", "notfound"}
         /\ worker[r].pc # "idle" /\ worker[r].op # "unblock" => worker[r].pid \in Pid
<1>1. worker \in [Request -> HostProofs!Thread]
  BY DEF HostInv, HostProofs!HInv, HostProofs!HostTypeOK
<1>2. worker[r] \in HostProofs!Thread /\ worker = [s \in Request |-> worker[s]]
  BY <1>1
<1>3. /\ worker[r].done \in SUBSET Ip
      /\ worker[r].outcome \in {"ok", "failed", "protected", "notfound"}
  BY <1>2 DEF HostProofs!Thread, HostProofs!Outcome
<1>4. worker[r].pc # "idle" /\ worker[r].op # "unblock" => worker[r].pid \in Pid
  BY DEF HostInv, HostProofs!HInv, HostProofs!PhaseFits
<1>5. QED
  BY <1>2, <1>3, <1>4

LEMMA HostEntryTyped ==
  ASSUME HostInv, ThreadsServe, NEW r \in Request, NEW t \in Token,
         request[r] # None, request[r].entry = None, worker[r].pc # "idle"
  PROVE  LET e == HostEntry(t, worker[r])
         IN  e \in Stack!MitigationEntry /\ e.token = t /\ e.mode = "HOST_LOCAL"
             /\ e.kind # "cluster_pod"
<1>1. worker[r].pid \in Pid /\ worker[r].done \in SUBSET Ip
  BY ThreadTyped DEF ThreadsServe
<1>2. QED
  BY <1>1 DEF HostEntry, Stack!MitigationEntry, Mode

LEMMA FinishMitigation ==
  ASSUME LedgerInv, LogInv, HostInv, MitigationInv, ThreadsServe, NEW r \in Request, Finish(r)
  PROVE  MitigationInv'
<1>0. StackShape /\ SuspendedInv /\ PoppedInv
  BY DEF MitigationInv
<1> DEFINE entry == request[r].entry
<1>1. PICK t \in Token : t = request[r].token
  BY <1>0, HandlersTyped DEF Finish
<1>2. /\ request[r] # None /\ worker[r].pc = "returned"
      /\ request' = [request EXCEPT ![r] = None] /\ UNCHANGED <<pending, grants>>
  BY DEF Finish, Host!Collect, Host!Returned
<1>3. /\ grants[t] # <<>> /\ Log!Opened(t)
      /\ entry = None => records[t].mode = "HOST_LOCAL" /\ records[t].command.intent # "ROLLBACK"
  BY <1>0, <1>1, <1>2 DEF SuspendedInv, Log!Opened
<1>4. /\ ~Log!Resolved(t)
      /\ \A s \in Request : request[s] # None /\ s # r => request[s].token # t
  BY <1>1, <1>2 DEF LedgerInv, SuspendedUnresolved, HandlersDistinct, Log!Resolved, Log!Opened
<1>5. /\ request' \in [Request -> Suspended \cup {None}]
      /\ request'[r] = None /\ \A s \in Request \ {r} : request'[s] = request[s]
  BY <1>0, <1>2 DEF SuspendedInv
<1>6. \A s \in Request : request'[s] # None =>
         request'[s] = request[s] /\ request[s].token # t
  BY <1>4, <1>5
<1>7. stack' = stack => /\ Len(stack) \in Nat /\ DOMAIN stack' = 1..Len(stack) /\ StackShape'
                        /\ Keeps(Len(stack), 0) /\ DOMAIN stack' = DOMAIN stack
  BY <1>0, StackItems DEF StackShape, Stack!StackTypeOK, Keeps
<1>8. CASE UNCHANGED <<records, stack>>
  BY <1>2, <1>5, <1>6, <1>7, <1>8, StandingMitigation
<1>9. CASE entry = None /\ stack' # stack
  <2> DEFINE e == HostEntry(t, worker[r])
  <2>1. Log!ResolveIncident(t, TRUE, None) /\ Stack!Push(e)
    BY <1>1, <1>9 DEF Finish
  <2>2. e \in Stack!MitigationEntry /\ e.token = t /\ e.mode = "HOST_LOCAL"
    BY <1>2, <1>9, HostEntryTyped
  <2> HIDE DEF e
  <2>3. /\ StackShape' /\ Len(stack') \in Nat \ {0}
        /\ DOMAIN stack' = 1..Len(stack') /\ stack'[Len(stack')] = e
        /\ \E d \in {0, 1} : Keeps(Len(stack') - 1, d)
    BY <1>0, <2>1, <2>2, PushKeepsRest
  <2>4. PICK d \in Nat : Keeps(Len(stack') - 1, d)
    BY <2>3
  <2>5. PICK n \in Nat : n = Len(stack') - 1 /\ Len(stack') = n + 1
    <3>1. Len(stack') \in Nat \ {0}
      BY <2>3
    <3>2. Len(stack') - 1 \in Nat /\ Len(stack') = (Len(stack') - 1) + 1
      BY ONLY <3>1
    <3>3. QED
      BY <3>2
  <2>6. /\ Keeps(n, d) /\ DOMAIN stack' = (IF TRUE THEN 1..n + 1 ELSE 1..n) /\ stack'[n + 1] = e
    BY <2>3, <2>4, <2>5
  <2>7. /\ stack'[n + 1].token = t /\ stack'[n + 1].mode = records[t].mode
        /\ records[t].command.intent # "ROLLBACK"
    BY <1>3, <1>9, <2>2, <2>6
  <2>8. StackShape' /\ grants'[t] # <<>>
    BY <1>2, <1>3, <2>3
  <2>9. QED
    BY <1>2, <1>3, <1>4, <1>5, <1>6, <2>1, <2>6, <2>7, <2>8, ResolvingMitigation
<1>10. CASE stack' = stack /\ ~UNCHANGED records
  <2>1. PICK success \in BOOLEAN :
           Log!ResolveIncident(t, success, IF entry = None THEN None ELSE entry.token)
    BY <1>1, <1>10 DEF Finish
  <2>2. PICK linked \in Token \cup {None} : linked = IF entry = None THEN None ELSE entry.token
    BY <1>0, <1>2, HandlersTyped
  <2>3. DOMAIN stack' = (IF FALSE THEN 1..Len(stack) + 1 ELSE 1..Len(stack))
    BY <1>7, <1>10
  <2>4. ASSUME linked # None
        PROVE  /\ Undoable(linked) /\ Bare(records[t].command)
               /\ \A i \in DOMAIN stack' : stack'[i].token # linked
               /\ \A s \in Request : request'[s] # None /\ request'[s].entry # None =>
                     request'[s].entry.token # linked
    <3>1. entry # None /\ linked = entry.token
      BY <2>2, <2>4
    <3>2. Undoable(request[r].entry.token)
      BY <1>0, <1>2, <3>1 DEF PoppedInv
    <3>3. Undoable(linked)
      BY <3>1, <3>2
    <3>4. QED
      BY <1>0, <1>1, <1>2, <1>5, <1>10, <3>1, <3>3 DEF PoppedInv
  <2>5. /\ \A u \in Token : grants[u] # <<>> => grants'[u] # <<>>
        /\ \A u \in Token : pending'[u] # None => pending'[u] = pending[u]
    BY <1>2
  <2>6. Len(stack) \in Nat /\ StackShape' /\ Keeps(Len(stack), 0)
    BY <1>7, <1>10
  <2>7. request' \in [Request -> Suspended \cup {None}] /\ Log!Opened(t) /\ ~Log!Resolved(t)
    BY <1>3, <1>4, <1>5
  <2>8. QED
    BY <1>6, <2>1, <2>2, <2>3, <2>4, <2>5, <2>6, <2>7, ResolvingMitigation
<1>11. entry # None => stack' = stack
  BY DEF Finish
<1>12. QED
  BY <1>8, <1>9, <1>10, <1>11

-----------------------------------------------------------------------------
(* The threads keep to what they were submitted for. *)

LEMMA ThreadStepServes ==
  ASSUME HostInv, NEW r \in Request, Host!ThreadStep(r)
  PROVE  /\ worker[r].pc # "idle"
         /\ worker'[r].op = worker[r].op /\ worker'[r].pid = worker[r].pid
         /\ worker'[r].dry_run = worker[r].dry_run
         /\ worker[r].op = "unblock" => worker'[r].todo \subseteq worker[r].todo
         /\ \A s \in Request \ {r} : worker'[s] = worker[s]
<1> DEFINE Serving == /\ worker'[r].op = worker[r].op /\ worker'[r].pid = worker[r].pid
                      /\ worker'[r].dry_run = worker[r].dry_run
                      /\ worker[r].op = "unblock" => worker'[r].todo \subseteq worker[r].todo
                      /\ \A s \in Request \ {r} : worker'[s] = worker[s]
<1>0. worker = [s \in Request |-> worker[s]] /\ worker[r] \in HostProofs!Thread
  BY ThreadTyped
<1>1. worker[r] = [pc |-> worker[r].pc, op |-> worker[r].op, pid |-> worker[r].pid,
                   dry_run |-> worker[r].dry_run, proc |-> worker[r].proc, todo |-> worker[r].todo,
                   done |-> worker[r].done, outcome |-> worker[r].outcome]
  BY <1>0 DEF HostProofs!Thread
<1>2. ASSUME NEW pc, Host!Goto(r, pc) PROVE Serving
  BY <1>0, <1>1, <1>2 DEF Host!Goto
<1>3. ASSUME NEW outcome, Host!Return(r, outcome) PROVE Serving
  BY <1>0, <1>1, <1>3 DEF Host!Return
<1>4. ASSUME NEW ip, Host!Advance(r, ip) PROVE Serving
  BY <1>0, <1>1, <1>4 DEF Host!Advance
<1>5. ASSUME NEW proc, worker' = [worker EXCEPT ![r].pc = "inspect", ![r].proc = proc] PROVE Serving
  BY <1>0, <1>1, <1>5
<1>6. ASSUME NEW remote_ips, worker[r].pc = "connections",
             worker' = [worker EXCEPT ![r].pc = "block", ![r].todo = remote_ips]
      PROVE  Serving
  <2>1. worker[r].op # "unblock"
    BY <1>6 DEF HostInv, HostProofs!HInv, HostProofs!PhaseFits
  <2>2. QED
    BY <1>0, <1>1, <1>6, <2>1
<1> HIDE DEF Serving
<1>7. ASSUME Host!Open(r) \/ Host!Inspect(r) \/ Host!Connections(r) PROVE Serving
  BY <1>2, <1>3, <1>5, <1>6, <1>7 DEF Host!Open, Host!Inspect, Host!Passed, Host!Connections
<1>8. ASSUME Host!Terminate(r) \/ Host!Kill(r) \/ Host!WaitTimesOut(r) PROVE Serving
  BY <1>2, <1>3, <1>8 DEF Host!Terminate, Host!Kill, Host!WaitTimesOut, Host!Signal
<1>9. ASSUME Host!WaitReturns(r) \/ Host!KillWaitTimesOut(r) PROVE Serving
  BY <1>3, <1>9 DEF Host!WaitReturns, Host!KillWaitTimesOut
<1>10. ASSUME Host!Block(r) \/ Host!Unblock(r) PROVE Serving
  BY <1>3, <1>4, <1>10 DEF Host!Block, Host!Unblock
<1>11. Serving
  BY <1>7, <1>8, <1>9, <1>10 DEF Host!ThreadStep
<1>12. worker[r].pc # "idle"
  BY DEF Host!ThreadStep, Host!Open, Host!Inspect, Host!Connections, Host!Terminate, Host!Kill,
         Host!WaitReturns, Host!WaitTimesOut, Host!KillWaitTimesOut, Host!Block, Host!Unblock
<1>13. QED
  BY <1>11, <1>12 DEF Serving

(* An incident keeps the command it was opened for. *)
LEMMA CommandsFrozen ==
  ASSUME LedgerInv, LogInv, MitigationInv, [Next]_vars, NEW u \in Token, Log!Opened(u)
  PROVE  Log!Opened(u)' /\ records'[u].command = records[u].command
         /\ records'[u].mode = records[u].mode
<1>0. records = [v \in Token |-> records[v]] /\ SuspendedInv /\ StackShape
  BY DEF LedgerInv, Shapes, MitigationInv
<1>1. ASSUME NEW t \in Token, NEW success \in BOOLEAN, NEW linked \in Token \cup {None},
             Log!ResolveIncident(t, success, linked)
      PROVE  Log!Opened(u)' /\ records'[u].command = records[u].command
             /\ records'[u].mode = records[u].mode
  <2>1. CASE Log!Opened(t)
    BY <1>1, <2>1, Resolution DEF Log!Opened
  <2>2. CASE ~Log!Opened(t)
    BY <1>1, <2>2 DEF Log!ResolveIncident, Log!logVars, Log!Opened
  <2>3. QED
    BY <2>1, <2>2
<1>2. CASE UNCHANGED records
  BY <1>2 DEF Log!Opened
<1>3. ASSUME NEW t \in Token, NEW command \in Command, NEW mode \in Mode, Gate(t, command, mode)
      PROVE  Log!Opened(u)' /\ records'[u].command = records[u].command
             /\ records'[u].mode = records[u].mode
  <2>1. u # t
    BY <1>3 DEF Gate, Registry!Register, LedgerInv, IssuedBeforeOpened, Log!Opened
  <2>2. QED
    BY <1>0, <1>3, <2>1 DEF Gate, Log!OpenIncident, Log!Opened
<1>4. ASSUME NEW t \in Token, ConfirmRollback(t)
      PROVE  Log!Opened(u)' /\ records'[u].command = records[u].command
             /\ records'[u].mode = records[u].mode
  <2>1. CASE Stack!Top = None
    BY <1>1, <1>4, <2>1 DEF ConfirmRollback
  <2>2. CASE Stack!Top # None
    <3>1. Stack!Top.token \in Token
      BY <1>4, <2>2, TopIsFree DEF ConfirmRollback, Stack!Top
    <3>2. QED
      BY <1>1, <1>4, <2>2, <3>1 DEF ConfirmRollback
  <2>3. QED
    BY <2>1, <2>2
<1>5. ASSUME NEW t \in Token, ConfirmCluster(t)
      PROVE  Log!Opened(u)' /\ records'[u].command = records[u].command
             /\ records'[u].mode = records[u].mode
  BY <1>1, <1>5 DEF ConfirmCluster
<1>6. ASSUME NEW r \in Request, Finish(r)
      PROVE  Log!Opened(u)' /\ records'[u].command = records[u].command
             /\ records'[u].mode = records[u].mode
  <2>1. request[r].token \in Token
        /\ (IF request[r].entry = None THEN None ELSE request[r].entry.token) \in Token \cup {None}
    BY <1>0, <1>6, HandlersTyped DEF Finish
  <2>2. QED
    BY <1>1, <1>2, <1>6, <2>1 DEF Finish
<1>7. ASSUME NEW t \in Token, Confirm(t)
      PROVE  Log!Opened(u)' /\ records'[u].command = records[u].command
             /\ records'[u].mode = records[u].mode
  <2>1. CASE \/ ConfirmRefused(t)
             \/ \E r \in Request : ConfirmUnblock(r, t) \/ ConfirmHost(r, t)
    BY <1>2, <2>1 DEF ConfirmRefused, ConfirmUnblock, ConfirmHost
  <2>2. QED
    BY <1>4, <1>5, <1>7, <2>1 DEF Confirm
<1>8. QED
  <2>1. CASE Tick \/ PodTick \/ Outside \/ (\E r \in Request : Thread(r)) \/ UNCHANGED vars
             \/ (\E t \in Token : Preview(t)) \/ Previewing
    BY <1>2, <2>1, PreviewsWriteNothing DEF Tick, PodTick, Outside, Thread, Preview, vars
  <2>2. QED
    BY <1>3, <1>6, <1>7, <2>1 DEF Next, Previewing

(* A step in which no thread and no handler moves. *)
LEMMA ServingRests ==
  ASSUME ThreadsServe, LedgerInv, LogInv, MitigationInv, [Next]_vars, UNCHANGED <<worker, request>>
  PROVE  ThreadsServe'
<1>1. \A r \in Request : request[r] # None =>
         records'[request[r].token].command = records[request[r].token].command
  BY CommandsFrozen, HandlersTyped DEF MitigationInv, SuspendedInv, Log!Opened
<1>2. QED
  BY <1>1 DEF ThreadsServe

(* A step in which those of r do. *)
LEMMA ServingMoves ==
  ASSUME ThreadsServe, LedgerInv, LogInv, MitigationInv, [Next]_vars, NEW r \in Request,
         \A s \in Request \ {r} : worker'[s] = worker[s] /\ request'[s] = request[s],
         worker'[r].pc # "idle" /\ request'[r] = None => worker'[r].dry_run /\ worker'[r].op # "unblock",
         request'[r] # None => ~worker'[r].dry_run,
         request'[r] # None /\ request'[r].entry # None =>
            worker'[r].op = "unblock" /\ worker'[r].todo \subseteq request'[r].entry.ips,
         request'[r] # None /\ request'[r].entry = None =>
            LET command == records'[request'[r].token].command
            IN  /\ worker'[r].op = (IF command.intent = "PROCESS_KILL" THEN "terminate" ELSE "isolate")
                /\ worker'[r].pid = command.pid
  PROVE  ThreadsServe'
<1>1. \A s \in Request : request[s] # None =>
         records'[request[s].token].command = records[request[s].token].command
  BY CommandsFrozen, HandlersTyped DEF MitigationInv, SuspendedInv, Log!Opened
<1>2. QED
  BY <1>1 DEF ThreadsServe

LEMMA ThreadsServeInitially == Init => ThreadsServe
  BY DEF Init, Host!HostInit, Host!IdleThread, ThreadsServe

LEMMA SubmitServes ==
  ASSUME HostInv, NEW r \in Request, NEW op, NEW pid, NEW ips, NEW dry_run,
         Host!Submit(r, op, pid, ips, dry_run)
  PROVE  /\ worker'[r].op = op /\ worker'[r].pid = pid /\ worker'[r].todo = ips
         /\ worker'[r].dry_run = dry_run /\ worker'[r].done = {} /\ worker'[r].outcome = "ok"
         /\ \A s \in Request \ {r} : worker'[s] = worker[s]
<1> DEFINE first == IF op = "unblock" THEN "unblock" ELSE "open"
           thread == [Host!IdleThread EXCEPT !.pc = first, !.op = op, !.pid = pid, !.todo = ips,
                                             !.dry_run = dry_run]
<1>1. worker' = [worker EXCEPT ![r] = thread]
  BY DEF Host!Submit
<1> HIDE DEF first
<1>2. /\ thread.op = op /\ thread.pid = pid /\ thread.todo = ips /\ thread.dry_run = dry_run
      /\ thread.done = {} /\ thread.outcome = "ok"
  BY DEF Host!IdleThread
<1> HIDE DEF thread
<1>3. QED
  BY <1>1, <1>2, ThreadTyped

(* A call on the host, by a handler or for a dry run, is the one its        *)
(* command asks for.                                                        *)
LEMMA HostCall ==
  ASSUME RegistryInv, LedgerInv, HostInv, MitigationInv, NEW t \in Token, NEW r \in Request,
         NEW dry_run \in BOOLEAN, Redeemable(t) # None, ForHost(Redeemable(t)),
         Host!Submit(r, OpOf(Redeemable(t).command), Redeemable(t).command.pid, {}, dry_run)
  PROVE  HostInv'
<1>1. Redeemable(t).command \in ParsedCommand
  BY RedeemedIncident, EndpointAssumption DEF EndpointAssumption
<1>2. Redeemable(t).command.pid \in Pid
  BY <1>1 DEF ParsedCommand, ForHost
<1>3. OpOf(Redeemable(t).command) \in {"terminate", "isolate", "unblock"} /\ {} \in SUBSET Ip
  BY DEF OpOf
<1>4. QED
  BY <1>2, <1>3, HostSubmits

LEMMA ThreadsServeInductive ==
  ASSUME RegistryInv, LedgerInv, LogInv, HostInv, MitigationInv, ThreadsServe, [Next]_vars
  PROVE  ThreadsServe'
<1>0. request = [s \in Request |-> request[s]] /\ SuspendedInv
  BY DEF LedgerInv, Shapes, MitigationInv
<1>1. CASE UNCHANGED <<worker, request>>
  BY <1>1, ServingRests
<1>2. ASSUME NEW r \in Request, Thread(r)
      PROVE  ThreadsServe'
  <2>1. Host!ThreadStep(r) /\ UNCHANGED <<records, request>>
    BY <1>2 DEF Thread
  <2>2. /\ worker[r].pc # "idle"
        /\ worker'[r].op = worker[r].op /\ worker'[r].pid = worker[r].pid
        /\ worker'[r].dry_run = worker[r].dry_run
        /\ worker[r].op = "unblock" => worker'[r].todo \subseteq worker[r].todo
        /\ \A s \in Request \ {r} : worker'[s] = worker[s]
    BY <2>1, ThreadStepServes
  <2>3. QED
    <3>1. request[r] # None =>
             records'[request[r].token].command = records[request[r].token].command
      BY <2>1
    <3>2. QED
      BY <2>1, <2>2, <3>1, ServingMoves DEF ThreadsServe
<1>3. ASSUME NEW r \in Request, Finish(r)
      PROVE  ThreadsServe'
  <2>1. /\ request' = [request EXCEPT ![r] = None]
        /\ worker' = [worker EXCEPT ![r] = Host!IdleThread]
    BY <1>3 DEF Finish, Host!Collect
  <2>2. /\ request'[r] = None /\ worker'[r].pc = "idle"
        /\ \A s \in Request \ {r} : worker'[s] = worker[s] /\ request'[s] = request[s]
    BY <1>0, <2>1, ThreadTyped DEF Host!IdleThread
  <2>3. QED
    BY <2>2, ServingMoves
<1>4. ASSUME NEW t \in Token, NEW r \in Request, ConfirmUnblock(r, t)
      PROVE  ThreadsServe'
  <2>1. /\ Host!Submit(r, "unblock", None, Stack!Top.ips, FALSE) /\ Stack!Top # None
        /\ request' = [request EXCEPT ![r] = [token |-> t, entry |-> Stack!Top]]
    BY <1>4 DEF ConfirmUnblock
  <2>2. /\ request'[r] = [token |-> t, entry |-> Stack!Top]
        /\ \A s \in Request \ {r} : request'[s] = request[s]
    BY <1>0, <2>1
  <2>3. /\ worker'[r].op = "unblock" /\ worker'[r].todo = Stack!Top.ips /\ ~worker'[r].dry_run
        /\ \A s \in Request \ {r} : worker'[s] = worker[s]
    <3> DEFINE op == "unblock"
               ips == Stack!Top.ips
    <3>1. Host!Submit(r, op, None, ips, FALSE)
      BY <2>1
    <3> HIDE DEF op, ips
    <3>2. /\ worker'[r].op = op /\ worker'[r].todo = ips /\ worker'[r].dry_run = FALSE
          /\ \A s \in Request \ {r} : worker'[s] = worker[s]
      BY <3>1, SubmitServes, Zenon
    <3>3. QED
      BY <3>2 DEF op, ips
  <2>4. request'[r] # None
    <3>1. Stack!Top \in Stack!MitigationEntry
      BY <1>4, TopIsFree DEF ConfirmUnblock, Stack!Top
    <3>2. request'[r] \in Suspended
      BY <2>2, <3>1 DEF Suspended
    <3>3. QED
      BY <3>2, EndpointAssumption DEF EndpointAssumption
  <2>5. QED
    BY <2>1, <2>2, <2>3, <2>4, ServingMoves
<1>5. ASSUME NEW t \in Token, NEW r \in Request, ConfirmHost(r, t)
      PROVE  ThreadsServe'
  <2> DEFINE command == Redeemable(t).command
             op == OpOf(command)
  <2>1. /\ Host!Submit(r, op, command.pid, {}, FALSE) /\ Redeemable(t) # None
        /\ request' = [request EXCEPT ![r] = [token |-> t, entry |-> None]] /\ UNCHANGED records
    BY <1>5 DEF ConfirmHost
  <2> HIDE DEF command, op
  <2>2. /\ request'[r] = [token |-> t, entry |-> None]
        /\ \A s \in Request \ {r} : request'[s] = request[s]
    BY <1>0, <2>1
  <2>3. /\ worker'[r].op = op /\ worker'[r].pid = command.pid /\ ~worker'[r].dry_run
        /\ \A s \in Request \ {r} : worker'[s] = worker[s]
    <3>1. /\ worker'[r].op = op /\ worker'[r].pid = command.pid
          /\ worker'[r].dry_run = FALSE
          /\ \A s \in Request \ {r} : worker'[s] = worker[s]
      BY <2>1, SubmitServes, Zenon
    <3>2. QED
      BY <3>1
  <2>4. records'[t].command = command
    BY <2>1, RedeemedIncident DEF command
  <2>5. request'[r] # None
    <3>1. request'[r] \in Suspended
      BY <2>2 DEF Suspended
    <3>2. QED
      BY <3>1, EndpointAssumption DEF EndpointAssumption
  <2>6. QED
    BY <2>2, <2>3, <2>4, <2>5, ServingMoves DEF op, OpOf
<1>6. ASSUME NEW t \in Token, NEW r \in Request, PreviewHost(r, t)
      PROVE  ThreadsServe'
  <2>1. /\ Host!Submit(r, OpOf(Redeemable(t).command), Redeemable(t).command.pid, {}, TRUE)
        /\ request[r] = None /\ UNCHANGED request
    BY <1>6 DEF PreviewHost
  <2>2. /\ worker'[r].op = OpOf(Redeemable(t).command) /\ worker'[r].dry_run
        /\ \A s \in Request \ {r} : worker'[s] = worker[s]
    BY <2>1, SubmitServes
  <2>3. OpOf(Redeemable(t).command) # "unblock"
    BY DEF OpOf
  <2>4. QED
    BY <2>1, <2>2, <2>3, ServingMoves
<1>7. ASSUME NEW r \in Request, FinishPreview(r)
      PROVE  ThreadsServe'
  <2>1. /\ request[r] = None /\ UNCHANGED request
        /\ worker' = [worker EXCEPT ![r] = Host!IdleThread]
    BY <1>7 DEF FinishPreview, Host!Collect
  <2>2. /\ worker'[r].pc = "idle" /\ \A s \in Request \ {r} : worker'[s] = worker[s]
    BY <2>1, ThreadTyped DEF Host!IdleThread
  <2>3. QED
    BY <2>1, <2>2, ServingMoves
<1>8. QED
  <2>1. CASE \/ Tick \/ PodTick \/ Outside \/ UNCHANGED vars
             \/ \E t \in Token :
                   \/ \E command \in Command, mode \in Mode : Gate(t, command, mode)
                   \/ Preview(t) \/ ConfirmRefused(t) \/ ConfirmRollback(t) \/ ConfirmCluster(t)
    BY <1>1, <2>1 DEF Tick, PodTick, Outside, Host!OutsideStep, Host!ProcessExit, Host!ProcessStart,
                      Host!ManualRemoval, vars, Gate, Preview, ConfirmRefused, ConfirmRollback,
                      ConfirmCluster, HostUntouched
  <2>2. QED
    BY <1>2, <1>3, <1>4, <1>5, <1>6, <1>7, <2>1 DEF Next, Confirm

-----------------------------------------------------------------------------
(* The parts of the service, in the service. *)

LEMMA HostInvInductive ==
  ASSUME RegistryInv, LedgerInv, HostInv, MitigationInv, [Next]_vars
  PROVE  HostInv'
<1>1. CASE UNCHANGED <<procs, births, signalled, rules, worker>>
  BY <1>1, HostRests
<1>2. ASSUME NEW r \in Request, Thread(r) PROVE HostInv'
  BY <1>2, HostThreadMoves DEF Thread
<1>3. ASSUME NEW r \in Request, Finish(r) PROVE HostInv'
  BY <1>3, HostCollects DEF Finish
<1>4. CASE Outside
  BY <1>4, HostSurroundings DEF Outside
<1>5. ASSUME NEW t \in Token, NEW r \in Request, ConfirmUnblock(r, t) PROVE HostInv'
  <2>1. Stack!Top \in Stack!MitigationEntry
    BY <1>5, TopIsFree DEF ConfirmUnblock, Stack!Top
  <2>2. Stack!Top.ips \in SUBSET Ip
    BY <2>1 DEF Stack!MitigationEntry
  <2>3. Host!Submit(r, "unblock", None, Stack!Top.ips, FALSE)
    BY <1>5 DEF ConfirmUnblock
  <2>4. QED
    BY <2>2, <2>3, HostSubmits
<1>6. ASSUME NEW t \in Token, NEW r \in Request, ConfirmHost(r, t) \/ PreviewHost(r, t)
      PROVE  HostInv'
  <2>1. PICK dry_run \in BOOLEAN :
           Host!Submit(r, OpOf(Redeemable(t).command), Redeemable(t).command.pid, {}, dry_run)
    BY <1>6 DEF ConfirmHost, PreviewHost
  <2>2. QED
    BY <1>6, <2>1, HostCall DEF ConfirmHost, PreviewHost
<1>7. ASSUME NEW r \in Request, FinishPreview(r) PROVE HostInv'
  BY <1>7, HostCollects DEF FinishPreview
<1>8. QED
  <2>1. CASE \/ Tick \/ PodTick \/ UNCHANGED vars
             \/ \E t \in Token :
                   \/ \E command \in Command, mode \in Mode : Gate(t, command, mode)
                   \/ Preview(t) \/ ConfirmRefused(t) \/ ConfirmRollback(t) \/ ConfirmCluster(t)
    BY <1>1, <2>1 DEF Tick, PodTick, vars, Gate, Preview, ConfirmRefused, ConfirmRollback,
                      ConfirmCluster, HostUntouched
  <2>2. QED
    BY <1>2, <1>3, <1>4, <1>5, <1>6, <1>7, <2>1 DEF Next, Confirm

LEMMA LogInvInductive ==
  ASSUME RegistryInv, LedgerInv, LogInv, MitigationInv, [Next]_vars
  PROVE  LogInv'
<1>0. StackShape /\ SuspendedInv
  BY DEF MitigationInv
<1>1. CASE UNCHANGED <<now, records, order, latest>>
  BY <1>1, LogRests
<1>2. CASE Tick
  BY <1>2, LogTicks DEF Tick
<1>3. ASSUME NEW t \in Token, NEW command \in Command, NEW mode \in Mode, Gate(t, command, mode)
      PROVE  LogInv'
  <2>1. [stt |-> 0, gate |-> 0, exec |-> None, total |-> None] \in Log!Optional(Log!Waterfall)
    BY DEF Log!Optional, Log!Waterfall
  <2>2. records[t] = None
    BY <1>3 DEF Gate, Registry!Register, LedgerInv, IssuedBeforeOpened
  <2>3. QED
    BY <1>3, <2>1, <2>2, LogOpens DEF Gate
<1>4. ASSUME NEW t \in Token, ConfirmRollback(t)
      PROVE  LogInv'
  <2>1. Log!Opened(t) /\ ~Log!Resolved(t)
    BY <1>4, RedeemedIncident DEF ConfirmRollback
  <2>2. CASE Stack!Top = None
    BY <1>4, <2>1, <2>2, LogResolves DEF ConfirmRollback
  <2>3. CASE Stack!Top # None
    <3>1. Stack!Top.token \in Token
      BY <1>4, <2>3, TopIsFree DEF ConfirmRollback, Stack!Top
    <3>2. PICK success \in BOOLEAN : Log!ResolveIncident(t, success, Stack!Top.token)
      BY <1>4, <2>3 DEF ConfirmRollback
    <3>3. QED
      BY <2>1, <3>1, <3>2, LogResolves
  <2>4. QED
    BY <2>2, <2>3
<1>5. ASSUME NEW t \in Token, ConfirmCluster(t)
      PROVE  LogInv'
  BY <1>5, RedeemedIncident, LogResolves DEF ConfirmCluster
<1>6. ASSUME NEW r \in Request, Finish(r)
      PROVE  LogInv'
  <2>1. CASE UNCHANGED <<now, records, order, latest>>
    BY <2>1, LogRests
  <2>2. PICK t \in Token : t = request[r].token
    BY <1>0, <1>6, HandlersTyped DEF Finish
  <2>3. Log!Opened(t) /\ ~Log!Resolved(t)
    BY <1>0, <1>6, <2>2
       DEF Finish, SuspendedInv, LedgerInv, SuspendedUnresolved, Log!Resolved, Log!Opened
  <2>4. PICK linked \in Token \cup {None} :
           linked = IF request[r].entry = None THEN None ELSE request[r].entry.token
    BY <1>0, <1>6, HandlersTyped DEF Finish
  <2>5. CASE \E success \in BOOLEAN : Log!ResolveIncident(t, success, linked)
    BY <2>3, <2>5, LogResolves
  <2>6. QED
    BY <1>6, <2>1, <2>2, <2>4, <2>5 DEF Finish
<1>7. QED
  <2>1. CASE PodTick \/ Outside \/ (\E r \in Request : Thread(r)) \/ UNCHANGED vars
    BY <1>1, <2>1 DEF PodTick, Outside, Thread, vars
  <2>2. ASSUME NEW t \in Token, Preview(t) \/ ConfirmRefused(t) PROVE LogInv'
    BY <1>1, <2>2 DEF Preview, Registry!Peek, ConfirmRefused, Registry!Redeem
  <2>3. ASSUME NEW t \in Token, NEW r \in Request, ConfirmUnblock(r, t) \/ ConfirmHost(r, t)
        PROVE  LogInv'
    BY <1>1, <2>3 DEF ConfirmUnblock, ConfirmHost, Registry!Redeem
  <2>4. CASE Previewing
    BY <1>1, <2>4, PreviewsWriteNothing
  <2>5. QED
    BY <1>2, <1>3, <1>4, <1>5, <1>6, <2>1, <2>2, <2>3, <2>4 DEF Next, Confirm, Previewing

LEMMA MitigationInvInductive ==
  ASSUME RegistryInv, LedgerInv, LogInv, HostInv, MitigationInv, ThreadsServe,
         pods \in [Pod -> Cluster!PodState], [Next]_vars
  PROVE  MitigationInv'
<1>1. CASE \/ Tick \/ PodTick \/ Outside \/ (\E r \in Request : Thread(r)) \/ UNCHANGED vars
           \/ (\E t \in Token : Preview(t)) \/ Previewing
  <2>1. UNCHANGED <<grants, records, stack, request>>
    BY <1>1, PreviewsWriteNothing
       DEF Tick, Registry!Tick, PodTick, Outside, Thread, vars, Preview, Registry!Peek
  <2>2. \A u \in Token : pending'[u] # None => pending'[u] = pending[u]
    BY <1>1, PreviewsWriteNothing
       DEF Tick, Registry!Tick, PodTick, Outside, Thread, vars, Preview, Registry!Peek,
           Registry!Pruned
  <2>3. QED
    BY <2>1, <2>2, QuietMitigation
<1>2. ASSUME NEW t \in Token, ConfirmRefused(t)
      PROVE  MitigationInv'
  <2>1. Registry!Redeem(t) /\ UNCHANGED <<records, stack, request>>
    BY <1>2 DEF ConfirmRefused, HostUntouched
  <2>2. QED
    BY <2>1, Redemption, QuietMitigation
<1>3. ASSUME NEW t \in Token, Confirm(t)
      PROVE  MitigationInv'
  BY <1>2, <1>3, RollbackMitigation, ClusterMitigation, UnblockMitigation, HostMitigation DEF Confirm
<1>4. ASSUME NEW t \in Token, NEW command \in Command, NEW mode \in Mode, Gate(t, command, mode)
      PROVE  MitigationInv'
  BY <1>4, GateMitigation
<1>5. ASSUME NEW r \in Request, Finish(r)
      PROVE  MitigationInv'
  BY <1>5, FinishMitigation
<1>6. QED
  BY <1>1, <1>3, <1>4, <1>5 DEF Next, Previewing

-----------------------------------------------------------------------------
(* The pods and the snapshots of them on the stack. *)

SnapshotInv ==
    /\ pods \in [Pod -> Cluster!PodState]
    /\ \A i \in DOMAIN stack : stack[i].kind = "cluster_pod" =>
          stack[i].target \in Pod /\ stack[i].snapshot \in Cluster!PodState
    /\ SnapshotsNested

LEMMA SnapshotInvInitially == Init => SnapshotInv
<1> SUFFICES ASSUME Init PROVE SnapshotInv
  OBVIOUS
<1>1. pods \in [Pod -> Cluster!PodState]
  BY DEF Init, Cluster!ClusterInit, Cluster!PodState
<1>2. stack = <<>> /\ DOMAIN stack = {}
  BY DEF Init, Stack!StackInit
<1>3. QED
  BY <1>1, <1>2 DEF SnapshotInv, SnapshotsNested

(* It is enough that the entries kept are not above their pod, and that an  *)
(* entry for a pod on top is a snapshot of it as it was, no later than now. *)
LEMMA SnapshotsKept ==
  ASSUME SnapshotInv, StackShape, pods' \in [Pod -> Cluster!PodState],
         NEW onTop \in BOOLEAN, NEW n \in Nat, NEW d \in Nat, Keeps(n, d),
         DOMAIN stack' = (IF onTop THEN 1..n + 1 ELSE 1..n),
         \A i \in 1..n : stack'[i].kind = "cluster_pod" =>
            stack'[i].snapshot.restarts <= pods'[stack'[i].target].restarts,
         onTop /\ stack'[n + 1].kind = "cluster_pod" =>
            LET p == stack'[n + 1].target
            IN  p \in Pod /\ stack'[n + 1].snapshot = pods[p] /\ pods[p].restarts <= pods'[p].restarts
  PROVE  SnapshotInv'
<1>1. ASSUME NEW i \in 1..n
      PROVE  i + d \in DOMAIN stack /\ stack'[i] = stack[i + d] /\ i \in DOMAIN stack'
  BY DEF Keeps
<1>2. ASSUME NEW i \in DOMAIN stack', stack'[i].kind = "cluster_pod"
      PROVE  /\ stack'[i].target \in Pod /\ stack'[i].snapshot \in Cluster!PodState
             /\ stack'[i].snapshot.restarts <= pods'[stack'[i].target].restarts
  <2>1. CASE i \in 1..n
    BY <1>1, <1>2, <2>1 DEF SnapshotInv
  <2>2. CASE onTop /\ i = n + 1
    BY <1>2, <2>2 DEF SnapshotInv
  <2>3. QED
    BY <2>1, <2>2
<1>3. ASSUME NEW i \in DOMAIN stack', NEW j \in DOMAIN stack', i < j,
             stack'[i].kind = "cluster_pod", stack'[j].kind = "cluster_pod",
             stack'[j].target = stack'[i].target
      PROVE  stack'[i].snapshot.restarts <= stack'[j].snapshot.restarts
  <2>1. i \in 1..n /\ i + d \in DOMAIN stack /\ stack'[i] = stack[i + d]
    BY <1>1, <1>3
  <2>2. CASE j \in 1..n
    <3>1. j + d \in DOMAIN stack /\ stack'[j] = stack[j + d] /\ i + d < j + d
      BY <1>1, <1>3, <2>1, <2>2
    <3>2. QED
      BY <1>3, <2>1, <3>1 DEF SnapshotInv, SnapshotsNested
  <2>3. CASE onTop /\ j = n + 1
    <3>1. stack[i + d].snapshot.restarts <= pods[stack[i + d].target].restarts
      BY <1>3, <2>1 DEF SnapshotInv, SnapshotsNested
    <3>2. QED
      BY <1>3, <2>1, <2>3, <3>1
  <2>4. QED
    BY <2>2, <2>3
<1>4. SnapshotsNested'
  BY <1>2, <1>3 DEF SnapshotsNested
<1>5. QED
  BY <1>2, <1>4 DEF SnapshotInv

(* A step that leaves the stack alone and takes no restart back. *)
LEMMA SnapshotsRest ==
  ASSUME SnapshotInv, StackShape, pods' \in [Pod -> Cluster!PodState], stack' = stack,
         \A p \in Pod : pods[p].restarts <= pods'[p].restarts
  PROVE  SnapshotInv'
<1>1. Len(stack) \in Nat /\ DOMAIN stack = 1..Len(stack)
  BY StackItems
<1>2. Keeps(Len(stack), 0) /\ DOMAIN stack' = (IF FALSE THEN 1..Len(stack) + 1 ELSE 1..Len(stack))
  BY <1>1 DEF Keeps
<1>3. ASSUME NEW i \in 1..Len(stack), stack'[i].kind = "cluster_pod"
      PROVE  stack'[i].snapshot.restarts <= pods'[stack'[i].target].restarts
  <2>1. PICK p \in Pod : p = stack[i].target /\ stack[i].snapshot \in Cluster!PodState
    BY <1>1, <1>3 DEF SnapshotInv
  <2>2. stack[i].snapshot.restarts <= pods[p].restarts /\ pods[p].restarts <= pods'[p].restarts
    BY <1>1, <1>3, <2>1 DEF SnapshotInv, SnapshotsNested
  <2>3. /\ stack[i].snapshot.restarts \in Nat
        /\ pods[p].restarts \in Nat /\ pods'[p].restarts \in Nat
    BY <2>1 DEF SnapshotInv, Cluster!PodState
  <2>4. QED
    BY <2>1, <2>2, <2>3
<1>4. QED
  BY <1>1, <1>2, <1>3, SnapshotsKept

LEMMA RestartTyped ==
  ASSUME SnapshotInv, NEW p \in Pod, NEW intent, Cluster!ClusterExecute(p, intent)
  PROVE  /\ pods' \in [Pod -> Cluster!PodState]
         /\ \A q \in Pod : pods[q].restarts <= pods'[q].restarts
         /\ \A q \in Pod \ {p} : pods'[q] = pods[q]
<1>1. pods \in [Pod -> Cluster!PodState] /\ \A q \in Pod : pods[q].restarts \in Nat
  BY DEF SnapshotInv, Cluster!PodState
<1>2. Cluster!AfterRestart(p) \in Cluster!PodState
      /\ Cluster!AfterRestart(p).restarts = pods[p].restarts + 1
  <2>1. pods[p] \in Cluster!PodState
    BY <1>1
  <2>2. pods[p].restarts + 1 \in Nat
    BY <1>1
  <2>3. QED
    BY <2>1, <2>2 DEF Cluster!AfterRestart, Cluster!PodState
<1>3. QED
  BY <1>1, <1>2 DEF Cluster!ClusterExecute

LEMMA WanderingTyped ==
  ASSUME SnapshotInv, Cluster!PodTick
  PROVE  /\ pods' \in [Pod -> Cluster!PodState]
         /\ \A p \in Pod : pods'[p].restarts = pods[p].restarts /\ pods'[p].anomaly = pods[p].anomaly
<1>1. PICK saturated \in SUBSET Pod :
         pods' = [p \in Pod |->
               [pods[p] EXCEPT !.memory = IF p \in saturated THEN "saturated" ELSE "normal"]]
  BY DEF Cluster!PodTick
<1>2. ASSUME NEW p \in Pod
      PROVE  /\ pods'[p] \in Cluster!PodState
             /\ pods'[p].restarts = pods[p].restarts /\ pods'[p].anomaly = pods[p].anomaly
  <2> DEFINE memory == IF p \in saturated THEN "saturated" ELSE "normal"
  <2>1. pods[p] \in Cluster!PodState /\ memory \in {"normal", "saturated"}
    BY DEF SnapshotInv
  <2>2. pods'[p] = [pods[p] EXCEPT !.memory = memory]
    BY <1>1
  <2> HIDE DEF memory
  <2>3. QED
    BY <2>1, <2>2 DEF Cluster!PodState
<1>3. QED
  BY <1>1, <1>2

(* rollback_last takes the newest entry, and its pod back to the snapshot. *)
LEMMA RollbackSnapshots ==
  ASSUME MitigationInv, SnapshotInv, NEW t \in Token, ConfirmRollback(t), Stack!Top # None
  PROVE  SnapshotInv'
<1>1. Stack!Pop /\ stack # <<>> /\ StackShape
  BY DEF ConfirmRollback, Stack!Top, MitigationInv
<1>2. /\ Len(stack) \in DOMAIN stack /\ Stack!Top = stack[Len(stack)]
      /\ Len(stack') = Len(stack) - 1 /\ DOMAIN stack' = 1..Len(stack')
      /\ Keeps(Len(stack'), 0)
  BY <1>1, PopKeepsRest
<1>3. Len(stack) \in Nat \ {0} /\ DOMAIN stack = 1..Len(stack) /\ Len(stack') \in Nat
  <2>1. Len(stack) \in Nat /\ DOMAIN stack = 1..Len(stack)
    BY <1>1, StackItems
  <2>2. QED
    BY <1>2, <2>1
<1>4. ASSUME NEW i \in 1..Len(stack')
      PROVE  i \in DOMAIN stack /\ i < Len(stack) /\ stack'[i] = stack[i]
  BY <1>2, <1>3 DEF Keeps
<1>5. /\ pods' \in [Pod -> Cluster!PodState]
      /\ \A i \in 1..Len(stack') : stack'[i].kind = "cluster_pod" =>
            stack'[i].snapshot.restarts <= pods'[stack'[i].target].restarts
  <2>1. CASE pods' = pods
    BY <1>4, <2>1 DEF SnapshotInv, SnapshotsNested
  <2>2. CASE Stack!Top.kind = "cluster_pod"
    <3>1. PICK p \in Pod : p = Stack!Top.target /\ p = stack[Len(stack)].target
      BY <1>2, <2>2 DEF SnapshotInv
    <3>2. /\ Stack!Top.snapshot \in Cluster!PodState /\ Stack!Top.snapshot = stack[Len(stack)].snapshot
          /\ Stack!Top.snapshot # None
      BY <1>2, <2>2, EndpointAssumption DEF EndpointAssumption, SnapshotInv
    <3>3. Cluster!RestorePod(p, Stack!Top.snapshot)
      BY <2>2, <3>1 DEF ConfirmRollback
    <3>4. pods' = [pods EXCEPT ![p] = Stack!Top.snapshot]
      BY <3>2, <3>3 DEF Cluster!RestorePod
    <3>5. pods' \in [Pod -> Cluster!PodState]
      BY <3>2, <3>4 DEF SnapshotInv
    <3>6. ASSUME NEW i \in 1..Len(stack'), stack'[i].kind = "cluster_pod"
          PROVE  stack'[i].snapshot.restarts <= pods'[stack'[i].target].restarts
      <4>1. stack'[i].target \in Pod
        BY <1>4, <3>6 DEF SnapshotInv
      <4>2. CASE stack'[i].target = p
        BY <1>2, <1>4, <2>2, <3>1, <3>2, <3>4, <3>6, <4>2 DEF SnapshotInv, SnapshotsNested
      <4>3. CASE stack'[i].target # p
        BY <1>4, <3>4, <3>6, <4>1, <4>3 DEF SnapshotInv, SnapshotsNested
      <4>4. QED
        BY <4>2, <4>3
    <3>7. QED
      BY <3>5, <3>6
  <2>3. QED
    BY <2>1, <2>2 DEF ConfirmRollback
<1>6. PICK n \in Nat : n = Len(stack') /\ Keeps(n, 0) /\ DOMAIN stack' = 1..n
  BY <1>2, <1>3
<1>7. DOMAIN stack' = (IF FALSE THEN 1..n + 1 ELSE 1..n)
  BY <1>6
<1>8. QED
  BY <1>1, <1>5, <1>6, <1>7, SnapshotsKept

LEMMA ClusterSnapshots ==
  ASSUME RegistryInv, LedgerInv, MitigationInv, SnapshotInv, NEW t \in Token, ConfirmCluster(t)
  PROVE  SnapshotInv'
<1> DEFINE p == Redeemable(t).command.name
           e == PodEntry(t, p, pods[p])
<1>1. p \in Pod /\ Cluster!ClusterExecute(p, Redeemable(t).command.intent) /\ StackShape
  BY DEF ConfirmCluster, MitigationInv
<1>2. /\ pods' \in [Pod -> Cluster!PodState]
      /\ \A q \in Pod : pods[q].restarts <= pods'[q].restarts
  BY <1>1, RestartTyped
<1>3. CASE stack' = stack
  BY <1>1, <1>2, <1>3, SnapshotsRest
<1>4. CASE Stack!Push(e)
  <2>1. /\ e \in Stack!MitigationEntry /\ e.kind = "cluster_pod"
        /\ e.target = p /\ e.snapshot = pods[p]
    BY <1>1 DEF SnapshotInv, PodEntry, Stack!MitigationEntry, Mode
  <2> HIDE DEF e, p
  <2>2. /\ Len(stack') \in Nat \ {0}
        /\ DOMAIN stack' = 1..Len(stack') /\ stack'[Len(stack')] = e
        /\ \E d \in {0, 1} : Keeps(Len(stack') - 1, d)
    BY <1>1, <1>4, <2>1, PushKeepsRest
  <2>3. PICK d \in Nat : Keeps(Len(stack') - 1, d)
    BY <2>2
  <2>4. PICK n \in Nat : n = Len(stack') - 1 /\ Len(stack') = n + 1
    <3>1. Len(stack') \in Nat \ {0}
      BY <2>2
    <3>2. Len(stack') - 1 \in Nat /\ Len(stack') = (Len(stack') - 1) + 1
      BY ONLY <3>1
    <3>3. QED
      BY <3>2
  <2>5. /\ Keeps(n, d) /\ DOMAIN stack' = (IF TRUE THEN 1..n + 1 ELSE 1..n) /\ stack'[n + 1] = e
    BY <2>2, <2>3, <2>4
  <2>6. ASSUME NEW i \in 1..n, stack'[i].kind = "cluster_pod"
        PROVE  stack'[i].snapshot.restarts <= pods'[stack'[i].target].restarts
    <3>1. i + d \in DOMAIN stack /\ stack'[i] = stack[i + d]
      BY <2>5 DEF Keeps
    <3>2. PICK q \in Pod : q = stack'[i].target /\ stack'[i].snapshot \in Cluster!PodState
      BY <2>6, <3>1 DEF SnapshotInv
    <3>3. stack'[i].snapshot.restarts <= pods[q].restarts /\ pods[q].restarts <= pods'[q].restarts
      BY <1>2, <2>6, <3>1, <3>2 DEF SnapshotInv, SnapshotsNested
    <3>4. /\ stack'[i].snapshot.restarts \in Nat
          /\ pods[q].restarts \in Nat /\ pods'[q].restarts \in Nat
      BY <1>2, <3>2 DEF SnapshotInv, Cluster!PodState
    <3>5. QED
      BY <3>2, <3>3, <3>4
  <2>7. p \in Pod /\ stack'[n + 1].target = p /\ stack'[n + 1].snapshot = pods[p]
        /\ pods[p].restarts <= pods'[p].restarts
    BY <1>1, <1>2, <2>1, <2>5
  <2>8. QED
    BY <1>1, <1>2, <2>5, <2>6, <2>7, SnapshotsKept
<1>5. QED
  BY <1>3, <1>4 DEF ConfirmCluster

LEMMA PoppedSnapshots ==
  ASSUME MitigationInv, SnapshotInv, Stack!Pop, stack # <<>>, pods' = pods
  PROVE  SnapshotInv'
<1>1. StackShape
  BY DEF MitigationInv
<1>2. /\ Len(stack') = Len(stack) - 1 /\ DOMAIN stack' = 1..Len(stack')
      /\ Keeps(Len(stack'), 0) /\ Len(stack) \in DOMAIN stack
  BY <1>1, PopKeepsRest
<1>3. Len(stack) \in Nat /\ DOMAIN stack = 1..Len(stack)
  BY <1>1, StackItems
<1>4. PICK n \in Nat : n = Len(stack') /\ Keeps(n, 0) /\ DOMAIN stack' = 1..n
  BY <1>2, <1>3
<1>5. DOMAIN stack' = (IF FALSE THEN 1..n + 1 ELSE 1..n)
  BY <1>4
<1>6. ASSUME NEW i \in 1..n, stack'[i].kind = "cluster_pod"
      PROVE  stack'[i].snapshot.restarts <= pods'[stack'[i].target].restarts
  BY <1>4, <1>6 DEF Keeps, SnapshotInv, SnapshotsNested
<1>7. pods' \in [Pod -> Cluster!PodState]
  BY DEF SnapshotInv
<1>8. QED
  BY <1>1, <1>4, <1>5, <1>6, <1>7, SnapshotsKept

LEMMA FinishSnapshots ==
  ASSUME HostInv, MitigationInv, ThreadsServe, SnapshotInv, NEW r \in Request, Finish(r)
  PROVE  SnapshotInv'
<1>0. StackShape /\ pods' = pods /\ request[r] # None /\ worker[r].pc # "idle"
  BY DEF MitigationInv, Finish, Host!Collect, Host!Returned
<1>1. PICK t \in Token : t = request[r].token
  BY <1>0, HandlersTyped DEF MitigationInv
<1>2. \A p \in Pod : pods[p].restarts <= pods'[p].restarts
  BY <1>0 DEF SnapshotInv, Cluster!PodState
<1>3. pods' \in [Pod -> Cluster!PodState]
  BY <1>0 DEF SnapshotInv
<1>4. CASE stack' = stack
  BY <1>0, <1>2, <1>3, <1>4, SnapshotsRest
<1>5. CASE request[r].entry = None /\ Stack!Push(HostEntry(t, worker[r]))
  <2> DEFINE e == HostEntry(t, worker[r])
  <2>1. e \in Stack!MitigationEntry /\ e.kind # "cluster_pod"
    BY <1>0, <1>5, HostEntryTyped
  <2> HIDE DEF e
  <2>2. /\ Len(stack') \in Nat \ {0}
        /\ DOMAIN stack' = 1..Len(stack') /\ stack'[Len(stack')] = e
        /\ \E d \in {0, 1} : Keeps(Len(stack') - 1, d)
    BY <1>0, <1>5, <2>1, PushKeepsRest DEF e
  <2>3. PICK d \in Nat : Keeps(Len(stack') - 1, d)
    BY <2>2
  <2>4. PICK n \in Nat : n = Len(stack') - 1 /\ Len(stack') = n + 1
    <3>1. Len(stack') \in Nat \ {0}
      BY <2>2
    <3>2. Len(stack') - 1 \in Nat /\ Len(stack') = (Len(stack') - 1) + 1
      BY ONLY <3>1
    <3>3. QED
      BY <3>2
  <2>5. /\ Keeps(n, d) /\ DOMAIN stack' = (IF TRUE THEN 1..n + 1 ELSE 1..n) /\ stack'[n + 1] = e
    BY <2>2, <2>3, <2>4
  <2>6. ASSUME NEW i \in 1..n, stack'[i].kind = "cluster_pod"
        PROVE  stack'[i].snapshot.restarts <= pods'[stack'[i].target].restarts
    BY <1>0, <2>5, <2>6 DEF Keeps, SnapshotInv, SnapshotsNested
  <2>7. QED
    BY <1>0, <1>3, <2>1, <2>5, <2>6, SnapshotsKept
<1>6. QED
  BY <1>1, <1>4, <1>5 DEF Finish

LEMMA SnapshotInvInductive ==
  ASSUME RegistryInv, LedgerInv, HostInv, MitigationInv, ThreadsServe, SnapshotInv, [Next]_vars
  PROVE  SnapshotInv'
<1>0. StackShape /\ \A p \in Pod : pods[p].restarts \in Nat
  BY DEF MitigationInv, SnapshotInv, Cluster!PodState
<1>1. CASE UNCHANGED <<stack, pods>>
  BY <1>0, <1>1, SnapshotsRest DEF SnapshotInv
<1>2. CASE PodTick
  BY <1>0, <1>2, WanderingTyped, SnapshotsRest DEF PodTick
<1>3. ASSUME NEW r \in Request, Finish(r) PROVE SnapshotInv'
  BY <1>3, FinishSnapshots
<1>4. ASSUME NEW t \in Token, ConfirmRollback(t) PROVE SnapshotInv'
  <2>1. CASE Stack!Top = None
    BY <1>1, <1>4, <2>1 DEF ConfirmRollback
  <2>2. CASE Stack!Top # None
    BY <1>4, <2>2, RollbackSnapshots
  <2>3. QED
    BY <2>1, <2>2
<1>5. ASSUME NEW t \in Token, ConfirmCluster(t) PROVE SnapshotInv'
  BY <1>5, ClusterSnapshots
<1>6. ASSUME NEW t \in Token, NEW r \in Request, ConfirmUnblock(r, t) PROVE SnapshotInv'
  BY <1>6, PoppedSnapshots DEF ConfirmUnblock, Stack!Top
<1>7. QED
  <2>1. CASE \/ Tick \/ Outside \/ Previewing \/ (\E r \in Request : Thread(r)) \/ UNCHANGED vars
             \/ \E t \in Token :
                   \/ \E command \in Command, mode \in Mode : Gate(t, command, mode)
                   \/ Preview(t) \/ ConfirmRefused(t)
                   \/ \E r \in Request : ConfirmHost(r, t)
    BY <1>1, <2>1, PreviewsWriteNothing
       DEF Tick, Outside, Thread, vars, Gate, Preview, ConfirmRefused, ConfirmHost
  <2>2. QED
    BY <1>2, <1>3, <1>4, <1>5, <1>6, <2>1 DEF Next, Confirm, Previewing

-----------------------------------------------------------------------------
(* The whole service. *)

ServiceInv ==
    /\ RegistryInv /\ LedgerInv /\ LogInv /\ HostInv
    /\ MitigationInv /\ ThreadsServe /\ SnapshotInv

LEMMA ServiceInvInitially == Init => ServiceInv
  BY RegistryInvInitially, LedgerInvInitially, LogInvInitially, HostInvInitially,
     MitigationInvInitially, ThreadsServeInitially, SnapshotInvInitially DEF ServiceInv

LEMMA ServiceInvInductive == ServiceInv /\ [Next]_vars => ServiceInv'
<1> SUFFICES ASSUME ServiceInv, [Next]_vars PROVE ServiceInv'
  OBVIOUS
<1>1. /\ RegistryInv /\ LedgerInv /\ LogInv /\ HostInv
      /\ MitigationInv /\ ThreadsServe /\ SnapshotInv /\ pods \in [Pod -> Cluster!PodState]
  BY DEF ServiceInv, SnapshotInv
<1>2. RegistryInv'
  BY <1>1, RegistryInvInductive
<1>3. LedgerInv'
  BY <1>1, LedgerInvInductive
<1>4. LogInv' /\ HostInv'
  BY <1>1, LogInvInductive, HostInvInductive
<1>5. MitigationInv'
  BY <1>1, MitigationInvInductive
<1>6. ThreadsServe' /\ SnapshotInv'
  BY <1>1, ThreadsServeInductive, SnapshotInvInductive
<1>7. QED
  BY <1>2, <1>3, <1>4, <1>5, <1>6 DEF ServiceInv

LEMMA ServiceInvAlways == Spec => []ServiceInv
  BY ServiceInvInitially, ServiceInvInductive, PTL DEF Spec

(* The types of the stores, the engines and the suspended handlers; most of *)
(* it rests on the rest of the invariant, not on the types alone: an entry  *)
(* is well formed because its thread did what its incident asked for.       *)
THEOREM EndpointTypeCorrect == Spec => []TypeOK
<1>1. ServiceInv => TypeOK
  <2> SUFFICES ASSUME ServiceInv PROVE TypeOK
    OBVIOUS
  <2>1. Registry!TypeOK
    BY DEF ServiceInv, RegistryInv, RegistryProofs!IInv, RegistryProofs!TypeOK, Registry!TypeOK,
           RegistryProofs!PendingConfirmation, Registry!PendingConfirmation
  <2>2. Log!LogTypeOK
    BY DEF ServiceInv, LogInv, LogProofs!LInv, LogProofs!LogTypeOK, Log!LogTypeOK,
           LogProofs!IncidentRecord, Log!IncidentRecord, LogProofs!Waterfall, Log!Waterfall,
           LogProofs!IncidentEvent, Log!IncidentEvent, LogProofs!Optional, Log!Optional
  <2>3. Host!HostTypeOK
    BY DEF ServiceInv, HostInv, HostProofs!HInv, HostProofs!HostTypeOK, Host!HostTypeOK,
           HostProofs!Incarnation, Host!Incarnation, HostProofs!Thread, Host!Thread,
           HostProofs!Op, Host!Op, HostProofs!Outcome, Host!Outcome
  <2>4. Stack!StackTypeOK /\ Cluster!ClusterTypeOK /\ request \in [Request -> Suspended \cup {None}]
    BY DEF ServiceInv, MitigationInv, StackShape, SnapshotInv, SuspendedInv, Cluster!ClusterTypeOK
  <2>5. QED
    BY <2>1, <2>2, <2>3, <2>4 DEF TypeOK
<1>2. QED
  BY <1>1, ServiceInvAlways, PTL

(* mitigation_stack.py:3: whatever is on the stack is real, successful, not *)
(* yet reversed, in no handler's hands, there once, and in the order it was *)
(* executed in, also when executions and rollbacks overlap.                 *)
THEOREM EndpointStackSound == Spec => []StackSound
<1>1. ServiceInv => StackSound
  <2> SUFFICES ASSUME ServiceInv, NEW i \in DOMAIN stack
               PROVE  LET entry == stack[i]
                          incident == records[entry.token]
                      IN  /\ grants[entry.token] # <<>>
                          /\ Log!Resolved(entry.token) /\ incident.success
                          /\ incident.command.intent # "ROLLBACK" /\ incident.mode = entry.mode
                          /\ ~\E t \in Token : Log!Opened(t) /\ records[t].linked_token = entry.token
                          /\ ~\E r \in Request : request[r] # None /\ request[r].entry = entry
                          /\ \A j \in DOMAIN stack : i < j =>
                                /\ stack[j].token # entry.token
                                /\ incident.resolved_at <= records[stack[j].token].resolved_at
    BY DEF StackSound
  <2>1. StackShape /\ StackInv /\ PoppedInv
    BY DEF ServiceInv, MitigationInv
  <2>2. stack[i] # None
    BY <2>1, StackItems, EntriesTyped
  <2>3. Undoable(stack[i].token) /\ records[stack[i].token].mode = stack[i].mode
    BY <2>1 DEF StackInv
  <2>4. ~\E r \in Request : request[r] # None /\ request[r].entry = stack[i]
    BY <2>1, <2>2 DEF PoppedInv
  <2>5. \A j \in DOMAIN stack : i < j =>
           /\ stack[j].token # stack[i].token
           /\ records[stack[i].token].resolved_at <= records[stack[j].token].resolved_at
    BY <2>1 DEF StackInv
  <2>6. QED
    BY <2>3, <2>4, <2>5 DEF Undoable
<1>2. QED
  BY <1>1, ServiceInvAlways, PTL

(* mitigation_stack.py:94: no mitigation is rolled back twice, and what was *)
(* rolled back had succeeded before and was itself no rollback.             *)
THEOREM EndpointRolledBackOnce == Spec => []RolledBackOnce
<1>1. ServiceInv => RolledBackOnce
  BY DEF ServiceInv, MitigationInv
<1>2. QED
  BY <1>1, ServiceInvAlways, PTL

(* Unwinding the stack walks each pod back through its own past.            *)
THEOREM EndpointSnapshotsNested == Spec => []SnapshotsNested
<1>1. ServiceInv => SnapshotsNested
  BY DEF ServiceInv, SnapshotInv
<1>2. QED
  BY <1>1, ServiceInvAlways, PTL

(* security.py:18, now with the handlers that submit the calls.             *)
THEOREM EndpointProtectedSurvive == Spec => []ProtectedSurvive
<1>1. ServiceInv => ProtectedSurvive
  BY DEF ServiceInv, HostInv, HostProofs!HInv, HostProofs!ProtectedSurvive,
         ProtectedSurvive, Host!ProtectedSurvive
<1>2. QED
  BY <1>1, ServiceInvAlways, PTL

-----------------------------------------------------------------------------
(* What is done is what was approved. *)

(* A thread that is no dry run and does not unblock works on a redeemed,    *)
(* still open incident.                                                     *)
LEMMA ThreadApproved ==
  ASSUME ServiceInv, NEW r \in Request, worker[r].pc # "idle", worker[r].op # "unblock", ~worker[r].dry_run
  PROVE  /\ request[r] # None /\ worker[r].pid = records[request[r].token].command.pid
         /\ worker[r].op = "terminate" => Approved(r, "PROCESS_KILL")
         /\ worker[r].op = "isolate" => Approved(r, "NETWORK_ISOLATE")
<1>0. ThreadsServe /\ SuspendedInv /\ LedgerInv /\ LogInv
  BY DEF ServiceInv, MitigationInv
<1>1. request[r] # None /\ request[r].entry = None
  BY <1>0 DEF ThreadsServe
<1>2. PICK t \in Token : t = request[r].token
  BY <1>0, <1>1, HandlersTyped
<1>3. /\ grants[t] # <<>> /\ Log!Opened(t) /\ ~Log!Resolved(t)
      /\ records[t].mode = "HOST_LOCAL" /\ records[t].command.intent # "ROLLBACK"
  BY <1>0, <1>1, <1>2
     DEF SuspendedInv, LedgerInv, SuspendedUnresolved, Log!Resolved, Log!Opened
<1>4. /\ worker[r].op = (IF records[t].command.intent = "PROCESS_KILL" THEN "terminate" ELSE "isolate")
      /\ worker[r].pid = records[t].command.pid
  BY <1>0, <1>1, <1>2 DEF ThreadsServe
<1>5. records[t].command.intent \in {"PROCESS_KILL", "NETWORK_ISOLATE", "ROLLBACK"}
  <2>1. records[t] \in LogProofs!IncidentRecord
    BY <1>0, <1>3, LogConstants, LogProofs!Known
       DEF LogInv, LogProofs!LInv, Log!Opened, LogProofs!Opened
  <2>2. records[t].command \in ParsedCommand
    BY <2>1, EndpointAssumption DEF EndpointAssumption, LogProofs!IncidentRecord
  <2>3. QED
    BY <2>2 DEF ParsedCommand
<1>6. ASSUME NEW intent, records[t].command.intent = intent PROVE Approved(r, intent)
  BY <1>1, <1>2, <1>3, <1>6 DEF Approved, Log!Resolved, Log!Opened
<1>7. QED
  BY <1>1, <1>2, <1>3, <1>4, <1>5, <1>6

(* Only a thread signals, and only the process that holds its PID. *)
LEMMA SignalsApproved ==
  ASSUME ServiceInv, [Next]_vars, NEW proc \in signalled' \ signalled
  PROVE  \E r \in Request : /\ Approved(r, "PROCESS_KILL")
                            /\ procs[records[request[r].token].command.pid] = proc
<1>1. PICK r \in Request : Thread(r) /\ (Host!Terminate(r) \/ Host!Kill(r))
  <2>1. CASE UNCHANGED signalled
    BY <2>1
  <2>2. ASSUME NEW r \in Request, Thread(r)
        PROVE  UNCHANGED signalled \/ Host!Terminate(r) \/ Host!Kill(r)
    BY <2>2 DEF Thread, Host!ThreadStep, Host!Open, Host!Inspect, Host!Connections,
                Host!WaitReturns, Host!WaitTimesOut, Host!KillWaitTimesOut, Host!Block, Host!Unblock
  <2>3. CASE \/ Tick \/ PodTick \/ Outside \/ UNCHANGED vars \/ Previewing
             \/ (\E r \in Request : Finish(r))
             \/ \E t \in Token :
                   \/ \E command \in Command, mode \in Mode : Gate(t, command, mode)
                   \/ Preview(t) \/ Confirm(t)
    <3>1. UNCHANGED signalled
      BY <2>3, PreviewsWriteNothing
         DEF Tick, PodTick, Outside, Host!OutsideStep, Host!ProcessExit, Host!ProcessStart,
                  Host!ManualRemoval, vars, Finish, Host!Collect, Gate, Preview, Confirm,
                  ConfirmRefused, ConfirmRollback, ConfirmCluster, ConfirmUnblock, ConfirmHost,
                  HostUntouched, Host!Submit
    <3>2. QED
      BY <3>1
  <2>4. QED
    BY <2>1, <2>2, <2>3 DEF Next, Previewing
<1>2. worker[r].pc \in {"terminate", "kill"} /\ \E next : Host!Signal(r, next)
  BY <1>1 DEF Host!Terminate, Host!Kill
<1>3. signalled' = signalled \cup {Host!Holder(r)} \/ UNCHANGED signalled
  BY <1>2 DEF Host!Signal
<1>4. proc = procs[worker[r].pid]
  BY <1>3 DEF Host!Holder
<1>5. worker[r].op = "terminate" /\ ~worker[r].dry_run
  BY <1>2 DEF ServiceInv, HostInv, HostProofs!HInv, HostProofs!PhaseFits, HostProofs!Acting
<1>6. QED
  BY <1>2, <1>4, <1>5, ThreadApproved

(* Only threads and, by hand, the operator change the firewall. *)
LEMMA RulesTouched ==
  ASSUME [Next]_vars, rules' # rules
  PROVE  \/ \E ip \in Ip : Host!ManualRemoval(ip)
         \/ \E r \in Request : Thread(r) /\ (Host!Block(r) \/ Host!Unblock(r))
<1>1. CASE Outside
  BY <1>1 DEF Outside, Host!OutsideStep, Host!ProcessExit, Host!ProcessStart
<1>2. ASSUME NEW r \in Request, Thread(r)
      PROVE  Host!Block(r) \/ Host!Unblock(r)
  BY <1>2 DEF Thread, Host!ThreadStep, Host!Open, Host!Inspect, Host!Connections, Host!Terminate,
              Host!Kill, Host!Signal, Host!WaitReturns, Host!WaitTimesOut, Host!KillWaitTimesOut
<1>3. CASE \/ Tick \/ PodTick \/ UNCHANGED vars \/ Previewing \/ (\E r \in Request : Finish(r))
           \/ \E t \in Token :
                 \/ \E command \in Command, mode \in Mode : Gate(t, command, mode)
                 \/ Preview(t) \/ Confirm(t)
  <2>1. UNCHANGED rules
    BY <1>3, PreviewsWriteNothing
       DEF Tick, PodTick, vars, Finish, Host!Collect, Gate, Preview, Confirm, ConfirmRefused,
           ConfirmRollback, ConfirmCluster, ConfirmUnblock, ConfirmHost, HostUntouched, Host!Submit
  <2>2. QED
    BY <2>1
<1>4. QED
  BY <1>1, <1>2, <1>3 DEF Next, Previewing

(* Only a thread adds a rule. *)
LEMMA RulesApproved ==
  ASSUME ServiceInv, [Next]_vars, NEW ip \in Ip, rules'[ip] > rules[ip]
  PROVE  \E r \in Request : Approved(r, "NETWORK_ISOLATE")
<1>0. rules \in [Ip -> Nat]
  BY DEF ServiceInv, HostInv, HostProofs!HInv, HostProofs!HostTypeOK
<1>1. rules' # rules
  BY <1>0
<1>2. ~\E other \in Ip : Host!ManualRemoval(other)
  BY <1>0 DEF Host!ManualRemoval
<1>3. PICK r \in Request : Thread(r) /\ (Host!Block(r) \/ Host!Unblock(r))
  BY <1>1, <1>2, RulesTouched
<1>4. ~Host!Unblock(r)
  <2> SUFFICES ASSUME Host!Unblock(r) PROVE FALSE
    OBVIOUS
  <2>1. PICK other : rules' = Host!RuleRemoved(other)
    BY <1>1 DEF Host!Unblock
  <2>2. rules[ip] \in Nat
    BY <1>0
  <2>3. rules'[ip] = rules[ip] \/ rules'[ip] = rules[ip] - 1 \/ rules'[ip] = 0
    BY <1>0, <2>1 DEF Host!RuleRemoved
  <2>4. QED
    BY <2>2, <2>3
<1>5. worker[r].pc = "block" /\ worker[r].op = "isolate" /\ ~worker[r].dry_run
  BY <1>3, <1>4
     DEF Host!Block, ServiceInv, HostInv, HostProofs!HInv, HostProofs!PhaseFits, HostProofs!Acting
<1>6. QED
  BY <1>5, ThreadApproved

(* Only the thread of a rollback removes one, of its entry's addresses.     *)
LEMMA RemovalsApproved ==
  ASSUME ServiceInv, [Next]_vars, NEW ip \in Ip, rules'[ip] < rules[ip], ~OutsideEdits
  PROVE  \E r \in Request : request[r] # None /\ request[r].entry # None /\ ip \in request[r].entry.ips
<1>0. rules \in [Ip -> Nat] /\ ThreadsServe /\ HostInv
  BY DEF ServiceInv, HostInv, HostProofs!HInv, HostProofs!HostTypeOK
<1>1. rules' # rules /\ rules[ip] \in Nat
  BY <1>0
<1>2. PICK r \in Request : Thread(r) /\ (Host!Block(r) \/ Host!Unblock(r))
  BY <1>1, RulesTouched DEF Host!ManualRemoval
<1>3. ~Host!Block(r)
  <2> SUFFICES ASSUME Host!Block(r) PROVE FALSE
    OBVIOUS
  <2>1. PICK other : rules' = [rules EXCEPT ![other] = @ + 1]
    BY <1>1 DEF Host!Block
  <2>2. rules'[ip] = rules[ip] \/ rules'[ip] = rules[ip] + 1
    BY <1>0, <2>1
  <2>3. QED
    BY <1>1, <2>2
<1>4. Host!Unblock(r) /\ worker[r].pc = "unblock" /\ worker[r].op = "unblock"
  BY <1>2, <1>3 DEF Host!Unblock, HostInv, HostProofs!HInv, HostProofs!PhaseFits, ServiceInv
<1>5. request[r] # None /\ request[r].entry # None /\ worker[r].todo \subseteq request[r].entry.ips
  <2>1. request[r] # None
    BY <1>0, <1>4 DEF ThreadsServe
  <2>2. request[r].entry # None
    BY <1>0, <1>4, <2>1 DEF ThreadsServe
  <2>3. QED
    BY <1>0, <2>1, <2>2 DEF ThreadsServe
<1>6. ip \in worker[r].todo
  <2>1. worker[r].todo # {} /\ rules' = Host!RuleRemoved(Host!First(worker[r].todo))
    BY <1>1, <1>4 DEF Host!Unblock
  <2>2. ip = Host!First(worker[r].todo)
    BY <1>0, <1>1, <2>1 DEF Host!RuleRemoved
  <2>3. worker[r].todo \in SUBSET Ip
    BY <1>0, ThreadTyped DEF HostProofs!Thread
  <2>4. HostProofs!First(worker[r].todo) \in worker[r].todo
    BY <2>1, <2>3, HostConstants, HostProofs!FirstOfThem
  <2>5. QED
    BY <2>2, <2>4 DEF Host!First, HostProofs!First
<1>7. QED
  BY <1>5, <1>6

(* Only a handler restarts or restores a pod, in the step that redeems its  *)
(* token; the random walk changes neither.                                  *)
LEMMA PodsApproved ==
  ASSUME ServiceInv, [Next]_vars, NEW p \in Pod,
         pods'[p].restarts # pods[p].restarts \/ pods'[p].anomaly # pods[p].anomaly
  PROVE  \E t \in Token :
            /\ Len(grants'[t]) > Len(grants[t])
            /\ \/ records[t].mode = "K8S_CLUSTER" /\ records[t].command.name = p
               \/ Bare(records[t].command) /\ Stack!Top # None /\ Stack!Top.target = p
<1>0. RegistryInv /\ LedgerInv /\ MitigationInv /\ SnapshotInv
  BY DEF ServiceInv
<1>1. pods' # pods /\ ~PodTick
  BY <1>0, WanderingTyped DEF PodTick
<1>2. PICK t \in Token : ConfirmRollback(t) \/ ConfirmCluster(t)
  <2>1. CASE \/ Tick \/ Outside \/ UNCHANGED vars \/ Previewing
             \/ (\E r \in Request : Thread(r) \/ Finish(r))
             \/ \E t \in Token :
                   \/ \E command \in Command, mode \in Mode : Gate(t, command, mode)
                   \/ Preview(t) \/ ConfirmRefused(t)
                   \/ \E r \in Request : ConfirmUnblock(r, t) \/ ConfirmHost(r, t)
    <3>1. UNCHANGED pods
      BY <2>1, PreviewsWriteNothing
         DEF Tick, Outside, vars, Thread, Finish, Gate, Preview, ConfirmRefused,
                  ConfirmUnblock, ConfirmHost
    <3>2. QED
      BY <1>1, <3>1
  <2>2. QED
    BY <1>1, <2>1 DEF Next, Confirm, Previewing
<1>3. Redeemable(t) # None /\ Registry!Redeem(t)
  BY <1>2 DEF ConfirmRollback, ConfirmCluster
<1>4. Len(grants'[t]) > Len(grants[t])
  BY <1>0, <1>3, Redemption
<1>5. records[t].command = Redeemable(t).command /\ records[t].mode = Redeemable(t).mode
  BY <1>0, <1>3, RedeemedIncident
<1>6. CASE ConfirmCluster(t)
  <2> DEFINE q == Redeemable(t).command.name
  <2>1. q \in Pod /\ Cluster!ClusterExecute(q, Redeemable(t).command.intent)
    BY <1>6 DEF ConfirmCluster
  <2>2. p = q
    BY <1>0, <2>1, RestartTyped
  <2>3. QED
    BY <1>4, <1>5, <1>6, <2>2 DEF ConfirmCluster
<1>7. CASE ConfirmRollback(t)
  <2>1. Stack!Top # None /\ \E snapshot : Cluster!RestorePod(Stack!Top.target, snapshot)
    BY <1>1, <1>7 DEF ConfirmRollback
  <2>2. Stack!Top.target = p
    BY <1>0, <2>1 DEF Cluster!RestorePod, SnapshotInv
  <2>3. QED
    BY <1>4, <1>5, <1>7, <2>1, <2>2 DEF ConfirmRollback
<1>8. QED
  BY <1>2, <1>6, <1>7

(* README "Voice never authorizes": every signal, every new rule, every     *)
(* rule removed and every restart or restoration of a pod is one the        *)
(* operator clicked for, or made by hand; no dry run does any of it.        *)
THEOREM EndpointApprovedOnly == Spec => ApprovedOnly
<1>1. ServiceInv /\ [Next]_vars =>
       [/\ \A proc \in signalled' \ signalled : \E r \in Request :
              /\ Approved(r, "PROCESS_KILL")
              /\ procs[records[request[r].token].command.pid] = proc
        /\ \A ip \in Ip : rules'[ip] > rules[ip] => \E r \in Request : Approved(r, "NETWORK_ISOLATE")
        /\ \A ip \in Ip : rules'[ip] < rules[ip] =>
              \/ OutsideEdits
              \/ \E r \in Request :
                    request[r] # None /\ request[r].entry # None /\ ip \in request[r].entry.ips
        /\ \A p \in Pod : pods'[p].restarts # pods[p].restarts \/ pods'[p].anomaly # pods[p].anomaly =>
              \E t \in Token :
                 /\ Len(grants'[t]) > Len(grants[t])
                 /\ \/ records[t].mode = "K8S_CLUSTER" /\ records[t].command.name = p
                    \/ Bare(records[t].command) /\ Stack!Top # None /\ Stack!Top.target = p
       ]_vars
  BY SignalsApproved, RulesApproved, RemovalsApproved, PodsApproved
<1>2. QED
  BY <1>1, ServiceInvAlways, PTL DEF Spec, ApprovedOnly

-----------------------------------------------------------------------------
(* What the ledger says of a kill is what happened to the process.          *)

(* A kill on the host is resolved by the handler that suspended on it. *)
LEMMA KillResolvedByHandler ==
  ASSUME ServiceInv, [Next]_vars, NEW t \in Token, ~Log!Resolved(t), Log!Resolved(t)',
         records[t].mode = "HOST_LOCAL", records[t].command.intent = "PROCESS_KILL"
  PROVE  \E r \in Request : Finish(r) /\ Serves(r, t)
<1>0. RegistryInv /\ LedgerInv /\ MitigationInv /\ Shapes /\ SuspendedInv
  BY DEF ServiceInv, LedgerInv, MitigationInv
<1>1. records'[t] # records[t]
  BY DEF Log!Resolved, Log!Opened
<1>2. ASSUME NEW u \in Token, NEW success, NEW linked, Log!ResolveIncident(u, success, linked)
      PROVE  u = t
  BY <1>0, <1>1, <1>2, ResolveTouchesOne
<1>3. ASSUME NEW r \in Request, Finish(r)
      PROVE  Serves(r, t)
  <2>1. request[r] # None /\ request[r].token \in Token
    BY <1>0, <1>3, HandlersTyped DEF Finish
  <2>2. \E success, linked : Log!ResolveIncident(request[r].token, success, linked)
    BY <1>1, <1>3 DEF Finish
  <2>3. QED
    BY <1>2, <2>1, <2>2 DEF Serves
<1>4. ASSUME NEW u \in Token, NEW command, NEW mode, Gate(u, command, mode)
      PROVE  FALSE
  <2>1. u = t
    BY <1>0, <1>1, <1>4 DEF Gate, Log!OpenIncident, Shapes
  <2>2. records'[t].resolved_at = None
    BY <1>0, <1>4, <2>1 DEF Gate, Log!OpenIncident, Shapes
  <2>3. QED
    BY <2>2 DEF Log!Resolved
<1>5. ASSUME NEW u \in Token, Confirm(u)
      PROVE  FALSE
  <2>1. ConfirmRollback(u) \/ ConfirmCluster(u)
    BY <1>1, <1>5 DEF Confirm, ConfirmRefused, ConfirmUnblock, ConfirmHost
  <2>2. u = t
    BY <1>2, <2>1 DEF ConfirmRollback, ConfirmCluster
  <2>3. records[t].command = Redeemable(t).command /\ records[t].mode = Redeemable(t).mode
    BY <1>0, <2>1, <2>2, RedeemedIncident DEF ConfirmRollback, ConfirmCluster
  <2>4. QED
    BY <2>1, <2>2, <2>3 DEF ConfirmRollback, ConfirmCluster, Bare
<1>6. QED
  <2>1. CASE Tick \/ PodTick \/ Outside \/ (\E r \in Request : Thread(r)) \/ UNCHANGED vars
             \/ (\E u \in Token : Preview(u)) \/ Previewing
    BY <1>1, <2>1, PreviewsWriteNothing DEF Tick, PodTick, Outside, Thread, Preview, vars
  <2>2. QED
    BY <1>3, <1>4, <1>5, <2>1 DEF Next, Previewing

(* ... and what that handler learned from its thread is a real termination. *)
LEMMA RecordedKill ==
  ASSUME ServiceInv, NEW t \in Token, NEW r \in Request, Finish(r), Serves(r, t),
         ~Log!Resolved(t), Log!Resolved(t)', records'[t].success,
         records[t].command.intent = "PROCESS_KILL"
  PROVE  /\ worker[r].pid = records[t].command.pid /\ worker[r].proc \in signalled
         /\ procs[worker[r].pid] # worker[r].proc
<1>0. HostInv /\ ThreadsServe /\ SuspendedInv /\ PoppedInv /\ LogInv /\ Log!Opened(t)
  BY DEF ServiceInv, MitigationInv, SuspendedInv, Serves
<1>1. request[r] # None /\ request[r].token = t /\ Host!Returned(r)
  BY DEF Serves, Finish, Host!Collect
<1>2. request[r].entry = None
  BY <1>0, <1>1 DEF PoppedInv, Bare
<1>3. worker[r].op = "terminate" /\ worker[r].pid = records[t].command.pid /\ ~worker[r].dry_run
  BY <1>0, <1>1, <1>2 DEF ThreadsServe
<1>4. worker[r].outcome = "ok"
  <2>1. worker[r].outcome \notin {"protected", "notfound"}
    <3>1. records'[t] # records[t]
      BY DEF Log!Resolved, Log!Opened
    <3>2. ~UNCHANGED records
      BY <3>1
    <3>3. QED
      BY <3>2 DEF Finish
  <2>2. worker[r].outcome # "failed"
    <3> SUFFICES ASSUME worker[r].outcome = "failed" PROVE FALSE
      OBVIOUS
    <3>1. Log!ResolveIncident(t, FALSE, None)
      BY <1>1, <1>2 DEF Finish
    <3>2. records'[t].success = FALSE
      BY <1>0, <3>1, Resolution
    <3>3. QED
      BY <3>2
  <2>3. QED
    BY <1>0, <2>1, <2>2, ThreadTyped
<1>5. worker[r].proc \in signalled /\ procs[worker[r].pid] # worker[r].proc
  BY <1>0, <1>1, <1>3, <1>4
     DEF HostInv, HostProofs!HInv, HostProofs!TerminationIsReal, HostProofs!Returned,
         Host!Returned, HostProofs!SameProcess, HostProofs!Holder
<1>6. QED
  BY <1>3, <1>5

(* endpoints.py:143: for any processes, handlers and PID reuse, a kill that *)
(* the ledger and its post-mortem call a success was of the process that    *)
(* the check found at the approved PID, and that process is gone from it.   *)
THEOREM EndpointRecordedKillsAreReal == Spec => RecordedKillsAreReal
<1>1. ServiceInv /\ [Next]_vars =>
           [\A t \in Token :
              /\ ~Log!Resolved(t) /\ Log!Resolved(t)' /\ records'[t].success
              /\ records[t].mode = "HOST_LOCAL" /\ records[t].command.intent = "PROCESS_KILL"
              => \E r \in Request :
                    /\ Serves(r, t) /\ worker[r].pid = records[t].command.pid
                    /\ worker[r].proc \in signalled
                    /\ procs[worker[r].pid] # worker[r].proc]_vars
  BY KillResolvedByHandler, RecordedKill
<1>2. QED
  BY <1>1, ServiceInvAlways, PTL DEF Spec, RecordedKillsAreReal

-----------------------------------------------------------------------------
(* The rules an entry promises to remove, where the firewall is iptables    *)
(* and nobody else edits it.                                                *)

(* The isolations that have a rule for ip to be removed: on the stack, in   *)
(* the hands of the thread that is installing it, or of the one removing it. *)
Claims(ip) ==
    {u \in Token :
        \/ \E i \in DOMAIN stack : stack[i].token = u /\ ip \in stack[i].ips
        \/ \E r \in Request : /\ request[r] # None /\ request[r].entry = None
                              /\ request[r].token = u /\ ip \in worker[r].done
        \/ \E r \in Request : /\ request[r] # None /\ request[r].entry # None
                              /\ request[r].entry.token = u
                              /\ worker[r].pc = "unblock" /\ ip \in worker[r].todo}

ClaimsCovered ==
    \A ip \in Ip : IsFiniteSet(Claims(ip)) /\ Cardinality(Claims(ip)) <= rules[ip]

FirewallInv == Platform = "linux" /\ ~OutsideEdits => ClaimsCovered

LEMMA FirewallInvInitially == Init => FirewallInv
<1> SUFFICES ASSUME Init, NEW ip \in Ip
             PROVE  IsFiniteSet(Claims(ip)) /\ Cardinality(Claims(ip)) <= rules[ip]
  BY DEF FirewallInv, ClaimsCovered
<1>1. Claims(ip) = {}
  BY DEF Init, Stack!StackInit, Claims
<1>2. rules[ip] = 0
  BY DEF Init, Host!HostInit
<1>3. QED
  BY <1>1, <1>2, FS_EmptySet

(* Each claim has its rule, if no step adds one without a rule or takes a   *)
(* rule whose claim stays.                                                  *)
LEMMA CoverageKept ==
  ASSUME ClaimsCovered, rules \in [Ip -> Nat], rules' \in [Ip -> Nat],
         \A ip \in Ip :
            \/ Claims(ip)' \subseteq Claims(ip) /\ rules'[ip] >= rules[ip]
            \/ \E u \in Token : Claims(ip)' \subseteq Claims(ip) \cup {u} /\ rules'[ip] = rules[ip] + 1
            \/ \E u \in Claims(ip) : Claims(ip)' \subseteq Claims(ip) \ {u} /\ rules'[ip] = rules[ip] - 1
  PROVE  ClaimsCovered'
<1> SUFFICES ASSUME NEW ip \in Ip
             PROVE  IsFiniteSet(Claims(ip)') /\ Cardinality(Claims(ip)') <= rules'[ip]
  BY DEF ClaimsCovered
<1>1. PICK old, new : old = Claims(ip) /\ new = Claims(ip)'
  OBVIOUS
<1>2. IsFiniteSet(old) /\ Cardinality(old) <= rules[ip] /\ Cardinality(old) \in Nat
      /\ rules[ip] \in Nat /\ rules'[ip] \in Nat
  BY <1>1, FS_CardinalityType DEF ClaimsCovered
<1>3. ASSUME new \subseteq old, rules'[ip] >= rules[ip]
      PROVE  IsFiniteSet(new) /\ Cardinality(new) <= rules'[ip]
  <2>1. IsFiniteSet(new) /\ Cardinality(new) <= Cardinality(old) /\ Cardinality(new) \in Nat
    BY <1>2, <1>3, FS_Subset, FS_CardinalityType
  <2>2. QED
    BY <1>2, <1>3, <2>1
<1>4. ASSUME NEW u \in Token, new \subseteq old \cup {u}, rules'[ip] = rules[ip] + 1
      PROVE  IsFiniteSet(new) /\ Cardinality(new) <= rules'[ip]
  <2>1. IsFiniteSet(old \cup {u}) /\ Cardinality(old \cup {u}) <= Cardinality(old) + 1
        /\ Cardinality(old \cup {u}) \in Nat
    <3>1. /\ IsFiniteSet(old \cup {u})
          /\ Cardinality(old \cup {u}) = IF u \in old THEN Cardinality(old) ELSE Cardinality(old) + 1
      BY <1>2, FS_AddElement
    <3>2. QED
      BY <1>2, <3>1
  <2>2. IsFiniteSet(new) /\ Cardinality(new) <= Cardinality(old \cup {u}) /\ Cardinality(new) \in Nat
    BY <1>4, <2>1, FS_Subset, FS_CardinalityType
  <2>3. QED
    BY <1>2, <1>4, <2>1, <2>2
<1>5. ASSUME NEW u \in old, new \subseteq old \ {u}, rules'[ip] = rules[ip] - 1
      PROVE  IsFiniteSet(new) /\ Cardinality(new) <= rules'[ip]
  <2>1. IsFiniteSet(old \ {u}) /\ Cardinality(old \ {u}) = Cardinality(old) - 1
        /\ Cardinality(old \ {u}) \in Nat
    BY <1>2, FS_RemoveElement, FS_CardinalityType
  <2>2. IsFiniteSet(new) /\ Cardinality(new) <= Cardinality(old \ {u}) /\ Cardinality(new) \in Nat
    BY <1>5, <2>1, FS_Subset, FS_CardinalityType
  <2>3. QED
    BY <1>2, <1>5, <2>1, <2>2
<1>6. QED
  BY <1>1, <1>3, <1>4, <1>5

LEMMA ClaimsShrink ==
  ASSUME \A i \in DOMAIN stack' : \A ip \in stack'[i].ips : stack'[i].token \in Claims(ip),
         \A r \in Request : request'[r] # None /\ request'[r].entry = None =>
            \A ip \in worker'[r].done : request'[r].token \in Claims(ip),
         \A r \in Request : request'[r] # None /\ request'[r].entry # None
                                               /\ worker'[r].pc = "unblock" =>
            \A ip \in worker'[r].todo : request'[r].entry.token \in Claims(ip)
  PROVE  \A ip \in Ip : Claims(ip)' \subseteq Claims(ip)
<1> SUFFICES ASSUME NEW ip \in Ip, NEW u \in Claims(ip)' PROVE u \in Claims(ip)
  OBVIOUS
<1>1. \/ \E i \in DOMAIN stack' : stack'[i].token = u /\ ip \in stack'[i].ips
      \/ \E r \in Request : /\ request'[r] # None /\ request'[r].entry = None
                            /\ request'[r].token = u /\ ip \in worker'[r].done
      \/ \E r \in Request : /\ request'[r] # None /\ request'[r].entry # None
                            /\ request'[r].entry.token = u
                            /\ worker'[r].pc = "unblock" /\ ip \in worker'[r].todo
  BY DEF Claims
<1>2. QED
  BY <1>1

(* Who has a claim. *)
LEMMA Claimants ==
  ASSUME MitigationInv
  PROVE  /\ \A i \in DOMAIN stack : \A ip \in stack[i].ips : stack[i].token \in Claims(ip)
         /\ \A r \in Request : request[r] # None /\ request[r].entry = None =>
               \A ip \in worker[r].done : request[r].token \in Claims(ip)
         /\ \A r \in Request : request[r] # None /\ request[r].entry # None
                                                 /\ worker[r].pc = "unblock" =>
               \A ip \in worker[r].todo : request[r].entry.token \in Claims(ip)
<1>1. \A i \in DOMAIN stack : stack[i].token \in Token
  BY StackItems, EntriesTyped DEF MitigationInv
<1>2. \A r \in Request : request[r] # None =>
         /\ request[r].token \in Token
         /\ request[r].entry # None => request[r].entry.token \in Token
  BY HandlersTyped DEF MitigationInv
<1>3. QED
  BY <1>1, <1>2 DEF Claims

(* A step in which at most the random walk, the store or the ledger moves. *)
LEMMA ClaimsRest ==
  ASSUME MitigationInv, UNCHANGED <<stack, worker, request>>
  PROVE  \A ip \in Ip : Claims(ip)' \subseteq Claims(ip)
  BY Claimants, ClaimsShrink

(* What is taken off the stack by a rollback that needs no thread. *)
LEMMA ClaimsPop ==
  ASSUME MitigationInv, Stack!Pop, stack # <<>>, UNCHANGED <<worker, request>>
  PROVE  \A ip \in Ip : Claims(ip)' \subseteq Claims(ip)
<1>1. \A i \in DOMAIN stack' : i \in DOMAIN stack /\ stack'[i] = stack[i]
  <2>1. Keeps(Len(stack'), 0) /\ DOMAIN stack' = 1..Len(stack')
    BY PopKeepsRest DEF MitigationInv
  <2>2. \A i \in DOMAIN stack' : i + 0 = i
    <3>1. Len(stack') \in Nat
      BY TopIsFree
    <3>2. QED
      BY <2>1, <3>1
  <2>3. QED
    BY <2>1, <2>2 DEF Keeps
<1>2. QED
  BY <1>1, Claimants, ClaimsShrink

(* What goes onto the stack has its claims already, or none. *)
LEMMA ClaimsPush ==
  ASSUME MitigationInv, NEW e \in Stack!MitigationEntry, Stack!Push(e),
         \A ip \in e.ips : e.token \in Claims(ip),
         \A r \in Request :
            \/ request'[r] = None
            \/ request'[r] = request[r] /\ worker'[r] = worker[r]
  PROVE  \A ip \in Ip : Claims(ip)' \subseteq Claims(ip)
<1>1. /\ Len(stack') \in Nat \ {0}
      /\ DOMAIN stack' = 1..Len(stack') /\ stack'[Len(stack')] = e
      /\ \E d \in {0, 1} : Keeps(Len(stack') - 1, d)
  BY PushKeepsRest DEF MitigationInv
<1>2. PICK d \in {0, 1} : Keeps(Len(stack') - 1, d)
  BY <1>1
<1>3. PICK n \in Nat : n = Len(stack')
  BY <1>1
<1>4. ASSUME NEW i \in DOMAIN stack', NEW ip \in stack'[i].ips
      PROVE  stack'[i].token \in Claims(ip)
  <2>1. CASE i = n
    BY <1>1, <1>3, <1>4, <2>1
  <2>2. CASE i \in 1..n - 1
    BY <1>2, <1>3, <1>4, <2>2, Claimants DEF Keeps
  <2>3. i \in 1..n
    BY <1>1, <1>3, <1>4
  <2>4. i = n \/ i \in 1..n - 1
    BY ONLY <2>3, n \in Nat
  <2>5. QED
    BY <2>1, <2>2, <2>4
<1>5. QED
  BY <1>4, Claimants, ClaimsShrink

(* The handlers: whatever they do, no claim is added. *)
LEMMA HandlersClaim ==
  ASSUME RegistryInv, LedgerInv, HostInv, MitigationInv, ThreadsServe, SnapshotInv,
         NEW t \in Token, Confirm(t)
  PROVE  (\A ip \in Ip : Claims(ip)' \subseteq Claims(ip)) /\ rules' = rules
<1>0. request = [s \in Request |-> request[s]] /\ worker = [s \in Request |-> worker[s]]
      /\ StackShape
  <2>1. request = [s \in Request |-> request[s]] /\ StackShape
    BY DEF LedgerInv, Shapes, MitigationInv
  <2>2. worker = [s \in Request |-> worker[s]]
    BY DEF HostInv, HostProofs!HInv, HostProofs!HostTypeOK
  <2>3. QED
    BY <2>1, <2>2
<1>1. rules' = rules
  BY DEF Confirm, ConfirmRefused, ConfirmRollback, ConfirmCluster, ConfirmUnblock, ConfirmHost,
         HostUntouched, Host!Submit
<1>2. CASE ConfirmRefused(t)
  BY <1>1, <1>2, ClaimsRest DEF ConfirmRefused, HostUntouched
<1>3. CASE ConfirmRollback(t)
  <2>1. UNCHANGED <<worker, request>> /\ (stack' = stack \/ (Stack!Pop /\ stack # <<>>))
    BY <1>3 DEF ConfirmRollback, HostUntouched, Stack!Top
  <2>2. QED
    BY <1>1, <2>1, ClaimsRest, ClaimsPop
<1>4. CASE ConfirmCluster(t)
  <2> DEFINE p == Redeemable(t).command.name
             e == PodEntry(t, p, pods[p])
  <2>1. UNCHANGED <<worker, request>> /\ (stack' = stack \/ Stack!Push(e)) /\ p \in Pod
    BY <1>4 DEF ConfirmCluster, HostUntouched
  <2>2. e \in Stack!MitigationEntry /\ e.ips = {}
    BY <2>1 DEF SnapshotInv, PodEntry, Stack!MitigationEntry, Mode
  <2> HIDE DEF e
  <2>3. QED
    BY <1>1, <2>1, <2>2, ClaimsRest, ClaimsPush
<1>5. ASSUME NEW r \in Request, ConfirmUnblock(r, t)
      PROVE  \A ip \in Ip : Claims(ip)' \subseteq Claims(ip)
  <2>1. /\ Stack!Pop /\ stack # <<>> /\ Host!Submit(r, "unblock", None, Stack!Top.ips, FALSE)
        /\ request' = [request EXCEPT ![r] = [token |-> t, entry |-> Stack!Top]]
    BY <1>5 DEF ConfirmUnblock, Stack!Top
  <2>2. /\ Len(stack) \in DOMAIN stack /\ Stack!Top = stack[Len(stack)] /\ Stack!Top # None
        /\ \A i \in DOMAIN stack' : i \in DOMAIN stack /\ stack'[i] = stack[i]
    <3>1. /\ Len(stack) \in DOMAIN stack /\ Stack!Top = stack[Len(stack)]
          /\ Keeps(Len(stack'), 0) /\ DOMAIN stack' = 1..Len(stack')
      BY <1>0, <2>1, PopKeepsRest
    <3>2. Len(stack') \in Nat /\ Stack!Top # None
      BY <2>1, TopIsFree
    <3>3. \A i \in DOMAIN stack' : i + 0 = i
      BY <3>1, <3>2
    <3>4. QED
      BY <3>1, <3>2, <3>3 DEF Keeps
  <2>3. /\ worker'[r].todo = Stack!Top.ips
        /\ \A s \in Request \ {r} : worker'[s] = worker[s]
    BY <1>0, <2>1 DEF Host!Submit, Host!IdleThread
  <2>4. /\ request'[r].entry = Stack!Top
        /\ \A s \in Request \ {r} : request'[s] = request[s]
    BY <1>0, <2>1
  <2>5. \A ip \in worker'[r].todo : request'[r].entry.token \in Claims(ip)
    BY <2>2, <2>3, <2>4, Claimants
  <2>6. QED
    BY <2>2, <2>3, <2>4, <2>5, Claimants, ClaimsShrink
<1>6. ASSUME NEW r \in Request, ConfirmHost(r, t)
      PROVE  \A ip \in Ip : Claims(ip)' \subseteq Claims(ip)
  <2>1. /\ stack' = stack /\ request' = [request EXCEPT ![r] = [token |-> t, entry |-> None]]
        /\ Host!Submit(r, OpOf(Redeemable(t).command), Redeemable(t).command.pid, {}, FALSE)
    BY <1>6 DEF ConfirmHost
  <2>2. /\ worker'[r].done = {} /\ \A s \in Request \ {r} : worker'[s] = worker[s]
    BY <2>1, SubmitServes
  <2>3. request'[r].entry = None /\ \A s \in Request \ {r} : request'[s] = request[s]
    BY <1>0, <2>1
  <2>4. QED
    BY <2>1, <2>2, <2>3, Claimants, ClaimsShrink
<1>7. QED
  BY <1>1, <1>2, <1>3, <1>4, <1>5, <1>6 DEF Confirm

LEMMA FinishClaims ==
  ASSUME LedgerInv, HostInv, MitigationInv, ThreadsServe, NEW r \in Request, Finish(r)
  PROVE  (\A ip \in Ip : Claims(ip)' \subseteq Claims(ip)) /\ rules' = rules
<1>0. request = [s \in Request |-> request[s]] /\ worker = [s \in Request |-> worker[s]]
  BY ThreadTyped DEF LedgerInv, Shapes
<1>1. /\ request' = [request EXCEPT ![r] = None] /\ worker' = [worker EXCEPT ![r] = Host!IdleThread]
      /\ request[r] # None /\ worker[r].pc # "idle" /\ rules' = rules
  BY DEF Finish, Host!Collect, Host!Returned
<1>2. \A s \in Request : \/ request'[s] = None
                         \/ request'[s] = request[s] /\ worker'[s] = worker[s]
  BY <1>0, <1>1
<1>3. PICK t \in Token : t = request[r].token
  BY <1>1, HandlersTyped DEF MitigationInv
<1>4. CASE stack' = stack
  BY <1>1, <1>2, <1>4, Claimants, ClaimsShrink
<1>5. CASE request[r].entry = None /\ Stack!Push(HostEntry(t, worker[r]))
  <2> DEFINE e == HostEntry(t, worker[r])
  <2>1. e \in Stack!MitigationEntry
    BY <1>1, <1>5, HostEntryTyped
  <2>2. e.token = request[r].token /\ e.ips = worker[r].done
    BY <1>3 DEF HostEntry
  <2>3. \A ip \in e.ips : e.token \in Claims(ip)
    BY <1>1, <1>5, <2>2, Claimants
  <2>4. Stack!Push(e)
    BY <1>5
  <2> HIDE DEF e
  <2>5. QED
    BY <1>1, <1>2, <2>1, <2>3, <2>4, ClaimsPush
<1>6. QED
  BY <1>3, <1>4, <1>5 DEF Finish

(* A popped entry has one claimant: its own thread. *)
LEMMA SoleClaimant ==
  ASSUME LedgerInv, MitigationInv, NEW r \in Request, request[r] # None, request[r].entry # None,
         NEW ip \in Ip, UNCHANGED <<stack, request>>,
         \A s \in Request \ {r} : worker'[s] = worker[s],
         ~(worker'[r].pc = "unblock" /\ ip \in worker'[r].todo)
  PROVE  request[r].entry.token \notin Claims(ip)'
<1>0. StackInv /\ PoppedInv /\ SuspendedInv
  BY DEF MitigationInv
<1>1. PICK u \in Token : u = request[r].entry.token
  BY <1>0, HandlersTyped
<1>2. /\ Undoable(u)
      /\ \A i \in DOMAIN stack : stack[i].token # u
      /\ \A s \in Request \ {r} : request[s] # None /\ request[s].entry # None =>
            request[s].entry.token # u
  BY <1>0, <1>1 DEF PoppedInv
<1>3. ASSUME NEW s \in Request, request[s] # None PROVE request[s].token # u
  <2>1. PICK v \in Token : v = request[s].token
    BY <1>0, <1>3, HandlersTyped
  <2>2. ~Log!Resolved(v)
    BY <1>3, <2>1 DEF LedgerInv, SuspendedUnresolved, Log!Resolved, Log!Opened
  <2>3. QED
    BY <1>2, <2>1, <2>2 DEF Undoable
<1>4. SUFFICES ASSUME u \in Claims(ip)' PROVE FALSE
  BY <1>1
<1>5. \/ \E i \in DOMAIN stack' : stack'[i].token = u
      \/ \E s \in Request : request'[s] # None /\ request'[s].token = u
      \/ \E s \in Request : /\ request'[s] # None /\ request'[s].entry # None
                            /\ request'[s].entry.token = u
                            /\ worker'[s].pc = "unblock" /\ ip \in worker'[s].todo
  BY <1>4 DEF Claims
<1>6. QED
  BY <1>2, <1>3, <1>5

(* A thread at work. *)
LEMMA ThreadCoverage ==
  ASSUME Platform = "linux", LedgerInv, HostInv, MitigationInv, ThreadsServe, ClaimsCovered,
         NEW r \in Request, Thread(r)
  PROVE  ClaimsCovered'
<1>0. UNCHANGED <<stack, request>> /\ Host!ThreadStep(r)
  BY DEF Thread
<1>1. /\ worker = [s \in Request |-> worker[s]] /\ worker[r] \in HostProofs!Thread
      /\ worker[r].pc # "idle"
      /\ \A s \in Request \ {r} : worker'[s] = worker[s]
  BY <1>0, ThreadTyped, ThreadStepServes
<1>2. rules \in [Ip -> Nat] /\ rules' \in [Ip -> Nat]
  <2>1. HostInv'
    BY <1>0, HostThreadMoves
  <2>2. QED
    BY <2>1 DEF HostInv, HostProofs!HInv, HostProofs!HostTypeOK
<1>3. worker[r] = [pc |-> worker[r].pc, op |-> worker[r].op, pid |-> worker[r].pid,
                   dry_run |-> worker[r].dry_run, proc |-> worker[r].proc, todo |-> worker[r].todo,
                   done |-> worker[r].done, outcome |-> worker[r].outcome]
  BY <1>1 DEF HostProofs!Thread
<1>4. HostProofs!PhaseFits
  BY DEF HostInv, HostProofs!HInv
(* Whatever it leaves done as it was and does not go on removing is safe.   *)
<1>5. ASSUME worker'[r].done = worker[r].done, worker'[r].pc # "unblock",
             \A ip \in Ip : rules'[ip] >= rules[ip]
      PROVE  ClaimsCovered'
  <2>1. \A ip \in Ip : Claims(ip)' \subseteq Claims(ip)
    BY <1>0, <1>1, <1>5, Claimants, ClaimsShrink
  <2>2. QED
    BY <1>2, <1>5, <2>1, CoverageKept
<1>6. \A outcome : Host!Return(r, outcome) => worker'[r].done = worker[r].done /\ worker'[r].pc = "returned"
  BY <1>1, <1>3 DEF Host!Return
<1>7. rules' = rules => \A ip \in Ip : rules'[ip] >= rules[ip]
  BY <1>2
<1>8. CASE Host!Open(r) \/ Host!Inspect(r) \/ Host!Connections(r)
  <2>1. rules' = rules
    BY <1>8 DEF Host!Open, Host!Inspect, Host!Connections
  <2>2. worker'[r].done = worker[r].done /\ worker'[r].pc # "unblock"
    <3>1. CASE \E outcome : Host!Return(r, outcome)
      BY <1>6, <3>1
    <3>2. CASE \E next \in {"terminate", "connections"} : Host!Goto(r, next)
      BY <1>1, <1>3, <3>2 DEF Host!Goto
    <3>3. ASSUME NEW proc, worker' = [worker EXCEPT ![r].pc = "inspect", ![r].proc = proc]
          PROVE  worker'[r].done = worker[r].done /\ worker'[r].pc # "unblock"
      BY <1>1, <1>3, <3>3
    <3>4. ASSUME NEW remote_ips, worker' = [worker EXCEPT ![r].pc = "block", ![r].todo = remote_ips]
          PROVE  worker'[r].done = worker[r].done /\ worker'[r].pc # "unblock"
      BY <1>1, <1>3, <3>4
    <3>5. QED
      BY <1>8, <3>1, <3>2, <3>3, <3>4 DEF Host!Open, Host!Inspect, Host!Passed, Host!Connections
  <2>3. QED
    BY <1>5, <1>7, <2>1, <2>2
<1>9. CASE \/ Host!Terminate(r) \/ Host!Kill(r) \/ Host!WaitTimesOut(r)
           \/ Host!WaitReturns(r) \/ Host!KillWaitTimesOut(r)
  <2>1. rules' = rules
    BY <1>9 DEF Host!Terminate, Host!Kill, Host!WaitTimesOut, Host!Signal, Host!WaitReturns,
                Host!KillWaitTimesOut
  <2>2. \A next : Host!Goto(r, next) => worker'[r].done = worker[r].done /\ worker'[r].pc = next
    BY <1>1, <1>3 DEF Host!Goto
  <2>3. \/ \E next \in {"wait", "kill", "kill wait"} : Host!Goto(r, next)
        \/ \E outcome : Host!Return(r, outcome)
    BY <1>9 DEF Host!Terminate, Host!Kill, Host!WaitTimesOut, Host!Signal, Host!WaitReturns,
                Host!KillWaitTimesOut
  <2>4. worker'[r].done = worker[r].done /\ worker'[r].pc # "unblock"
    BY <1>6, <2>2, <2>3
  <2>5. QED
    BY <1>5, <1>7, <2>1, <2>4
<1>10. CASE Host!Block(r)
  <2>1. request[r] # None /\ request[r].entry = None
    <3>1. worker[r].op = "isolate" /\ ~worker[r].dry_run
      BY <1>4, <1>10 DEF Host!Block, HostProofs!PhaseFits, HostProofs!Acting
    <3>2. request[r] # None
      BY <1>1, <3>1 DEF ThreadsServe
    <3>3. QED
      BY <3>1, <3>2 DEF ThreadsServe
  <2>2. CASE UNCHANGED rules /\ \E outcome : Host!Return(r, outcome)
    BY <1>5, <1>6, <1>7, <2>2
  <2>3. CASE UNCHANGED rules => ~\E outcome : Host!Return(r, outcome)
    <3>1. PICK ip : /\ rules' = [rules EXCEPT ![ip] = @ + 1]
                    /\ Host!Advance(r, ip) \/ \E outcome : Host!Return(r, outcome)
      BY <1>10, <2>3 DEF Host!Block
    <3>2. \A x \in Ip : rules'[x] = (IF x = ip THEN rules[x] + 1 ELSE rules[x]) /\ rules[x] \in Nat
      BY <1>2, <3>1
    <3>3. CASE \E outcome : Host!Return(r, outcome)
      BY <1>5, <1>6, <3>2, <3>3
    <3>4. CASE Host!Advance(r, ip)
      <4>1. worker'[r].done = worker[r].done \cup {ip}
        BY <1>1, <1>3, <3>4 DEF Host!Advance
      <4>2. PICK t \in Token : t = request[r].token
        BY <2>1, HandlersTyped DEF MitigationInv
      <4>3. ASSUME NEW x \in Ip
            PROVE  Claims(x)' \subseteq Claims(x) \cup (IF x = ip THEN {t} ELSE {})
        BY <1>0, <1>1, <2>1, <4>1, <4>2 DEF Claims
      <4>4. \A x \in Ip :
               \/ Claims(x)' \subseteq Claims(x) /\ rules'[x] >= rules[x]
               \/ \E u \in Token : Claims(x)' \subseteq Claims(x) \cup {u} /\ rules'[x] = rules[x] + 1
        <5> SUFFICES ASSUME NEW x \in Ip
                     PROVE  \/ Claims(x)' \subseteq Claims(x) /\ rules'[x] >= rules[x]
                            \/ \E u \in Token : /\ Claims(x)' \subseteq Claims(x) \cup {u}
                                                /\ rules'[x] = rules[x] + 1
          OBVIOUS
        <5>1. CASE x = ip
          BY <3>2, <4>3, <5>1
        <5>2. CASE x # ip
          <6>1. Claims(x)' \subseteq Claims(x)
            BY <4>3, <5>2
          <6>2. rules'[x] >= rules[x]
            BY <3>2, <5>2
          <6>3. QED
            BY <6>1, <6>2
        <5>3. QED
          BY <5>1, <5>2
      <4>5. QED
        BY <1>2, <4>4, CoverageKept
    <3>5. QED
      BY <3>1, <3>3, <3>4
  <2>4. QED
    BY <2>2, <2>3
<1>11. CASE Host!Unblock(r)
  <2>1. /\ worker[r].op = "unblock" /\ worker[r].pc = "unblock"
        /\ request[r] # None /\ request[r].entry # None
    <3>1. worker[r].op = "unblock" /\ worker[r].pc = "unblock"
      BY <1>4, <1>11 DEF Host!Unblock, HostProofs!PhaseFits
    <3>2. request[r] # None
      BY <3>1 DEF ThreadsServe
    <3>3. QED
      BY <3>1, <3>2 DEF ThreadsServe
  <2>2. CASE UNCHANGED rules /\ \E outcome : Host!Return(r, outcome)
    BY <1>5, <1>6, <1>7, <2>2
  <2>3. CASE UNCHANGED rules => ~\E outcome : Host!Return(r, outcome)
    <3>1. worker[r].todo # {} /\ Host!First(worker[r].todo) \in worker[r].todo
      <4>1. worker[r].todo # {} /\ worker[r].todo \in SUBSET Ip
        BY <1>1, <1>11, <2>3 DEF Host!Unblock, HostProofs!Thread
      <4>2. HostProofs!First(worker[r].todo) \in worker[r].todo
        BY <4>1, HostConstants, HostProofs!FirstOfThem
      <4>3. QED
        BY <4>1, <4>2 DEF Host!First, HostProofs!First
    <3>2. PICK ip \in Ip :
             /\ ip \in worker[r].todo /\ rules' = Host!RuleRemoved(ip)
             /\ Host!Advance(r, ip) \/ \E outcome : Host!Return(r, outcome)
      <4>1. worker[r].todo \in SUBSET Ip
        BY <1>1 DEF HostProofs!Thread
      <4>2. QED
        BY <1>11, <2>3, <3>1, <4>1 DEF Host!Unblock
    <3>3. /\ rules'[ip] = (IF rules[ip] > 0 THEN rules[ip] - 1 ELSE 0)
          /\ \A x \in Ip \ {ip} : rules'[x] = rules[x]
      BY <1>2, <3>2 DEF Host!RuleRemoved
    <3>4. /\ ~(worker'[r].pc = "unblock" /\ ip \in worker'[r].todo)
          /\ worker'[r].pc = "unblock" => worker'[r].todo \subseteq worker[r].todo
      <4>1. CASE Host!Advance(r, ip)
        <5>1. worker'[r].todo = worker[r].todo \ {ip}
          BY <1>1, <1>3, <4>1 DEF Host!Advance
        <5>2. QED
          BY <5>1
      <4>2. CASE \E outcome : Host!Return(r, outcome)
        BY <1>6, <4>2
      <4>3. QED
        BY <3>2, <4>1, <4>2
    <3>5. PICK e \in Token : e = request[r].entry.token
      BY <1>1, <2>1, HandlersTyped DEF MitigationInv
    <3>6. e \in Claims(ip)
      BY <1>1, <2>1, <3>2, <3>5, Claimants
    <3>7. \A x \in Ip : Claims(x)' \subseteq Claims(x)
      BY <1>0, <1>1, <2>1, <3>4, Claimants, ClaimsShrink
    <3>8. e \notin Claims(ip)'
      BY <1>0, <1>1, <2>1, <3>2, <3>4, <3>5, SoleClaimant
    <3>9. rules[ip] \in Nat /\ rules[ip] > 0
      <4>1. IsFiniteSet(Claims(ip)) /\ Cardinality(Claims(ip)) <= rules[ip]
        BY <3>2 DEF ClaimsCovered
      <4>2. Cardinality(Claims(ip)) \in Nat /\ Cardinality(Claims(ip)) # 0
        BY <3>6, <4>1, FS_CardinalityType, FS_EmptySet
      <4>3. rules[ip] \in Nat
        BY <1>2, <3>2
      <4>4. QED
        BY <4>1, <4>2, <4>3
    <3>10. \A x \in Ip :
              \/ Claims(x)' \subseteq Claims(x) /\ rules'[x] >= rules[x]
              \/ \E u \in Claims(x) : Claims(x)' \subseteq Claims(x) \ {u} /\ rules'[x] = rules[x] - 1
      <4> SUFFICES ASSUME NEW x \in Ip
                   PROVE  \/ Claims(x)' \subseteq Claims(x) /\ rules'[x] >= rules[x]
                          \/ \E u \in Claims(x) : /\ Claims(x)' \subseteq Claims(x) \ {u}
                                                  /\ rules'[x] = rules[x] - 1
        OBVIOUS
      <4>1. CASE x = ip
        <5>1. Claims(ip)' \subseteq Claims(ip) \ {e}
          BY <3>2, <3>7, <3>8
        <5>2. rules'[ip] = rules[ip] - 1
          BY <3>3, <3>9
        <5>3. QED
          BY <3>6, <4>1, <5>1, <5>2
      <4>2. CASE x # ip
        <5>1. rules'[x] = rules[x] /\ rules[x] \in Nat
          BY <1>2, <3>3, <4>2
        <5>2. QED
          BY <3>7, <5>1
      <4>3. QED
        BY <4>1, <4>2
    <3>11. QED
      BY <1>2, <3>10, CoverageKept
  <2>4. QED
    BY <2>2, <2>3
<1>12. QED
  BY <1>0, <1>8, <1>9, <1>10, <1>11 DEF Host!ThreadStep

LEMMA FirewallInvInductive == ServiceInv /\ FirewallInv /\ [Next]_vars => FirewallInv'
<1> SUFFICES ASSUME ServiceInv, FirewallInv, [Next]_vars, Platform = "linux", ~OutsideEdits
             PROVE  ClaimsCovered'
  BY DEF FirewallInv
<1>1. /\ RegistryInv /\ LedgerInv /\ HostInv
      /\ MitigationInv /\ ThreadsServe /\ SnapshotInv /\ ClaimsCovered
  BY DEF ServiceInv, FirewallInv
<1>2. rules \in [Ip -> Nat]
  BY <1>1 DEF HostInv, HostProofs!HInv, HostProofs!HostTypeOK
<1>3. ASSUME rules' = rules, \A ip \in Ip : Claims(ip)' \subseteq Claims(ip)
      PROVE  ClaimsCovered'
  BY <1>1, <1>2, <1>3, CoverageKept
<1>4. CASE \/ Tick \/ PodTick \/ Outside \/ UNCHANGED vars
           \/ \E t \in Token :
                 \/ \E command \in Command, mode \in Mode : Gate(t, command, mode)
                 \/ Preview(t)
  <2>1. UNCHANGED <<stack, worker, request>>
    BY <1>4 DEF Tick, PodTick, Outside, Host!OutsideStep, Host!ProcessExit, Host!ProcessStart,
                Host!ManualRemoval, vars, Gate, Preview
  <2>2. rules' = rules
    BY <1>4 DEF Tick, PodTick, Outside, Host!OutsideStep, Host!ProcessExit, Host!ProcessStart,
                Host!ManualRemoval, vars, Gate, Preview
  <2>3. QED
    BY <1>1, <1>3, <2>1, <2>2, ClaimsRest
<1>5. ASSUME NEW r \in Request, Thread(r) PROVE ClaimsCovered'
  BY <1>1, <1>5, ThreadCoverage
<1>6. ASSUME NEW r \in Request, Finish(r) PROVE ClaimsCovered'
  BY <1>1, <1>3, <1>6, FinishClaims
<1>7. ASSUME NEW t \in Token, Confirm(t) PROVE ClaimsCovered'
  BY <1>1, <1>3, <1>7, HandlersClaim
<1>8. CASE Previewing
  <2>1. PICK r \in Request :
           /\ request[r] = None /\ UNCHANGED request
           /\ \A s \in Request \ {r} : worker'[s] = worker[s]
    <3>1. PICK r \in Request : FinishPreview(r) \/ \E t \in Token : PreviewHost(r, t)
      BY <1>8 DEF Previewing
    <3>2. CASE FinishPreview(r)
      BY <1>1, <3>2, ThreadTyped DEF FinishPreview, Host!Collect
    <3>3. CASE \E t \in Token : PreviewHost(r, t)
      BY <1>1, <3>3, SubmitServes DEF PreviewHost
    <3>4. QED
      BY <3>1, <3>2, <3>3
  <2>2. rules' = rules /\ stack' = stack
    BY <1>8, PreviewsWriteNothing
  <2>3. \A ip \in Ip : Claims(ip)' \subseteq Claims(ip)
    BY <1>1, <2>1, <2>2, Claimants, ClaimsShrink
  <2>4. QED
    BY <1>3, <2>2, <2>3
<1>9. QED
  BY <1>4, <1>5, <1>6, <1>7, <1>8 DEF Next, Previewing

(* README "LIFO mitigation rollback stack": for every address the firewall  *)
(* holds a rule for each entry that promises to remove one, with any number *)
(* of handlers and faults, where a removal takes exactly one rule           *)
(* (iptables) and nobody edits the firewall by hand.                        *)
THEOREM EndpointFirewallAccounted ==
    Spec => [](Platform = "linux" /\ ~OutsideEdits => FirewallAccounted)
<1>1. ServiceInv /\ FirewallInv => (Platform = "linux" /\ ~OutsideEdits => FirewallAccounted)
  <2> SUFFICES ASSUME ServiceInv, ClaimsCovered, NEW ip \in Ip
               PROVE  Cardinality({i \in DOMAIN stack : ip \in stack[i].ips}) <= rules[ip]
    BY DEF FirewallInv, FirewallAccounted
  <2> DEFINE S == {i \in DOMAIN stack : ip \in stack[i].ips}
             f == [i \in S |-> stack[i].token]
  <2>1. StackShape /\ StackInv /\ MitigationInv
    BY DEF ServiceInv, MitigationInv
  <2>2. Len(stack) \in Nat /\ DOMAIN stack = 1..Len(stack)
    BY <2>1, StackItems
  <2>3. \A i \in S : stack[i].token \in Claims(ip)
    BY <2>1, Claimants
  <2>4. ASSUME NEW i \in S, NEW j \in S, i # j PROVE stack[i].token # stack[j].token
    <3>1. i < j \/ j < i
      BY <2>2, <2>4
    <3>2. QED
      BY <2>1, <3>1 DEF StackInv
  <2>5. f \in Injection(S, Claims(ip))
    BY <2>3, <2>4 DEF Injection, IsInjective
  <2>6. IsFiniteSet(Claims(ip)) /\ Cardinality(Claims(ip)) <= rules[ip] /\ rules[ip] \in Nat
    BY DEF ClaimsCovered, ServiceInv, HostInv, HostProofs!HInv, HostProofs!HostTypeOK
  <2> HIDE DEF S, f
  <2>7. IsFiniteSet(S) /\ Cardinality(S) <= Cardinality(Claims(ip))
    BY <2>5, <2>6, FS_Injection
  <2>8. Cardinality(S) \in Nat /\ Cardinality(Claims(ip)) \in Nat
    BY <2>6, <2>7, FS_CardinalityType
  <2>9. Cardinality(S) <= rules[ip]
    BY <2>6, <2>7, <2>8
  <2>10. QED
    BY <2>9 DEF S
<1>2. QED
  BY <1>1, ServiceInvAlways, FirewallInvInitially, FirewallInvInductive, PTL DEF Spec

-----------------------------------------------------------------------------
(* The lifecycle of a command. A token has one handler at most; which one   *)
(* CHOOSE finds is no question.                                             *)
LEMMA ServedByOne ==
  ASSUME NEW req, NEW t, NEW r \in Request, req[r] # None /\ req[r].token = t,
         \A s \in Request : req[s] # None /\ req[s].token = t => s = r
  PROVE  (CHOOSE s \in Request : req[s] # None /\ req[s].token = t) = r
  OBVIOUS

(* How the lifecycle sees a token, now and after a step. *)
LEMMA ReversalNow ==
  ASSUME HandlersDistinct, NEW t \in Token, NEW r \in Request, Serves(r, t), ~Log!Resolved(t)
  PROVE  ReversedBy(t) = IF request[r].entry = None THEN None ELSE request[r].entry.token
<1>1. \A s \in Request : request[s] # None /\ request[s].token = t => s = r
  BY DEF HandlersDistinct, Serves
<1>2. (CHOOSE s \in Request : request[s] # None /\ request[s].token = t) = r
  BY <1>1, ServedByOne DEF Serves
<1>3. InFlight(t)
  BY DEF InFlight
<1>4. QED
  BY <1>2, <1>3 DEF ReversedBy, Serves

LEMMA ReversalNext ==
  ASSUME HandlersDistinct', NEW t \in Token, NEW r \in Request, Serves(r, t)', ~Log!Resolved(t)'
  PROVE  ReversedBy(t)' = IF request'[r].entry = None THEN None ELSE request'[r].entry.token
<1>1. \A s \in Request : request'[s] # None /\ request'[s].token = t => s = r
  BY DEF HandlersDistinct, Serves
<1>2. (CHOOSE s \in Request : request'[s] # None /\ request'[s].token = t) = r
  BY <1>1, ServedByOne DEF Serves
<1>3. InFlight(t)'
  BY DEF InFlight
<1>4. QED
  BY <1>2, <1>3 DEF ReversedBy, Serves

(* A step that is about t changes nothing that is known of the others. *)
LEMMA OthersStand ==
  ASSUME HandlersDistinct, HandlersDistinct', NEW t \in Token,
         \A u \in Token \ {t} : records'[u] = records[u] /\ grants'[u] = grants[u],
         \A r \in Request : \/ request'[r] = request[r]
                            \/ /\ request[r] # None => request[r].token = t
                               /\ request'[r] # None => request'[r].token = t
  PROVE  /\ Asked' = [Asked EXCEPT ![t] = AskedOf(t)']
         /\ Outcomes' = [Outcomes EXCEPT ![t] = OutcomeOf(t)']
         /\ Reversals' = [Reversals EXCEPT ![t] = ReversedBy(t)']
<1>1. ASSUME NEW u \in Token \ {t}
      PROVE  AskedOf(u)' = AskedOf(u) /\ OutcomeOf(u)' = OutcomeOf(u) /\ ReversedBy(u)' = ReversedBy(u)
  <2>1. ASSUME NEW r \in Request
        PROVE  /\ Serves(r, u)' <=> Serves(r, u)
               /\ Serves(r, u) => request'[r] = request[r]
    BY DEF Serves
  <2>2. InFlight(u)' <=> InFlight(u)
    BY <2>1 DEF InFlight
  <2>3. Log!Resolved(u)' <=> Log!Resolved(u)
    BY DEF Log!Resolved, Log!Opened
  <2>4. AskedOf(u)' = AskedOf(u) /\ OutcomeOf(u)' = OutcomeOf(u)
    BY <2>2, <2>3 DEF AskedOf, OutcomeOf, Log!Opened
  <2>5. CASE Log!Resolved(u) \/ ~InFlight(u)
    <3>1. ReversedBy(u) = IF Log!Resolved(u) THEN records[u].linked_token ELSE None
      BY <2>5 DEF ReversedBy
    <3>2. ReversedBy(u)' = IF Log!Resolved(u)' THEN records'[u].linked_token ELSE None
      BY <2>2, <2>3, <2>5 DEF ReversedBy
    <3>3. QED
      BY <2>3, <2>4, <3>1, <3>2
  <2>6. CASE ~Log!Resolved(u) /\ InFlight(u)
    <3>1. PICK r \in Request : Serves(r, u)
      BY <2>6 DEF InFlight
    <3>2. ReversedBy(u) = IF request[r].entry = None THEN None ELSE request[r].entry.token
      BY <2>6, <3>1, ReversalNow
    <3>3. ReversedBy(u)' = IF request'[r].entry = None THEN None ELSE request'[r].entry.token
      BY <2>1, <2>3, <2>6, <3>1, ReversalNext
    <3>4. QED
      BY <2>1, <2>4, <3>1, <3>2, <3>3
  <2>7. QED
    BY <2>5, <2>6
<1>2. Asked' = [Asked EXCEPT ![t] = AskedOf(t)']
  BY <1>1 DEF Asked
<1>3. Outcomes' = [Outcomes EXCEPT ![t] = OutcomeOf(t)']
  BY <1>1 DEF Outcomes
<1>4. Reversals' = [Reversals EXCEPT ![t] = ReversedBy(t)']
  BY <1>1 DEF Reversals
<1>5. QED
  BY <1>2, <1>3, <1>4

(* A step that touches neither ledger, handlers nor stack, and redeems      *)
(* nothing, is invisible to the lifecycle, but for the lease.               *)
LEMMA QuietLife ==
  ASSUME HandlersDistinct, HandlersDistinct', UNCHANGED <<records, grants, request, stack>>
  PROVE  UNCHANGED <<Asked, Running, Outcomes, Reversible, Reversals>>
<1>1. \A t \in Token : AskedOf(t)' = AskedOf(t) /\ OutcomeOf(t)' = OutcomeOf(t)
  BY DEF AskedOf, OutcomeOf, Log!Opened, Log!Resolved, InFlight, Serves
<1>2. ASSUME NEW t \in Token PROVE ReversedBy(t)' = ReversedBy(t)
  <2>1. CASE Log!Resolved(t) \/ ~InFlight(t)
    BY <2>1 DEF ReversedBy, Log!Resolved, Log!Opened, InFlight, Serves
  <2>2. CASE ~Log!Resolved(t) /\ InFlight(t)
    <3>1. PICK r \in Request : Serves(r, t)
      BY <2>2 DEF InFlight
    <3>2. Serves(r, t)' /\ ~Log!Resolved(t)'
      BY <2>2, <3>1 DEF Serves, Log!Resolved, Log!Opened
    <3>3. QED
      BY <2>2, <3>1, <3>2, ReversalNow, ReversalNext
  <2>3. QED
    BY <2>1, <2>2
<1>3. QED
  BY <1>1, <1>2 DEF Asked, Running, Outcomes, Reversible, Reversals

-----------------------------------------------------------------------------
(* The lease under it: a redemption that succeeds is a grant.               *)
LEMMA RedemptionGrants ==
  ASSUME RegistryInv, NEW t \in Token, Registry!Redeem(t), Redeemable(t) # None
  PROVE  /\ Lifecycle!Grant(t) /\ grants'[t] # <<>>
         /\ \A u \in Token \ {t} : grants'[u] = grants[u]
<1>1. RegistryProofs!TypeOK /\ RegistryProofs!StoreAgrees
  BY DEF RegistryInv, RegistryProofs!IInv
<1>2. RegistryProofs!Pruned[t] = Registry!Pruned[t] /\ Registry!Pruned[t] # None
  BY DEF RegistryProofs!Pruned, Registry!Pruned, RegistryProofs!Expired, Registry!Expired, Redeemable
<1>3. pending[t] # None /\ now < pending[t].expires_at
  BY <1>1, <1>2, RegistryConstants, RegistryProofs!PrunedFacts
<1>4. deadline[t] = pending[t].expires_at /\ grants[t] = <<>>
  BY <1>1, <1>3 DEF RegistryProofs!StoreAgrees
<1>5. deadline[t] # None
  BY <1>1, <1>3, <1>4, RegistryConstants DEF RegistryProofs!TypeOK, RegistryProofs!PendingConfirmation
<1>6. Lifecycle!Grant(t)
  BY <1>2, <1>3, <1>4, <1>5 DEF Registry!Redeem, Lifecycle!Grant
<1>7. \A u \in Token \ {t} : grants'[u] = grants[u]
  BY <1>1, <1>2 DEF Registry!Redeem, RegistryProofs!TypeOK
<1>8. QED
  BY <1>6, <1>7, Redemption

(* What becomes of t when its incident is resolved. *)
LEMMA ResolvedLife ==
  ASSUME LogInv, MitigationInv, NEW t \in Token, NEW success \in BOOLEAN,
         NEW linked \in Token \cup {None}, Log!Opened(t), ~Log!Resolved(t),
         Log!ResolveIncident(t, success, linked)
  PROVE  /\ AskedOf(t)' = AskedOf(t)
         /\ OutcomeOf(t)' = IF success THEN "succeeded" ELSE "failed"
         /\ ReversedBy(t)' = linked
         /\ \A u \in Token \ {t} : records'[u] = records[u]
<1>1. /\ Log!Opened(t)' /\ Log!Resolved(t)' /\ records'[t].command = records[t].command
      /\ records'[t].success = success
      /\ records'[t].linked_token = (IF linked # None THEN linked ELSE records[t].linked_token)
      /\ \A u \in Token \ {t} : records'[u] = records[u]
  BY Resolution
<1>2. records[t].linked_token = None
  BY DEF MitigationInv, LinkedResolved
<1>3. AskedOf(t)' = AskedOf(t)
  BY <1>1 DEF AskedOf
<1>4. OutcomeOf(t)' = IF success THEN "succeeded" ELSE "failed"
  BY <1>1 DEF OutcomeOf
<1>5. ReversedBy(t)' = linked
  BY <1>1, <1>2 DEF ReversedBy
<1>6. QED
  BY <1>1, <1>3, <1>4, <1>5

(* What it is before: a command nobody took up, or one that is running. *)
LEMMA OfferedLife ==
  ASSUME RegistryInv, LedgerInv, MitigationInv, NEW t \in Token, Redeemable(t) # None
  PROVE  /\ t \notin Running /\ ~InFlight(t)
         /\ Bare(Redeemable(t).command) <=> Asked[t] = "rollback"
         /\ ~Bare(Redeemable(t).command) =>
               (Redeemable(t).command.intent # "ROLLBACK" <=> Asked[t] = "mitigation")
         /\ AskedOf(t) = Asked[t] /\ Outcomes[t] = OutcomeOf(t) /\ Reversals[t] = None
<1>1. /\ Log!Opened(t) /\ ~Log!Resolved(t) /\ records[t].command = Redeemable(t).command
      /\ \A r \in Request : request[r] # None => request[r].token # t
  BY RedeemedIncident
<1>2. ~InFlight(t) /\ t \notin Running
  BY <1>1 DEF InFlight, Serves, Running
<1>3. Asked[t] = AskedOf(t) /\ Outcomes[t] = OutcomeOf(t) /\ Reversals[t] = ReversedBy(t)
  BY DEF Asked, Outcomes, Reversals
<1>4. ReversedBy(t) = None
  BY <1>1, <1>2 DEF ReversedBy
<1>5. AskedOf(t) = IF Bare(Redeemable(t).command) THEN "rollback"
                   ELSE IF Redeemable(t).command.intent = "ROLLBACK" THEN "restore" ELSE "mitigation"
  BY <1>1 DEF AskedOf
<1>6. QED
  BY <1>2, <1>3, <1>4, <1>5

(* The stack as the lifecycle sees it. *)
LEMMA ReversibleNow ==
  ASSUME StackShape
  PROVE  /\ Reversible \in Seq(Token) /\ Len(Reversible) = Len(stack)
         /\ \A i \in 1..Len(stack) : Reversible[i] = stack[i].token
         /\ Reversible = <<>> <=> stack = <<>>
         /\ Reversible = <<>> <=> Stack!Top = None
         /\ stack # <<>> => Reversible[Len(Reversible)] = Stack!Top.token
<1>1. /\ stack \in Seq(Stack!MitigationEntry) /\ Len(stack) \in Nat /\ DOMAIN stack = 1..Len(stack)
      /\ \A i \in 1..Len(stack) : stack[i] \in Stack!MitigationEntry
  BY StackItems
<1>2. \A i \in 1..Len(stack) : stack[i].token \in Token /\ stack[i] # None
  BY <1>1, EntriesTyped
<1>3. /\ Reversible \in Seq(Token) /\ Len(Reversible) = Len(stack)
      /\ \A i \in 1..Len(stack) : Reversible[i] = stack[i].token
  BY <1>1, <1>2 DEF Reversible
<1>4. Reversible = <<>> <=> stack = <<>>
  BY <1>1, <1>3
<1>5. stack # <<>> => Len(stack) \in 1..Len(stack) /\ Stack!Top = stack[Len(stack)]
  BY <1>1 DEF Stack!Top
<1>6. Stack!Top = None <=> stack = <<>>
  BY <1>2, <1>5 DEF Stack!Top
<1>7. QED
  BY <1>3, <1>4, <1>5, <1>6

LEMMA ReversibleNext ==
  ASSUME StackShape'
  PROVE  /\ Reversible' \in Seq(Token) /\ Len(Reversible)' = Len(stack')
         /\ \A i \in 1..Len(stack') : Reversible'[i] = stack'[i].token
<1>1. stack' \in Seq(Stack!MitigationEntry)
  BY DEF StackShape, Stack!StackTypeOK
<1>2. /\ Len(stack') \in Nat /\ DOMAIN stack' = 1..Len(stack')
      /\ \A i \in 1..Len(stack') : stack'[i] \in Stack!MitigationEntry
  BY <1>1
<1>3. \A i \in 1..Len(stack') : stack'[i].token \in Token
  BY <1>2, EntriesTyped
<1>4. QED
  BY <1>2, <1>3 DEF Reversible

(* Sequences are equal when their items are. *)
LEMMA SameSequence ==
  ASSUME NEW S, NEW p \in Seq(S), NEW q \in Seq(S), Len(p) = Len(q),
         \A i \in 1..Len(p) : p[i] = q[i]
  PROVE  p = q
  OBVIOUS

LEMMA SameExtension ==
  ASSUME NEW S, NEW n \in Nat, NEW p \in Seq(S), NEW q \in Seq(S), Len(p) = n + 1, Len(q) = n + 1,
         p[n + 1] = q[n + 1], \A i \in 1..n : p[i] = q[i]
  PROVE  p = q
<1>1. \A i \in 1..Len(p) : i \in 1..n \/ i = n + 1
  OBVIOUS
<1>2. QED
  BY <1>1, SameSequence

(* Popping an entry takes the newest mitigation out of line, ... *)
LEMMA PopReverses ==
  ASSUME MitigationInv, stack # <<>>, Stack!Pop
  PROVE  Reversible' = Lifecycle!PopRight(Reversible)
<1>0. StackShape /\ StackShape'
  BY PopKeepsRest DEF MitigationInv
<1>1. /\ Len(stack') = Len(stack) - 1 /\ Keeps(Len(stack'), 0)
      /\ Len(stack) \in Nat /\ DOMAIN stack' = 1..Len(stack')
  BY <1>0, PopKeepsRest, StackItems DEF MitigationInv
<1>2. Reversible \in Seq(Token) /\ Len(Reversible) = Len(stack)
      /\ \A i \in 1..Len(stack) : Reversible[i] = stack[i].token
  BY <1>0, ReversibleNow
<1>3. Reversible' = [i \in 1..(Len(stack) - 1) |-> stack[i].token]
  BY <1>1 DEF Reversible, Keeps
<1>4. Lifecycle!PopRight(Reversible) = SubSeq(Reversible, 1, Len(stack) - 1)
  BY <1>2 DEF Lifecycle!PopRight
<1>5. QED
  BY <1>1, <1>2, <1>3, <1>4

(* ... and pushing one puts its token in line. *)
LEMMA PushQueues ==
  ASSUME StackShape, NEW e \in Stack!MitigationEntry, Stack!Push(e)
  PROVE  Reversible' = Lifecycle!AppendRight(Reversible, e.token, MaxEntries)
<1>0. /\ StackShape' /\ stack \in Seq(Stack!MitigationEntry) /\ Len(stack) \in Nat
      /\ Len(stack) <= MaxEntries /\ MaxEntries \in Nat \ {0} /\ e.token \in Token
  BY PushKeepsRest, StackItems, EntriesTyped, EndpointAssumption DEF StackShape, EndpointAssumption
<1>1. Reversible \in Seq(Token) /\ Len(Reversible) = Len(stack)
      /\ \A i \in 1..Len(stack) : Reversible[i] = stack[i].token
  BY <1>0, ReversibleNow
<1> DEFINE n == Len(stack)
<1>2. CASE n < MaxEntries
  <2>1. stack' = Append(stack, e) /\ Lifecycle!AppendRight(Reversible, e.token, MaxEntries) = Append(Reversible, e.token)
    BY <1>1, <1>2 DEF Stack!Push, Stack!AppendRight, Lifecycle!AppendRight
  <2>2. /\ Len(stack') = n + 1 /\ stack'[n + 1] = e
        /\ \A i \in 1..n : stack'[i] = stack[i]
    BY <1>0, <2>1
  <2>3. /\ Append(Reversible, e.token) \in Seq(Token)
        /\ Len(Append(Reversible, e.token)) = n + 1
        /\ Append(Reversible, e.token)[n + 1] = e.token
        /\ \A i \in 1..n : Append(Reversible, e.token)[i] = stack[i].token
    BY <1>0, <1>1
  <2>4. /\ Reversible' \in Seq(Token) /\ Len(Reversible)' = n + 1
        /\ Reversible'[n + 1] = e.token
        /\ \A i \in 1..n : Reversible'[i] = stack[i].token
    <3>1. /\ Reversible' \in Seq(Token) /\ Len(Reversible)' = Len(stack')
          /\ \A i \in 1..Len(stack') : Reversible'[i] = stack'[i].token
      BY <1>0, ReversibleNext
    <3>2. n + 1 \in 1..Len(stack') /\ \A i \in 1..n : i \in 1..Len(stack')
      BY <1>0, <2>2
    <3>3. QED
      BY <2>2, <3>1, <3>2
  <2>5. Reversible' = Append(Reversible, e.token)
    <3> HIDE DEF n
    <3>1. n \in Nat
      BY <1>0 DEF n
    <3>2. QED
      BY ONLY <2>3, <2>4, <3>1, SameExtension
  <2>6. QED
    BY <2>1, <2>5
<1>3. CASE ~(n < MaxEntries)
  <2>1. stack' = Append(Tail(stack), e) /\ n - 1 \in Nat
    BY <1>0, <1>3 DEF Stack!Push, Stack!AppendRight
  <2>2. PICK m \in Nat : n = m + 1
    BY <1>0, <2>1
  <2>3. Lifecycle!AppendRight(Reversible, e.token, MaxEntries) = Append(Tail(Reversible), e.token)
    BY <1>1, <1>3 DEF Lifecycle!AppendRight
  <2>4. /\ Len(stack') = m + 1 /\ stack'[m + 1] = e
        /\ \A i \in 1..m : stack'[i] = stack[i + 1]
    BY <1>0, <2>1, <2>2
  <2>5. /\ Append(Tail(Reversible), e.token) \in Seq(Token)
        /\ Len(Append(Tail(Reversible), e.token)) = m + 1
        /\ Append(Tail(Reversible), e.token)[m + 1] = e.token
        /\ \A i \in 1..m : Append(Tail(Reversible), e.token)[i] = stack[i + 1].token
    <3>1. Len(Reversible) = m + 1 /\ Reversible # <<>>
      BY <1>1, <2>2
    <3>2. /\ Tail(Reversible) \in Seq(Token) /\ Len(Tail(Reversible)) = m
          /\ \A i \in 1..m : Tail(Reversible)[i] = Reversible[i + 1]
      BY <1>1, <3>1
    <3>3. QED
      BY <1>0, <1>1, <2>2, <3>2
  <2>6. /\ Reversible' \in Seq(Token) /\ Len(Reversible)' = m + 1
        /\ Reversible'[m + 1] = e.token
        /\ \A i \in 1..m : Reversible'[i] = stack[i + 1].token
    <3>1. /\ Reversible' \in Seq(Token) /\ Len(Reversible)' = Len(stack')
          /\ \A i \in 1..Len(stack') : Reversible'[i] = stack'[i].token
      BY <1>0, ReversibleNext
    <3>2. m + 1 \in 1..Len(stack') /\ \A i \in 1..m : i \in 1..Len(stack')
      BY <2>4
    <3>3. QED
      BY <2>4, <3>1, <3>2
  <2>7. Reversible' = Append(Tail(Reversible), e.token)
    BY ONLY <2>5, <2>6, m \in Nat, SameExtension
  <2>8. QED
    BY <2>3, <2>7
<1>4. QED
  BY <1>2, <1>3

-----------------------------------------------------------------------------
(* A thread that removes rules has no process to miss or to protect: it     *)
(* only ever answers that it succeeded or failed.                           *)
UnblockAnswers ==
    \A r \in Request : worker[r].op = "unblock" => worker[r].outcome \in {"ok", "failed"}

LEMMA UnblockAnswersInitially == Init => UnblockAnswers
  BY DEF Init, Host!HostInit, Host!IdleThread, UnblockAnswers

LEMMA ThreadAnswers ==
  ASSUME HostInv, UnblockAnswers, NEW r \in Request, Host!ThreadStep(r)
  PROVE  UnblockAnswers'
<1>0. /\ worker = [s \in Request |-> worker[s]] /\ worker[r] \in HostProofs!Thread
      /\ worker'[r].op = worker[r].op /\ \A s \in Request \ {r} : worker'[s] = worker[s]
  BY ThreadTyped, ThreadStepServes
<1>1. /\ worker[r].pc \in {"open", "inspect"} => worker[r].op \in {"terminate", "isolate"}
      /\ worker[r].pc = "connections" => worker[r].op = "isolate"
      /\ worker[r].pc \in {"terminate", "wait", "kill", "kill wait"} => worker[r].op = "terminate"
  BY DEF HostInv, HostProofs!HInv, HostProofs!PhaseFits
<1>2. worker[r].pc \in {"open", "inspect", "connections", "terminate", "wait", "kill", "kill wait"}
         => UnblockAnswers'
  BY <1>0, <1>1 DEF UnblockAnswers
<1>3. ASSUME NEW outcome \in {"ok", "failed"}, Host!Return(r, outcome)
      PROVE  worker'[r].outcome = outcome
  BY <1>0, <1>3 DEF Host!Return, HostProofs!Thread
<1>4. ASSUME NEW ip, Host!Advance(r, ip)
      PROVE  worker'[r].outcome = worker[r].outcome
  BY <1>0, <1>4 DEF Host!Advance, HostProofs!Thread
<1>5. CASE Host!Block(r) \/ Host!Unblock(r)
  <2>1. worker'[r].outcome \in {"ok", "failed", worker[r].outcome}
    BY <1>3, <1>4, <1>5 DEF Host!Block, Host!Unblock
  <2>2. QED
    BY <1>0, <2>1 DEF UnblockAnswers
<1>6. QED
  BY <1>2, <1>5 DEF Host!ThreadStep, Host!Open, Host!Inspect, Host!Connections, Host!Terminate,
                    Host!Kill, Host!WaitReturns, Host!WaitTimesOut, Host!KillWaitTimesOut

LEMMA UnblockAnswersInductive ==
  ASSUME HostInv, UnblockAnswers, [Next]_vars
  PROVE  UnblockAnswers'
<1>0. worker = [s \in Request |-> worker[s]]
  BY DEF HostInv, HostProofs!HInv, HostProofs!HostTypeOK
<1>1. CASE UNCHANGED worker
  BY <1>1 DEF UnblockAnswers
<1>2. ASSUME NEW r \in Request, Thread(r)
      PROVE  UnblockAnswers'
  BY <1>2, ThreadAnswers DEF Thread
<1>3. ASSUME NEW r \in Request, NEW new, new.outcome = "ok", worker' = [worker EXCEPT ![r] = new]
      PROVE  UnblockAnswers'
  BY <1>0, <1>3 DEF UnblockAnswers
<1>4. ASSUME NEW r \in Request, Finish(r)
      PROVE  UnblockAnswers'
  BY <1>3, <1>4 DEF Finish, Host!Collect, Host!IdleThread
<1>5. ASSUME NEW t \in Token, NEW r \in Request,
             ConfirmUnblock(r, t) \/ ConfirmHost(r, t) \/ PreviewHost(r, t)
      PROVE  UnblockAnswers'
  <2>1. PICK op, pid, ips, dry_run : Host!Submit(r, op, pid, ips, dry_run)
    BY <1>5 DEF ConfirmUnblock, ConfirmHost, PreviewHost
  <2>2. worker'[r].outcome = "ok" /\ \A s \in Request \ {r} : worker'[s] = worker[s]
    BY <2>1, SubmitServes
  <2>3. QED
    BY <2>2 DEF UnblockAnswers
<1>6. ASSUME NEW r \in Request, FinishPreview(r)
      PROVE  UnblockAnswers'
  BY <1>3, <1>6 DEF FinishPreview, Host!Collect, Host!IdleThread
<1>7. QED
  <2>1. CASE \/ Tick \/ PodTick \/ Outside \/ UNCHANGED vars
             \/ \E t \in Token :
                   \/ \E command \in Command, mode \in Mode : Gate(t, command, mode)
                   \/ Preview(t) \/ ConfirmRefused(t) \/ ConfirmRollback(t) \/ ConfirmCluster(t)
    BY <1>1, <2>1 DEF Tick, PodTick, Outside, Host!OutsideStep, Host!ProcessExit, Host!ProcessStart,
                      Host!ManualRemoval, vars, Gate, Preview, ConfirmRefused, ConfirmRollback,
                      ConfirmCluster, HostUntouched
  <2>2. QED
    BY <1>2, <1>4, <1>5, <1>6, <2>1 DEF Next, Confirm

-----------------------------------------------------------------------------
(* The steps of the service, seen from the lifecycle: what is offered, ...  *)

LEMMA GateLife ==
  ASSUME RegistryInv, LedgerInv, LedgerInv', MitigationInv',
         NEW t \in Token, NEW command \in Command, NEW mode \in Mode, Gate(t, command, mode)
  PROVE  \E kind \in Lifecycle!Kind : Lifecycle!Offer(t, kind)
<1>1. /\ deadline[t] = None /\ records[t] = None /\ UNCHANGED <<now, grants, stack, request>>
      /\ deadline' = [deadline EXCEPT ![t] = now + TTL]
      /\ \A u \in Token \ {t} : records'[u] = records[u]
      /\ records'[t].resolved_at = None
  BY DEF Gate, Registry!Register, Log!OpenIncident, LedgerInv, IssuedBeforeOpened, Shapes
<1>2. /\ Asked' = [Asked EXCEPT ![t] = AskedOf(t)']
      /\ Outcomes' = [Outcomes EXCEPT ![t] = OutcomeOf(t)']
      /\ Reversals' = [Reversals EXCEPT ![t] = ReversedBy(t)']
  BY <1>1, OthersStand DEF LedgerInv
<1>3. ~Log!Resolved(t) /\ ~Log!Resolved(t)' /\ ~InFlight(t) /\ ~InFlight(t)'
  BY <1>1 DEF Log!Resolved, Log!Opened, InFlight, Serves, LedgerInv, SuspendedUnresolved
<1>4. OutcomeOf(t)' = OutcomeOf(t) /\ ReversedBy(t)' = None /\ ReversedBy(t) = None
  BY <1>1, <1>3 DEF OutcomeOf, ReversedBy
<1>5. Outcomes' = Outcomes /\ Reversals' = Reversals
  BY <1>2, <1>4 DEF Outcomes, Reversals
<1>6. Log!Opened(t)'
  <2>1. pending'[t] = [command |-> command, mode |-> mode, created_at |-> now, expires_at |-> now + TTL]
    BY DEF Gate, Registry!Register, Registry!Pruned
  <2>2. pending'[t] # None
    <3>1. pending'[t] \in Registry!PendingConfirmation
      BY <2>1, RegistryConstants
         DEF RegistryInv, RegistryProofs!IInv, RegistryProofs!TypeOK, Registry!PendingConfirmation
    <3>2. QED
      BY <3>1, EndpointAssumption DEF EndpointAssumption
  <2>3. QED
    BY <2>2 DEF MitigationInv, OffersOpened
<1>7. AskedOf(t)' \in Lifecycle!Kind
  BY <1>6 DEF AskedOf, Lifecycle!Kind
<1>8. Lifecycle!Issue(t) /\ UNCHANGED <<Running, Reversible>>
  BY <1>1 DEF Lifecycle!Issue, Running, Reversible
<1>9. QED
  BY <1>2, <1>5, <1>7, <1>8 DEF Lifecycle!Offer

(* ... what is refused although it could be redeemed, ... *)
LEMMA RefusedLife ==
  ASSUME RegistryInv, LedgerInv, LedgerInv', MitigationInv, NEW t \in Token, ConfirmRefused(t)
  PROVE  Lifecycle!Execute(t) \/ UNCHANGED Lifecycle!lifecycle
<1>1. UNCHANGED <<records, stack, request>> /\ Registry!Redeem(t) /\ UNCHANGED deadline
  BY DEF ConfirmRefused, HostUntouched, Registry!Redeem
<1>2. CASE Redeemable(t) = None
  <2>1. UNCHANGED <<now, grants>>
    BY <1>1, <1>2 DEF Registry!Redeem, Redeemable
  <2>2. QED
    BY <1>1, <2>1, QuietLife DEF LedgerInv, Lifecycle!lifecycle, Lifecycle!lease
<1>3. CASE Redeemable(t) # None
  <2>1. ~Bare(Redeemable(t).command) /\ Lifecycle!Grant(t)
    BY <1>1, <1>3, RedemptionGrants DEF ConfirmRefused
  <2>2. /\ ~InFlight(t) /\ Asked[t] # "rollback" /\ Reversals[t] = None /\ AskedOf(t) = Asked[t]
        /\ ~Log!Resolved(t)
    BY <1>3, <2>1, OfferedLife, RedeemedIncident
  <2>3. grants'[t] # <<>> /\ \A u \in Token \ {t} : grants'[u] = grants[u]
    BY <1>1, <1>3, RedemptionGrants
  <2>4. /\ Asked' = [Asked EXCEPT ![t] = AskedOf(t)']
        /\ Outcomes' = [Outcomes EXCEPT ![t] = OutcomeOf(t)']
        /\ Reversals' = [Reversals EXCEPT ![t] = ReversedBy(t)']
    BY <1>1, <2>3, OthersStand DEF LedgerInv
  <2>5. ~InFlight(t)' /\ ~Log!Resolved(t)' /\ AskedOf(t)' = AskedOf(t)
    BY <1>1, <2>2 DEF InFlight, Serves, Log!Resolved, Log!Opened, AskedOf
  <2>6. OutcomeOf(t)' = "refused" /\ ReversedBy(t)' = None
    BY <2>3, <2>5 DEF OutcomeOf, ReversedBy
  <2>7. Asked' = Asked /\ Reversals' = Reversals
    BY <2>2, <2>4, <2>5, <2>6 DEF Asked, Reversals
  <2>8. UNCHANGED <<Running, Reversible>>
    BY <1>1 DEF Running, Reversible
  <2>9. Lifecycle!Conclude(t, "refused")
    BY <2>4, <2>6, <2>8 DEF Lifecycle!Conclude
  <2>10. QED
    BY <2>1, <2>2, <2>7, <2>8, <2>9 DEF Lifecycle!Execute
<1>4. QED
  BY <1>2, <1>3

(* ... what is executed or reversed at once, ... *)
LEMMA ResolvingLife ==
  ASSUME RegistryInv, LedgerInv, LedgerInv', LogInv, MitigationInv, NEW t \in Token,
         Registry!Redeem(t), Redeemable(t) # None, request' = request,
         NEW success \in BOOLEAN, NEW linked \in Token \cup {None},
         Log!ResolveIncident(t, success, linked)
  PROVE  /\ Lifecycle!Grant(t) /\ UNCHANGED <<Asked, Running>>
         /\ Outcomes' = [Outcomes EXCEPT ![t] = IF success THEN "succeeded" ELSE "failed"]
         /\ Reversals' = [Reversals EXCEPT ![t] = linked]
<1>1. /\ Lifecycle!Grant(t) /\ \A u \in Token \ {t} : grants'[u] = grants[u]
  BY RedemptionGrants
<1>2. Log!Opened(t) /\ ~Log!Resolved(t) /\ AskedOf(t) = Asked[t]
  BY RedeemedIncident, OfferedLife
<1>3. /\ AskedOf(t)' = AskedOf(t) /\ ReversedBy(t)' = linked
      /\ OutcomeOf(t)' = IF success THEN "succeeded" ELSE "failed"
      /\ \A u \in Token \ {t} : records'[u] = records[u]
  BY <1>2, ResolvedLife
<1>4. /\ Asked' = [Asked EXCEPT ![t] = AskedOf(t)']
      /\ Outcomes' = [Outcomes EXCEPT ![t] = OutcomeOf(t)']
      /\ Reversals' = [Reversals EXCEPT ![t] = ReversedBy(t)']
  BY <1>1, <1>3, OthersStand DEF LedgerInv
<1>5. Asked' = Asked
  BY <1>2, <1>3, <1>4 DEF Asked
<1>6. Running' = Running
  BY DEF Running
<1>7. QED
  BY <1>1, <1>3, <1>4, <1>5, <1>6

LEMMA ClusterLife ==
  ASSUME RegistryInv, LedgerInv, LedgerInv', LogInv, MitigationInv,
         pods \in [Pod -> Cluster!PodState], NEW t \in Token, ConfirmCluster(t)
  PROVE  Lifecycle!Execute(t)
<1>1. /\ Redeemable(t) # None /\ Registry!Redeem(t) /\ request' = request
      /\ ~Bare(Redeemable(t).command) /\ Redeemable(t).command.name \in Pod
      /\ Log!ResolveIncident(t, TRUE, None)
  BY DEF ConfirmCluster, HostUntouched
<1>2. /\ Lifecycle!Grant(t) /\ UNCHANGED <<Asked, Running>>
      /\ Outcomes' = [Outcomes EXCEPT ![t] = "succeeded"]
      /\ Reversals' = [Reversals EXCEPT ![t] = None]
  BY <1>1, ResolvingLife
<1>3. /\ Asked[t] # "rollback" /\ Reversals[t] = None
      /\ Redeemable(t).command.intent # "ROLLBACK" <=> Asked[t] = "mitigation"
  BY <1>1, OfferedLife
<1>4. Reversals' = Reversals
  BY <1>2, <1>3 DEF Reversals
<1>5. Lifecycle!Conclude(t, "succeeded")
  <2>1. CASE Redeemable(t).command.intent = "ROLLBACK"
    <3>1. Reversible' = Reversible
      BY <2>1 DEF ConfirmCluster, Reversible
    <3>2. QED
      BY <1>2, <1>3, <2>1, <3>1 DEF Lifecycle!Conclude
  <2>2. CASE Redeemable(t).command.intent # "ROLLBACK"
    <3> DEFINE p == Redeemable(t).command.name
               e == PodEntry(t, p, pods[p])
    <3>1. Stack!Push(e) /\ e \in Stack!MitigationEntry /\ e.token = t
      BY <1>1, <2>2 DEF ConfirmCluster, PodEntry, Stack!MitigationEntry, Mode
    <3> HIDE DEF e
    <3>2. Reversible' = Lifecycle!AppendRight(Reversible, t, MaxEntries)
      BY <3>1, PushQueues DEF MitigationInv
    <3>3. QED
      BY <1>2, <1>3, <2>2, <3>2 DEF Lifecycle!Conclude
  <2>3. QED
    BY <2>1, <2>2
<1>6. QED
  BY <1>2, <1>3, <1>4, <1>5 DEF Lifecycle!Execute

LEMMA RollbackLife ==
  ASSUME RegistryInv, LedgerInv, LedgerInv', LogInv, MitigationInv,
         NEW t \in Token, ConfirmRollback(t)
  PROVE  Lifecycle!NothingToReverse(t) \/ Lifecycle!Reverse(t)
<1>1. /\ Redeemable(t) # None /\ Registry!Redeem(t) /\ request' = request
      /\ Bare(Redeemable(t).command) /\ StackShape
  BY DEF ConfirmRollback, HostUntouched, MitigationInv
<1>2. Asked[t] = "rollback" /\ Reversals[t] = None
  BY <1>1, OfferedLife
<1>3. CASE Stack!Top = None
  <2>1. Log!ResolveIncident(t, FALSE, None) /\ stack' = stack
    BY <1>3 DEF ConfirmRollback
  <2>2. /\ Lifecycle!Grant(t) /\ UNCHANGED <<Asked, Running>>
        /\ Outcomes' = [Outcomes EXCEPT ![t] = "failed"]
        /\ Reversals' = [Reversals EXCEPT ![t] = None]
    BY <1>1, <2>1, ResolvingLife
  <2>3. Reversals' = Reversals
    BY <1>2, <2>2 DEF Reversals
  <2>4. Reversible = <<>> /\ Reversible' = Reversible
    BY <1>1, <1>3, <2>1, ReversibleNow DEF Reversible
  <2>5. QED
    BY <1>2, <2>2, <2>3, <2>4 DEF Lifecycle!NothingToReverse, Lifecycle!Conclude
<1>4. CASE Stack!Top # None
  <2>1. Stack!Pop /\ stack # <<>>
    BY <1>4 DEF ConfirmRollback, Stack!Top
  <2>2. PICK success \in BOOLEAN : Log!ResolveIncident(t, success, Stack!Top.token)
    BY <1>4 DEF ConfirmRollback
  <2>3. PICK linked \in Token : linked = Stack!Top.token
    BY <2>1, TopIsFree
  <2>4. /\ Lifecycle!Grant(t) /\ UNCHANGED <<Asked, Running>>
        /\ Outcomes' = [Outcomes EXCEPT ![t] = IF success THEN "succeeded" ELSE "failed"]
        /\ Reversals' = [Reversals EXCEPT ![t] = linked]
    BY <1>1, <2>2, <2>3, ResolvingLife
  <2>5. Reversible # <<>> /\ Reversible[Len(Reversible)] = linked
    BY <1>1, <2>1, <2>3, ReversibleNow
  <2>6. Reversible' = Lifecycle!PopRight(Reversible)
    BY <2>1, PopReverses
  <2>7. \E how \in {"failed", "succeeded"} : Outcomes' = [Outcomes EXCEPT ![t] = how]
    BY <2>4
  <2>8. QED
    BY <1>2, <2>4, <2>5, <2>6, <2>7 DEF Lifecycle!Reverse
<1>5. QED
  BY <1>3, <1>4

(* ... what is taken up by a handler that suspends, ... *)
LEMMA StartingLife ==
  ASSUME RegistryInv, LedgerInv, LedgerInv', MitigationInv, NEW t \in Token, NEW r \in Request,
         Registry!Redeem(t), Redeemable(t) # None, request[r] = None, records' = records,
         request'[r] # None, request'[r].token = t,
         \A s \in Request \ {r} : request'[s] = request[s]
  PROVE  /\ Lifecycle!Grant(t) /\ Asked' = Asked /\ Lifecycle!Start(t)
         /\ Reversals' = [Reversals EXCEPT ![t] = ReversedBy(t)']
         /\ ReversedBy(t)' = IF request'[r].entry = None THEN None ELSE request'[r].entry.token
<1>1. /\ Lifecycle!Grant(t) /\ \A u \in Token \ {t} : grants'[u] = grants[u]
      /\ ~Log!Resolved(t) /\ ~InFlight(t) /\ AskedOf(t) = Asked[t] /\ OutcomeOf(t) = Outcomes[t]
  BY RedemptionGrants, RedeemedIncident, OfferedLife
<1>2. \A s \in Request \ {r} : request'[s] = request[s]
  OBVIOUS
<1>3. /\ Asked' = [Asked EXCEPT ![t] = AskedOf(t)']
      /\ Outcomes' = [Outcomes EXCEPT ![t] = OutcomeOf(t)']
      /\ Reversals' = [Reversals EXCEPT ![t] = ReversedBy(t)']
  BY <1>1, <1>2, OthersStand DEF LedgerInv
<1>4. Serves(r, t)' /\ InFlight(t)' /\ ~Log!Resolved(t)' /\ AskedOf(t)' = AskedOf(t)
  BY <1>1 DEF Serves, InFlight, Log!Resolved, Log!Opened, AskedOf
<1>5. ReversedBy(t)' = IF request'[r].entry = None THEN None ELSE request'[r].entry.token
  BY <1>4, ReversalNext DEF LedgerInv
<1>6. OutcomeOf(t)' = None /\ OutcomeOf(t) = None
  <2>1. grants[t] = <<>>
    BY <1>1 DEF Lifecycle!Grant
  <2>2. QED
    BY <1>1, <1>4, <2>1 DEF OutcomeOf
<1>7. Asked' = Asked /\ Outcomes' = Outcomes
  <2>1. Asked' = [Asked EXCEPT ![t] = Asked[t]] /\ Outcomes' = [Outcomes EXCEPT ![t] = Outcomes[t]]
    BY <1>1, <1>3, <1>4, <1>6
  <2>2. Asked = [Asked EXCEPT ![t] = Asked[t]]
    BY DEF Asked
  <2>3. Outcomes = [Outcomes EXCEPT ![t] = Outcomes[t]]
    BY DEF Outcomes
  <2>4. QED
    BY <2>1, <2>2, <2>3
<1>8. Running' = Running \cup {t}
  BY <1>2 DEF Running
<1>9. QED
  <2>1. Lifecycle!Grant(t) /\ Asked' = Asked /\ Lifecycle!Start(t)
    BY <1>1, <1>7, <1>8 DEF Lifecycle!Start
  <2>2. QED
    BY <1>3, <1>5, <2>1

LEMMA UnblockLife ==
  ASSUME RegistryInv, LedgerInv, LedgerInv', MitigationInv,
         NEW t \in Token, NEW r \in Request, ConfirmUnblock(r, t)
  PROVE  Lifecycle!Reverse(t)
<1>1. /\ request[r] = None /\ Redeemable(t) # None /\ Registry!Redeem(t)
      /\ Bare(Redeemable(t).command) /\ Stack!Pop /\ stack # <<>> /\ records' = records
      /\ request' = [request EXCEPT ![r] = [token |-> t, entry |-> Stack!Top]]
  BY DEF ConfirmUnblock, Stack!Top
<1>2. Stack!Top \in Stack!MitigationEntry /\ Stack!Top # None
  BY <1>1, TopIsFree
<1>3. /\ request'[r] # None /\ request'[r].token = t /\ request'[r].entry = Stack!Top
      /\ \A s \in Request \ {r} : request'[s] = request[s]
  <2>1. /\ request'[r] = [token |-> t, entry |-> Stack!Top]
        /\ \A s \in Request \ {r} : request'[s] = request[s]
    BY <1>1 DEF LedgerInv, Shapes
  <2>2. request'[r] \in Suspended
    BY <1>2, <2>1 DEF Suspended
  <2>3. QED
    BY <2>1, <2>2, EndpointAssumption DEF EndpointAssumption
<1>4. /\ Lifecycle!Grant(t) /\ Asked' = Asked /\ Lifecycle!Start(t)
      /\ Reversals' = [Reversals EXCEPT ![t] = Stack!Top.token]
  <2>1. /\ Lifecycle!Grant(t) /\ Asked' = Asked /\ Lifecycle!Start(t)
        /\ Reversals' = [Reversals EXCEPT ![t] = ReversedBy(t)']
        /\ ReversedBy(t)' = IF request'[r].entry = None THEN None ELSE request'[r].entry.token
    BY <1>1, <1>3, StartingLife
  <2>2. QED
    BY <1>2, <1>3, <2>1
<1>5. Asked[t] = "rollback"
  BY <1>1, OfferedLife
<1>6. /\ Reversible # <<>> /\ Reversible[Len(Reversible)] = Stack!Top.token
      /\ Reversible' = Lifecycle!PopRight(Reversible)
  BY <1>1, ReversibleNow, PopReverses DEF MitigationInv
<1>7. QED
  BY <1>4, <1>5, <1>6 DEF Lifecycle!Reverse

LEMMA HostLife ==
  ASSUME RegistryInv, LedgerInv, LedgerInv', MitigationInv,
         NEW t \in Token, NEW r \in Request, ConfirmHost(r, t)
  PROVE  Lifecycle!Execute(t)
<1>1. /\ request[r] = None /\ Redeemable(t) # None /\ Registry!Redeem(t)
      /\ Redeemable(t).command.intent # "ROLLBACK" /\ UNCHANGED <<records, stack>>
      /\ request' = [request EXCEPT ![r] = [token |-> t, entry |-> None]]
  BY DEF ConfirmHost, ForHost
<1>2. /\ request'[r] # None /\ request'[r].token = t /\ request'[r].entry = None
      /\ \A s \in Request \ {r} : request'[s] = request[s]
  <2>1. /\ request'[r] = [token |-> t, entry |-> None]
        /\ \A s \in Request \ {r} : request'[s] = request[s]
    BY <1>1 DEF LedgerInv, Shapes
  <2>2. request'[r] \in Suspended
    BY <2>1 DEF Suspended
  <2>3. QED
    BY <2>1, <2>2, EndpointAssumption DEF EndpointAssumption
<1>3. /\ Lifecycle!Grant(t) /\ Asked' = Asked /\ Lifecycle!Start(t)
      /\ Reversals' = [Reversals EXCEPT ![t] = None]
  <2>1. /\ Lifecycle!Grant(t) /\ Asked' = Asked /\ Lifecycle!Start(t)
        /\ Reversals' = [Reversals EXCEPT ![t] = ReversedBy(t)']
        /\ ReversedBy(t)' = IF request'[r].entry = None THEN None ELSE request'[r].entry.token
    BY <1>1, <1>2, StartingLife
  <2>2. QED
    BY <1>2, <2>1
<1>4. Asked[t] # "rollback" /\ Reversals[t] = None
  BY <1>1, OfferedLife DEF Bare
<1>5. Reversals' = Reversals /\ Reversible' = Reversible
  BY <1>1, <1>3, <1>4 DEF Reversals, Reversible
<1>6. QED
  BY <1>3, <1>4, <1>5 DEF Lifecycle!Execute

(* ... and how it ends when that handler resumes. *)
LEMMA FinishLife ==
  ASSUME LedgerInv, LedgerInv', LogInv, HostInv, MitigationInv, ThreadsServe, UnblockAnswers,
         NEW r \in Request, Finish(r)
  PROVE  \E t \in Token : Lifecycle!End(t)
<1> DEFINE entry == request[r].entry
           linked == IF entry = None THEN None ELSE entry.token
<1>1. PICK t \in Token : t = request[r].token
  BY HandlersTyped DEF Finish, MitigationInv
<1>2. /\ request[r] # None /\ worker[r].pc = "returned" /\ UNCHANGED <<deadline, grants>>
      /\ request' = [request EXCEPT ![r] = None] /\ Shapes /\ Shapes'
      /\ HandlersDistinct /\ HandlersDistinct' /\ StackShape /\ SuspendedInv /\ PoppedInv
  BY DEF Finish, Host!Collect, Host!Returned, LedgerInv, MitigationInv
<1>3. /\ request'[r] = None /\ \A s \in Request \ {r} : request'[s] = request[s]
      /\ \A s \in Request \ {r} : request[s] # None => request[s].token # t
  BY <1>1, <1>2 DEF Shapes, HandlersDistinct
<1>4. /\ Serves(r, t) /\ t \in Running /\ ~InFlight(t)' /\ Running' = Running \ {t}
  <2>1. Serves(r, t) /\ t \in Running /\ ~InFlight(t)'
    BY <1>1, <1>2, <1>3 DEF Serves, Running, InFlight
  <2>2. Running' = Running \ {t}
    BY <1>1, <1>2, <1>3 DEF Running
  <2>3. QED
    BY <2>1, <2>2
<1>5. /\ grants[t] # <<>> /\ Log!Opened(t) /\ ~Log!Resolved(t)
      /\ linked \in Token \cup {None}
  BY <1>1, <1>2, HandlersTyped DEF SuspendedInv, LedgerInv, SuspendedUnresolved
<1>6. /\ entry = None => Asked[t] = "mitigation"
      /\ entry # None => Asked[t] = "rollback" /\ worker[r].op = "unblock"
  BY <1>1, <1>2, <1>5 DEF Asked, AskedOf, SuspendedInv, PoppedInv, Bare, ThreadsServe
<1>7. Asked[t] = AskedOf(t) /\ Reversals[t] = linked
  <2>1. ReversedBy(t) = linked
    BY <1>2, <1>4, <1>5, ReversalNow
  <2>2. QED
    BY <2>1 DEF Asked, Reversals
<1>8. CASE worker[r].outcome \in {"protected", "notfound"}
  <2>1. UNCHANGED <<now, records, stack>> /\ entry = None
    BY <1>6, <1>8 DEF Finish, UnblockAnswers
  <2>2. /\ Asked' = [Asked EXCEPT ![t] = AskedOf(t)']
        /\ Outcomes' = [Outcomes EXCEPT ![t] = OutcomeOf(t)']
        /\ Reversals' = [Reversals EXCEPT ![t] = ReversedBy(t)']
    BY <1>1, <1>2, <1>3, <2>1, OthersStand
  <2>3. AskedOf(t)' = AskedOf(t) /\ OutcomeOf(t)' = "refused" /\ ReversedBy(t)' = None
    BY <1>2, <1>4, <1>5, <2>1 DEF AskedOf, OutcomeOf, ReversedBy, Log!Opened, Log!Resolved
  <2>4. Asked' = Asked /\ Reversals' = Reversals /\ Reversals[t] = None
    BY <1>7, <2>1, <2>2, <2>3 DEF Asked, Reversals
  <2>5. Reversible' = Reversible
    BY <2>1 DEF Reversible
  <2>6. Lifecycle!Conclude(t, "refused") /\ UNCHANGED Lifecycle!lease
    BY <1>2, <2>1, <2>2, <2>3, <2>5 DEF Lifecycle!Conclude, Lifecycle!lease
  <2>7. QED
    BY <1>4, <2>4, <2>6 DEF Lifecycle!End
<1>9. ASSUME NEW success \in BOOLEAN, NEW how \in {"failed", "succeeded"},
             how = (IF success THEN "succeeded" ELSE "failed"), Log!ResolveIncident(t, success, linked),
             Lifecycle!Conclude(t, how) <=> Outcomes' = [Outcomes EXCEPT ![t] = how]
      PROVE  Lifecycle!End(t)
  <2>1. /\ AskedOf(t)' = AskedOf(t) /\ ReversedBy(t)' = linked /\ OutcomeOf(t)' = how
        /\ \A u \in Token \ {t} : records'[u] = records[u]
    BY <1>5, <1>9, ResolvedLife
  <2>2. /\ Asked' = [Asked EXCEPT ![t] = AskedOf(t)']
        /\ Outcomes' = [Outcomes EXCEPT ![t] = OutcomeOf(t)']
        /\ Reversals' = [Reversals EXCEPT ![t] = ReversedBy(t)']
    BY <1>1, <1>2, <1>3, <2>1, OthersStand
  <2>3. Asked' = Asked /\ Reversals' = Reversals
    BY <1>7, <2>1, <2>2 DEF Asked, Reversals
  <2>4. UNCHANGED Lifecycle!lease
    BY <1>2, <1>9, ResolveKeepsClock DEF Lifecycle!lease
  <2>5. Lifecycle!Conclude(t, how)
    BY <1>9, <2>1, <2>2
  <2>6. QED
    BY <1>4, <2>3, <2>4, <2>5 DEF Lifecycle!End
<1>10. CASE worker[r].outcome = "failed"
  <2>1. Log!ResolveIncident(t, FALSE, linked) /\ stack' = stack
    BY <1>1, <1>10 DEF Finish
  <2>2. Lifecycle!Conclude(t, "failed") <=> Outcomes' = [Outcomes EXCEPT ![t] = "failed"]
    BY <2>1 DEF Lifecycle!Conclude, Reversible
  <2>3. QED
    BY <1>9, <2>1, <2>2
<1>11. CASE worker[r].outcome = "ok"
  <2>1. Log!ResolveIncident(t, TRUE, linked)
    BY <1>1, <1>11 DEF Finish
  <2>2. Reversible' = IF Asked[t] = "mitigation" THEN Lifecycle!AppendRight(Reversible, t, MaxEntries)
                      ELSE Reversible
    <3>1. CASE entry = None
      <4>1. Stack!Push(HostEntry(t, worker[r]))
        BY <1>1, <1>11, <3>1 DEF Finish
      <4>2. PICK e \in Stack!MitigationEntry : e = HostEntry(t, worker[r]) /\ e.token = t
        BY <1>2, <3>1, HostEntryTyped
      <4>3. Reversible' = Lifecycle!AppendRight(Reversible, t, MaxEntries)
        BY <1>2, <4>1, <4>2, PushQueues
      <4>4. QED
        BY <1>6, <3>1, <4>3
    <3>2. CASE entry # None
      BY <1>6, <1>11, <3>2 DEF Finish, Reversible
    <3>3. QED
      BY <3>1, <3>2
  <2>3. Lifecycle!Conclude(t, "succeeded") <=> Outcomes' = [Outcomes EXCEPT ![t] = "succeeded"]
    BY <2>2 DEF Lifecycle!Conclude
  <2>4. QED
    BY <1>9, <2>1, <2>3
<1>12. worker[r].outcome \in {"ok", "failed", "protected", "notfound"}
  BY ThreadTyped
<1>13. QED
  BY <1>8, <1>10, <1>11, <1>12

-----------------------------------------------------------------------------
(* Every step of the service is one of the lifecycle or none. *)
LEMMA StepImplementsLifecycle ==
  ASSUME ServiceInv, UnblockAnswers, [Next]_vars
  PROVE  [Lifecycle!LifecycleNext]_(Lifecycle!lifecycle)
<1> USE DEF Lifecycle!LifecycleNext
<1>0. /\ RegistryInv /\ LedgerInv /\ LedgerInv' /\ LogInv /\ HostInv /\ MitigationInv /\ MitigationInv'
      /\ ThreadsServe /\ pods \in [Pod -> Cluster!PodState]
      /\ HandlersDistinct /\ HandlersDistinct'
  BY ServiceInvInductive DEF ServiceInv, SnapshotInv, LedgerInv
<1>1. CASE Tick
  <2>1. UNCHANGED <<Asked, Running, Outcomes, Reversible, Reversals>>
    BY <1>0, <1>1, QuietLife DEF Tick, Registry!Tick
  <2>2. Lifecycle!Advance
    BY <1>1 DEF Tick, Registry!Tick, Lifecycle!Advance
  <2>3. QED
    BY <2>1, <2>2
<1>2. CASE PodTick \/ Outside \/ (\E r \in Request : Thread(r)) \/ (\E t \in Token : Preview(t))
           \/ Previewing \/ UNCHANGED vars
  <2>1. UNCHANGED <<now, deadline, grants, records, request, stack>>
    BY <1>2, PreviewsWriteNothing DEF PodTick, Outside, Thread, Preview, Registry!Peek, vars
  <2>2. UNCHANGED <<Asked, Running, Outcomes, Reversible, Reversals>>
    BY <1>0, <2>1, QuietLife
  <2>3. QED
    BY <2>1, <2>2 DEF Lifecycle!lifecycle, Lifecycle!lease
<1>3. ASSUME NEW r \in Request, Finish(r)
      PROVE  Lifecycle!LifecycleNext
  BY <1>0, <1>3, FinishLife
<1>4. ASSUME NEW t \in Token, NEW command \in Command, NEW mode \in Mode, Gate(t, command, mode)
      PROVE  Lifecycle!LifecycleNext
  BY <1>0, <1>4, GateLife
<1>5. ASSUME NEW t \in Token, Confirm(t)
      PROVE  [Lifecycle!LifecycleNext]_(Lifecycle!lifecycle)
  <2>1. CASE ConfirmRefused(t)
    BY <1>0, <2>1, RefusedLife
  <2>2. CASE ConfirmRollback(t)
    BY <1>0, <2>2, RollbackLife
  <2>3. CASE ConfirmCluster(t)
    BY <1>0, <2>3, ClusterLife
  <2>4. ASSUME NEW r \in Request, ConfirmUnblock(r, t) \/ ConfirmHost(r, t)
        PROVE  Lifecycle!LifecycleNext
    BY <1>0, <2>4, UnblockLife, HostLife
  <2>5. QED
    BY <1>5, <2>1, <2>2, <2>3, <2>4 DEF Confirm
<1>6. QED
  BY <1>1, <1>2, <1>3, <1>4, <1>5 DEF Next, Previewing

(* The promise kept by the whole service, for every number of handlers and  *)
(* whatever fails, expires or overlaps: a command is taken up at most once  *)
(* and in time, ends once, and what a rollback takes is the newest          *)
(* mitigation in line and nobody else's (endpoints.py:86,                   *)
(* mitigation_stack.py:94).                                                 *)
THEOREM EndpointImplementsLifecycle == Spec => ImplementsLifecycle
<1>1. Init => Lifecycle!LifecycleInit
  BY DEF Init, Registry!RegistryInit, Log!LogInit, Stack!StackInit, Lifecycle!LifecycleInit,
         Lifecycle!Init, Asked, AskedOf, Running, Outcomes, OutcomeOf, Reversible, Reversals,
         ReversedBy, InFlight, Serves, Log!Opened, Log!Resolved
<1>2. ServiceInv /\ UnblockAnswers /\ [Next]_vars
        => [Lifecycle!LifecycleNext]_(Lifecycle!lifecycle) /\ UnblockAnswers'
  BY StepImplementsLifecycle, UnblockAnswersInductive DEF ServiceInv
<1>3. QED
  BY <1>1, <1>2, ServiceInvAlways, UnblockAnswersInitially, PTL
     DEF Spec, ImplementsLifecycle, Lifecycle!LifecycleSpec

=============================================================================
