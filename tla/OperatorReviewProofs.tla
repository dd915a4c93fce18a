------------------------ MODULE OperatorReviewProofs ------------------------
(***************************************************************************)
(* OperatorReview, for every set of tokens, commands and modes, every TTL   *)
(* and any number of fetches.                                               *)
(*                                                                          *)
(* The argument: an offer reaches the page at most once, so a token is      *)
(* under review at most once; while it is, the flag `consumed` says whether *)
(* its execution was submitted; and only a submitted execution is ever on   *)
(* its way to the server. A restart only empties the registry, which its    *)
(* invariant allows at any time.                                            *)
(***************************************************************************)
EXTENDS OperatorReview, ConfirmationRegistryProofs

-----------------------------------------------------------------------------
(* The registry inside the composition. *)

Emptied == pending' = [t \in Token |-> None] /\ UNCHANGED <<now, deadline, grants>>

(* A fetch that is served is a peek or a redemption. *)
LEMMA ServeLooksUp ==
  ASSUME ReviewTypeOK, NEW f \in requests, LookUp(f)
  PROVE  f.token \in Token /\ RegistryNext
  BY DEF ReviewTypeOK, Fetch, LookUp, RegistryNext

(* Every step is a step of the registry, leaves it alone or empties it. *)
LEMMA RegistrySteps ==
  ASSUME ReviewTypeOK, [Next]_vars
  PROVE  [RegistryNext]_registryVars \/ Emptied
<1>1. ASSUME NEW t \in Token, NEW command \in Command, NEW mode \in Mode, Offer(t, command, mode)
      PROVE  RegistryNext
  BY <1>1 DEF Offer, RegistryNext
<1>2. ASSUME NEW f \in requests, Serve(f)
      PROVE  RegistryNext
  BY <1>2, ServeLooksUp DEF Serve
<1>3. CASE Restart
  BY <1>3 DEF Restart, Emptied
<1>4. CASE Clock
  BY <1>4 DEF Clock, RegistryNext
<1>5. CASE UNCHANGED registryVars
  BY <1>5
<1>6. QED
  BY <1>1, <1>2, <1>3, <1>4, <1>5
     DEF Next, OfferArrives, LoseRequest, AnswerArrives, Confirm, FetchFails,
         Dismiss, Reload, vars, registryVars

LEMMA EmptiedKeeps == IInv /\ Emptied => IInv'
<1> SUFFICES ASSUME IInv, Emptied PROVE IInv'
  OBVIOUS
<1>1. TypeOK'
  BY DEF IInv, TypeOK, Emptied
<1>2. StoreAgrees' /\ SingleUse'
  BY DEF IInv, StoreAgrees, SingleUse, Emptied
<1>3. QED
  BY <1>1, <1>2 DEF IInv

(* The registry's invariant survives the page, the network and restarts. *)
LEMMA RegistryKept == ReviewTypeOK /\ IInv /\ [Next]_vars => IInv'
  BY RegistrySteps, EmptiedKeeps, IInvInductive

-----------------------------------------------------------------------------
(* Types. *)

LEMMA ReviewTypeInitially == Init => ReviewTypeOK
<1> SUFFICES ASSUME Init PROVE ReviewTypeOK
  OBVIOUS
<1>1. TypeOK /\ 0 \in 0..MaxFetches
  BY TypeInitially, ReviewAssumption DEF Init
<1>2. submitted \in [Token -> Nat]
  BY DEF Init
<1>3. QED
  BY <1>1, <1>2 DEF Init, ReviewTypeOK

(* Serving and forgetting requests and answers keeps their types. *)
LEMMA ReviewTypeInductive == ReviewTypeOK /\ IInv /\ [Next]_vars => ReviewTypeOK'
<1> SUFFICES ASSUME ReviewTypeOK, IInv, [Next]_vars PROVE ReviewTypeOK'
  OBVIOUS
<1>0. TypeOK'
  BY RegistryKept DEF IInv
<1>1. ASSUME NEW t \in Token, NEW command \in Command, NEW mode \in Mode, Offer(t, command, mode)
      PROVE  ReviewTypeOK'
  BY <1>0, <1>1 DEF Offer, ReviewTypeOK, network, history
<1>2. ASSUME NEW t \in Token, OfferArrives(t)
      PROVE  ReviewTypeOK'
  BY <1>0, <1>2 DEF OfferArrives, Show, ReviewTypeOK, network, history
<1>3. ASSUME NEW f \in requests, Serve(f)
      PROVE  ReviewTypeOK'
  <2>1. requests' \subseteq Fetch /\ answer' \in BOOLEAN \cup {None}
    BY <1>3 DEF Serve, ReviewTypeOK
  <2>2. QED
    BY <1>0, <1>3, <2>1 DEF Serve, ReviewTypeOK, page, history
<1>4. CASE Restart \/ Clock
  BY <1>0, <1>4 DEF Restart, Clock, ReviewTypeOK, page, network, history
<1>5. ASSUME NEW f \in requests, LoseRequest(f)
      PROVE  ReviewTypeOK'
  BY <1>0, <1>5 DEF LoseRequest, ReviewTypeOK, page, history
<1>6. CASE AnswerArrives
  <2>1. fetch.dry_run \in BOOLEAN /\ answer \in BOOLEAN
    BY <1>6 DEF AnswerArrives, ReviewTypeOK, Fetch
  <2>2. invalidated' \in BOOLEAN
    BY <1>6, <2>1 DEF AnswerArrives, ReviewTypeOK
  <2>3. QED
    BY <1>0, <1>6, <2>2 DEF AnswerArrives, ReviewTypeOK, history
<1>7. ASSUME NEW dry_run \in BOOLEAN, Confirm(dry_run)
      PROVE  ReviewTypeOK'
  <2>1. fetches' \in 0..MaxFetches /\ fetches' \in Nat
    BY <1>7, ReviewAssumption DEF Confirm, ReviewTypeOK
  <2>2. review \in Token
    BY <1>7 DEF Confirm, ReviewTypeOK
  <2>3. fetch' \in Fetch
    BY <1>7, <2>1, <2>2 DEF Confirm, Fetch
  <2>4. requests' \subseteq Fetch /\ consumed' \in BOOLEAN /\ busy' \in BOOLEAN
    BY <1>7, <2>3 DEF Confirm, Submit, ReviewTypeOK
  <2>5. submitted' \in [Token -> Nat]
    BY <1>7, <2>2 DEF Confirm, ReviewTypeOK
  <2>6. QED
    BY <1>0, <1>7, <2>1, <2>3, <2>4, <2>5 DEF Confirm, ReviewTypeOK
<1>8. CASE FetchFails \/ Reload
  BY <1>0, <1>8 DEF FetchFails, Interrupted, Reload, ReviewTypeOK, network, history
<1>9. CASE Dismiss
  <2>1. dismissed' \subseteq Token
    BY <1>9 DEF Dismiss, ReviewTypeOK
  <2>2. QED
    BY <1>0, <1>9, <2>1 DEF Dismiss, ReviewTypeOK, network
<1>10. CASE UNCHANGED vars
  BY <1>0, <1>10 DEF vars, ReviewTypeOK, page, network, history
<1>11. QED
  BY <1>1, <1>2, <1>3, <1>4, <1>5, <1>6, <1>7, <1>8, <1>9, <1>10 DEF Next

-----------------------------------------------------------------------------
(* The page and what is on its way. *)

(* An offer on its way is of a token the page has not seen. *)
OffersFresh ==
    \A t \in offers :
        deadline[t] # None /\ submitted[t] = 0 /\ t \notin dismissed /\ t # review

(* What is under review was not dismissed, and was submitted iff consumed. *)
ReviewAgrees ==
    /\ open <=> review # None
    /\ review # None =>
        /\ deadline[review] # None /\ review \notin dismissed
        /\ submitted[review] = IF consumed THEN 1 ELSE 0

(* A token is submitted once at most, and never when it was dismissed; both *)
(* happen to issued tokens only.                                            *)
SubmittedOnce ==
    \A t \in Token :
        /\ submitted[t] \in {0, 1}
        /\ submitted[t] = 1 \/ t \in dismissed => deadline[t] # None
        /\ t \in dismissed => submitted[t] = 0

(* Executions on their way, and those that happened, were submitted. *)
ExecutionsSubmitted ==
    /\ \A f \in requests : ~f.dry_run => submitted[f.token] = 1
    /\ \A t \in Token : grants[t] # <<>> => submitted[t] = 1

(* The dialog waits for one fetch, about what it shows. *)
BusyAgrees == (busy <=> fetch # None) /\ ReviewPinned

(* The fetch is the dry run of a request that is not consumed, or the       *)
(* execution that consumed it; a request that turned out unavailable is not *)
(* consumed.                                                                *)
ConsumedAgrees ==
    /\ fetch # None => (fetch.dry_run <=> ~consumed)
    /\ invalidated => ~consumed

PageInv ==
    /\ OffersFresh /\ ReviewAgrees /\ SubmittedOnce /\ ExecutionsSubmitted
    /\ BusyAgrees /\ ConsumedAgrees

OInv == ReviewTypeOK /\ IInv /\ PageInv

LEMMA OInvInitially == Init => OInv
<1> SUFFICES ASSUME Init PROVE OInv
  OBVIOUS
<1>1. ReviewTypeOK /\ IInv
  BY ReviewTypeInitially, IInvInitially DEF Init
<1>2. OffersFresh /\ ReviewAgrees /\ SubmittedOnce /\ ExecutionsSubmitted
  BY DEF Init, RegistryInit, OffersFresh, ReviewAgrees, SubmittedOnce, ExecutionsSubmitted
<1>3. BusyAgrees /\ ConsumedAgrees
  BY DEF Init, BusyAgrees, ReviewPinned, ConsumedAgrees
<1>4. QED
  BY <1>1, <1>2, <1>3 DEF OInv, PageInv

(* Only a fetch that executes adds to the history of grants. *)
LEMMA LookUpGrants ==
  ASSUME ReviewTypeOK, NEW f \in requests, LookUp(f), NEW t \in Token, grants'[t] # grants[t]
  PROVE  t = f.token /\ ~f.dry_run
  BY DEF LookUp, Peek, Redeem, ReviewTypeOK, TypeOK, Fetch

(* Every step keeps the whole invariant. *)
LEMMA OInvInductive == OInv /\ [Next]_vars => OInv'
<1> SUFFICES ASSUME OInv, [Next]_vars PROVE OInv'
  OBVIOUS
<1>0. ReviewTypeOK' /\ IInv' /\ ReviewTypeOK /\ TypeOK
  BY ReviewTypeInductive, RegistryKept DEF OInv, IInv
<1>a. OffersFresh /\ ReviewAgrees /\ SubmittedOnce /\ ExecutionsSubmitted /\ BusyAgrees /\ ConsumedAgrees
  BY DEF OInv, PageInv
<1> SUFFICES PageInv'
  BY <1>0 DEF OInv
<1>1. ASSUME NEW t \in Token, NEW command \in Command, NEW mode \in Mode, Offer(t, command, mode)
      PROVE  PageInv'
  <2>1. deadline[t] = None /\ deadline'[t] # None /\ grants' = grants
        /\ \A u \in Token : u # t => deadline'[u] = deadline[u]
    <3>1. deadline' = [deadline EXCEPT ![t] = now + TTL]
      BY <1>1 DEF Offer, Register
    <3>2. now + TTL \in Nat
      BY <1>0, RegistryAssumption DEF TypeOK
    <3>3. QED
      BY <1>0, <1>1, <3>1, <3>2, RegistryAssumption DEF Offer, Register, TypeOK
  <2>2. submitted[t] = 0 /\ t \notin dismissed /\ t # review
    BY <1>a, <2>1, ReviewAssumption DEF SubmittedOnce, ReviewAgrees
  <2>3. OffersFresh'
    BY <1>0, <1>1, <1>a, <2>1, <2>2 DEF Offer, OffersFresh, network, history, ReviewTypeOK
  <2>4. ReviewAgrees' /\ SubmittedOnce' /\ ExecutionsSubmitted'
    BY <1>0, <1>1, <1>a, <2>1
       DEF Offer, ReviewAgrees, SubmittedOnce, ExecutionsSubmitted, network, history, ReviewTypeOK
  <2>5. BusyAgrees' /\ ConsumedAgrees'
    BY <1>1, <1>a DEF Offer, BusyAgrees, ConsumedAgrees, ReviewPinned, network, history
  <2>6. QED
    BY <2>3, <2>4, <2>5 DEF PageInv
<1>2. ASSUME NEW t \in Token, OfferArrives(t)
      PROVE  PageInv'
  <2>1. UNCHANGED <<deadline, grants, submitted, dismissed, requests, busy, fetch>>
    BY <1>2 DEF OfferArrives, registryVars, network, history
  <2>2. t \in offers /\ offers' = offers \ {t} /\ Show(t)
    BY <1>2 DEF OfferArrives
  <2>3. SubmittedOnce' /\ ExecutionsSubmitted'
    BY <1>a, <2>1 DEF SubmittedOnce, ExecutionsSubmitted
  <2>4. CASE open
    <3>1. UNCHANGED <<review, open, consumed, invalidated>>
      BY <2>2, <2>4 DEF Show
    <3>2. OffersFresh' /\ ReviewAgrees'
      BY <1>a, <2>1, <2>2, <3>1 DEF OffersFresh, ReviewAgrees
    <3>3. BusyAgrees' /\ ConsumedAgrees'
      BY <1>a, <2>1, <3>1 DEF BusyAgrees, ConsumedAgrees, ReviewPinned
    <3>4. QED
      BY <2>3, <3>2, <3>3 DEF PageInv
  <2>5. CASE ~open
    <3>1. review' = t /\ open' = TRUE /\ consumed' = FALSE /\ invalidated' = FALSE
      BY <2>2, <2>5 DEF Show
    <3>2. fetch = None
      BY <1>a, <2>5 DEF BusyAgrees, ReviewPinned
    <3>3. t # None
      BY ReviewAssumption
    <3>4. OffersFresh' /\ ReviewAgrees'
      BY <1>a, <2>1, <2>2, <3>1, <3>3 DEF OffersFresh, ReviewAgrees
    <3>5. BusyAgrees' /\ ConsumedAgrees'
      BY <1>a, <2>1, <3>1, <3>2 DEF BusyAgrees, ConsumedAgrees, ReviewPinned
    <3>6. QED
      BY <2>3, <3>4, <3>5 DEF PageInv
  <2>6. QED
    BY <1>0, <2>4, <2>5 DEF ReviewTypeOK
<1>3. ASSUME NEW f \in requests, Serve(f)
      PROVE  PageInv'
  <2>1. LookUp(f) /\ f \in Fetch
    BY <1>0, <1>3 DEF Serve, ReviewTypeOK
  <2>2. UNCHANGED <<deadline, submitted, dismissed>> /\ UNCHANGED page /\ requests' = requests \ {f}
    BY <1>3, <2>1 DEF Serve, LookUp, Peek, Redeem, history
  <2>3. \A t \in Token : grants'[t] # grants[t] => submitted[t] = 1
    BY <1>0, <1>a, <2>1, LookUpGrants DEF ExecutionsSubmitted
  <2>4. OffersFresh' /\ ReviewAgrees' /\ SubmittedOnce'
    BY <1>a, <2>2 DEF OffersFresh, ReviewAgrees, SubmittedOnce, page
  <2>5. ExecutionsSubmitted'
    BY <1>a, <2>2, <2>3 DEF ExecutionsSubmitted
  <2>6. BusyAgrees' /\ ConsumedAgrees'
    BY <1>a, <2>2 DEF BusyAgrees, ReviewPinned, ConsumedAgrees, page
  <2>7. QED
    BY <2>4, <2>5, <2>6 DEF PageInv
<1>4. CASE Restart \/ Clock \/ UNCHANGED vars
  <2>1. UNCHANGED <<deadline, grants>> /\ UNCHANGED <<page, network, history>>
    BY <1>4 DEF Restart, Clock, Tick, vars, registryVars
  <2>2. OffersFresh' /\ ReviewAgrees' /\ SubmittedOnce' /\ ExecutionsSubmitted'
    BY <1>a, <2>1
       DEF OffersFresh, ReviewAgrees, SubmittedOnce, ExecutionsSubmitted, page, network, history
  <2>3. BusyAgrees' /\ ConsumedAgrees'
    BY <1>a, <2>1
       DEF BusyAgrees, ConsumedAgrees, ReviewPinned, page, network, history
  <2>4. QED
    BY <2>2, <2>3 DEF PageInv
<1>5. ASSUME NEW f \in requests, LoseRequest(f)
      PROVE  PageInv'
  <2>1. /\ UNCHANGED <<deadline, grants, page, history>>
        /\ requests' \subseteq requests
    BY <1>5 DEF LoseRequest, registryVars
  <2>2. OffersFresh' /\ ReviewAgrees' /\ SubmittedOnce' /\ ExecutionsSubmitted'
    BY <1>a, <2>1 DEF OffersFresh, ReviewAgrees, SubmittedOnce, ExecutionsSubmitted, page, history
  <2>3. BusyAgrees' /\ ConsumedAgrees'
    BY <1>a, <2>1 DEF BusyAgrees, ConsumedAgrees, ReviewPinned, page, history
  <2>4. QED
    BY <2>2, <2>3 DEF PageInv
<1>6. CASE AnswerArrives
  <2>1. /\ UNCHANGED <<deadline, grants, submitted, dismissed, offers, review, open, consumed, requests>>
        /\ fetch # None /\ busy' = FALSE /\ fetch' = None
        /\ invalidated' = (invalidated \/ (fetch.dry_run /\ ~answer))
    BY <1>6 DEF AnswerArrives, registryVars, history
  <2>2. OffersFresh' /\ ReviewAgrees' /\ SubmittedOnce' /\ ExecutionsSubmitted'
    BY <1>a, <2>1 DEF OffersFresh, ReviewAgrees, SubmittedOnce, ExecutionsSubmitted
  <2>3. BusyAgrees'
    BY <2>1 DEF BusyAgrees, ReviewPinned
  <2>4. ASSUME invalidated'
        PROVE  ~consumed'
    <3>1. CASE invalidated
      BY <1>a, <2>1, <3>1 DEF ConsumedAgrees
    <3>2. CASE fetch.dry_run
      BY <1>a, <2>1, <3>2 DEF ConsumedAgrees
    <3>3. QED
      BY <2>1, <2>4, <3>1, <3>2
  <2>5. ConsumedAgrees'
    BY <2>1, <2>4 DEF ConsumedAgrees
  <2>6. QED
    BY <2>2, <2>3, <2>5 DEF PageInv
<1>7. ASSUME NEW dry_run \in BOOLEAN, Confirm(dry_run)
      PROVE  PageInv'
  <2>1. /\ review \in Token /\ review # None /\ ~consumed /\ ~invalidated
        /\ UNCHANGED <<deadline, grants, offers, review, open, invalidated, dismissed>>
    BY <1>0, <1>7 DEF Confirm, registryVars, ReviewTypeOK
  <2>2. fetch' = [id |-> fetches', token |-> review, dry_run |-> dry_run]
        /\ requests' = requests \cup {fetch'} /\ busy' = TRUE /\ consumed' = (consumed \/ ~dry_run)
    BY <1>7 DEF Confirm, Submit
  <2>3. /\ \A t \in Token : t # review => submitted'[t] = submitted[t]
        /\ submitted'[review] = IF dry_run THEN 0 ELSE 1
    BY <1>0, <1>7, <1>a, <2>1 DEF Confirm, ReviewTypeOK, ReviewAgrees
  <2>4. fetch' # None
    <3>1. fetches' \in Nat
      BY <1>0, <1>7 DEF Confirm, ReviewTypeOK
    <3>2. QED
      BY <2>1, <2>2, <3>1, ReviewAssumption DEF Fetch
  <2>5. OffersFresh'
    BY <1>0, <1>a, <2>1, <2>3 DEF OffersFresh, ReviewTypeOK
  <2>6. ReviewAgrees'
    BY <1>a, <2>1, <2>2, <2>3 DEF ReviewAgrees
  <2>7. SubmittedOnce'
    BY <1>a, <2>1, <2>3 DEF SubmittedOnce, ReviewAgrees
  <2>8. ExecutionsSubmitted'
    <3>1. \A t \in Token : submitted[t] = 1 => submitted'[t] = 1
      BY <1>a, <2>1, <2>3 DEF ReviewAgrees
    <3>2. \A f \in requests : f.token \in Token
      BY <1>0 DEF ReviewTypeOK, Fetch
    <3>3. QED
      BY <1>a, <2>1, <2>2, <2>3, <3>1, <3>2 DEF ExecutionsSubmitted
  <2>9. BusyAgrees' /\ ConsumedAgrees'
    BY <1>a, <2>1, <2>2, <2>4
       DEF BusyAgrees, ConsumedAgrees, ReviewPinned, ReviewAgrees
  <2>10. QED
    BY <2>5, <2>6, <2>7, <2>8, <2>9 DEF PageInv
<1>8. CASE FetchFails
  <2>1. /\ UNCHANGED <<deadline, grants, offers, review, open, consumed, invalidated>>
        /\ UNCHANGED <<requests, history>> /\ busy' = FALSE /\ fetch' = None
    BY <1>8 DEF FetchFails, Interrupted, registryVars
  <2>2. OffersFresh' /\ ReviewAgrees' /\ SubmittedOnce' /\ ExecutionsSubmitted'
    BY <1>a, <2>1 DEF OffersFresh, ReviewAgrees, SubmittedOnce, ExecutionsSubmitted, network, history
  <2>3. BusyAgrees' /\ ConsumedAgrees'
    BY <1>a, <2>1 DEF BusyAgrees, ConsumedAgrees, ReviewPinned, network, history
  <2>4. QED
    BY <2>2, <2>3 DEF PageInv
<1>9. CASE Dismiss
  <2>1. /\ UNCHANGED <<deadline, grants, offers, busy, fetch, requests, submitted>>
        /\ UNCHANGED <<consumed, invalidated>> /\ ~busy /\ review' = None /\ open' = FALSE
        /\ dismissed' = IF review # None /\ ~consumed THEN dismissed \cup {review} ELSE dismissed
    BY <1>9 DEF Dismiss, registryVars, network
  <2>2. OffersFresh'
    BY <1>0, <1>a, <2>1, ReviewAssumption DEF OffersFresh, ReviewTypeOK
  <2>3. ReviewAgrees'
    BY <2>1 DEF ReviewAgrees
  <2>4. SubmittedOnce' /\ ExecutionsSubmitted'
    BY <1>0, <1>a, <2>1 DEF SubmittedOnce, ExecutionsSubmitted, ReviewAgrees, ReviewTypeOK
  <2>5. BusyAgrees' /\ ConsumedAgrees'
    BY <1>a, <2>1 DEF BusyAgrees, ConsumedAgrees, ReviewPinned
  <2>6. QED
    BY <2>2, <2>3, <2>4, <2>5 DEF PageInv
<1>10. CASE Reload
  <2>1. /\ UNCHANGED <<deadline, grants>> /\ UNCHANGED <<requests, history>>
        /\ offers' = {} /\ review' = None /\ open' = FALSE /\ busy' = FALSE /\ fetch' = None
        /\ invalidated' = FALSE
    BY <1>10 DEF Reload, registryVars
  <2>2. OffersFresh' /\ ReviewAgrees' /\ SubmittedOnce' /\ ExecutionsSubmitted'
    BY <1>a, <2>1 DEF OffersFresh, ReviewAgrees, SubmittedOnce, ExecutionsSubmitted, network, history
  <2>3. BusyAgrees' /\ ConsumedAgrees'
    BY <1>a, <2>1 DEF BusyAgrees, ConsumedAgrees, ReviewPinned, network, history
  <2>4. QED
    BY <2>2, <2>3 DEF PageInv
<1>11. QED
  BY <1>1, <1>2, <1>3, <1>4, <1>5, <1>6, <1>7, <1>8, <1>9, <1>10 DEF Next

LEMMA OInvAlways == Spec => []OInv
  BY OInvInitially, OInvInductive, PTL DEF Spec

-----------------------------------------------------------------------------
(* The page, the requests and the answers stay what they are meant to be.   *)
THEOREM ReviewTypeCorrect == Spec => []ReviewTypeOK
<1>1. OInv => ReviewTypeOK
  BY DEF OInv
<1>2. QED
  BY <1>1, OInvAlways, PTL

(* "This action will not be retried automatically" (app.js:667): whatever   *)
(* is lost, given up, reloaded or restarted, a token is submitted for       *)
(* execution at most once.                                                  *)
THEOREM ReviewOneSubmission == Spec => []OneSubmission
<1>1. ASSUME OInv, NEW t \in Token
      PROVE  submitted[t] <= 1
  <2>1. submitted[t] = 0 \/ submitted[t] = 1
    BY <1>1 DEF OInv, PageInv, SubmittedOnce
  <2>2. QED
    BY <2>1
<1>2. OInv => OneSubmission
  BY <1>1 DEF OneSubmission
<1>3. QED
  BY <1>2, OInvAlways, PTL

(* Nothing is executed but what the operator has submitted, and never what  *)
(* was dismissed (app.js:604) or has turned out unavailable (app.js:657),   *)
(* although requests that the page has given up may still arrive.           *)
THEOREM ReviewNoUnwantedExecution == Spec => []NoUnwantedExecution
<1>1. ASSUME OInv
      PROVE  \A t \in Token : grants[t] # <<>> => submitted[t] > 0 /\ t \notin dismissed
  BY <1>1 DEF OInv, PageInv, SubmittedOnce, ExecutionsSubmitted
<1>2. ASSUME OInv, open, invalidated
      PROVE  /\ grants[review] = <<>>
             /\ \A f \in requests : f.token = review => f.dry_run
  <2>1. review \in Token /\ submitted[review] = 0
    BY <1>2 DEF OInv, PageInv, ReviewTypeOK, ReviewAgrees, ConsumedAgrees
  <2>2. \A f \in requests : f.dry_run \in BOOLEAN
    BY <1>2 DEF OInv, ReviewTypeOK, Fetch
  <2>3. QED
    BY <1>2, <2>1, <2>2 DEF OInv, PageInv, ExecutionsSubmitted
<1>3. OInv => NoUnwantedExecution
  BY <1>1, <1>2 DEF NoUnwantedExecution
<1>4. QED
  BY <1>3, OInvAlways, PTL

(* The dialog shows what its fetch is about until the fetch is over.        *)
THEOREM ReviewStaysPinned == Spec => []ReviewPinned
<1>1. OInv => ReviewPinned
  BY DEF OInv, PageInv, BusyAgrees
<1>2. QED
  BY <1>1, OInvAlways, PTL

(* A token is redeemed at most once and only in time, with restarts that    *)
(* empty the registry and requests that arrive late or not at all.          *)
THEOREM ReviewSingleUse == Spec => []SingleUse
<1>1. OInv => SingleUse
  BY DEF OInv, IInv
<1>2. QED
  BY <1>1, OInvAlways, PTL

(* The registry behind the dialog implements the abstract lease; to the     *)
(* lease a restart is no step at all.                                       *)
THEOREM ReviewImplementsLease == Spec => ImplementsLease
<1>1. Init => Lease!Init
  BY DEF Init, RegistryInit, Lease!Init
<1>2. OInv /\ [Next]_vars => [Lease!Next]_(Lease!lease)
  <2>1. Emptied => UNCHANGED Lease!lease
    BY DEF Emptied, Lease!lease
  <2>2. QED
    BY <2>1, RegistrySteps, StepImplementsLease DEF OInv
<1>3. QED
  BY <1>1, <1>2, OInvAlways, PTL DEF Spec, ImplementsLease, Lease!Spec

=============================================================================
