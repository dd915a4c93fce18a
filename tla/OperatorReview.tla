---------------------------- MODULE OperatorReview ----------------------------
(***************************************************************************)
(* The confirmation dialog of the HUD (app/static/app.js: showConfirmation, *)
(* dismissConfirmation, confirm) over the server's confirmation registry    *)
(* and the network between them. The dialog gives up waiting after 15 s     *)
(* while its request may still be on its way or executing; a request and    *)
(* its answer may be lost; the page may be reloaded; the server may restart *)
(* and lose _pending, which is nowhere but in memory.                       *)
(*                                                                          *)
(* Every fetch is a connection of its own, told apart by a number, and its  *)
(* promise is settled by the answer on that connection only: an answer to a *)
(* fetch that was given up has nobody at the other end. The page and the    *)
(* server read the same clock. What an executed command does is             *)
(* ConfirmEndpoint's subject: here it is an answer that says success or not.*)
(***************************************************************************)
EXTENDS ConfirmationRegistry, FiniteSets

CONSTANT MaxFetches  \* bound on the fetches of the page

VARIABLES offers,       \* confirmation_required messages on their way to the page
          review,       \* app.js pending: the token under review, or None
          open,         \* dialog.open
          busy, consumed, invalidated,
          fetch,        \* the fetch confirm() waits for, or None
          answer,       \* the server's answer to it, on its way: success or not, or None
          fetches,      \* fetches issued so far
          requests,     \* requests that have not reached the server
          submitted,    \* history: executions the page has asked for, by token
          dismissed     \* history: tokens whose review was dismissed unexecuted

page == <<offers, review, open, busy, consumed, invalidated, fetch>>
network == <<fetches, requests, answer>>
history == <<submitted, dismissed>>
vars == <<registryVars, page, network, history>>

Fetch == [id : Nat, token : Token, dry_run : BOOLEAN]

ASSUME ReviewAssumption == MaxFetches \in Nat /\ None \notin Fetch \cup Token \cup BOOLEAN

ReviewTypeOK ==
    /\ TypeOK
    /\ offers \subseteq Token /\ review \in Token \cup {None}
    /\ {open, busy, consumed, invalidated} \subseteq BOOLEAN
    /\ fetch \in Fetch \cup {None} /\ fetches \in 0..MaxFetches
    /\ requests \subseteq Fetch /\ answer \in BOOLEAN \cup {None}
    /\ submitted \in [Token -> Nat]
    /\ dismissed \subseteq Token

Init ==
    /\ RegistryInit
    /\ offers = {} /\ review = None
    /\ open = FALSE /\ busy = FALSE /\ consumed = FALSE /\ invalidated = FALSE
    /\ fetch = None
    /\ fetches = 0 /\ requests = {} /\ answer = None
    /\ submitted = [t \in Token |-> 0] /\ dismissed = {}

-----------------------------------------------------------------------------
(* The server. *)

Offer(t, command, mode) ==
    /\ Register(t, command, mode)
    /\ offers' = offers \cup {t}
    /\ UNCHANGED <<review, open, busy, consumed, invalidated, fetch, network, history>>

(* Mutation: the dry_run of the request is ignored. *)
RedeemAlways(f) == Redeem(f.token)

(* A dry run peeks, an execution redeems. *)
LookUp(f) == IF f.dry_run THEN Peek(f.token) ELSE Redeem(f.token)

(* confirm_command: whatever it has found, it may answer with a failure. The *)
(* answer goes to the page that waits for it, or nowhere.                    *)
Serve(f) ==
    /\ f \in requests
    /\ requests' = requests \ {f}
    /\ LookUp(f)
    /\ \E success \in IF Pruned[f.token] = None THEN {FALSE} ELSE BOOLEAN :
        answer' = IF f = fetch THEN success ELSE answer
    /\ UNCHANGED <<page, fetches, history>>

(* The process stops and starts again: the registry is empty. *)
Restart ==
    /\ \E t \in Token : pending[t] # None
    /\ pending' = [t \in Token |-> None]
    /\ UNCHANGED <<now, deadline, grants, page, network, history>>

Clock == Tick /\ UNCHANGED <<page, network, history>>

LoseRequest(f) ==
    /\ f \in requests
    /\ requests' = requests \ {f}
    /\ UNCHANGED <<registryVars, page, fetches, answer, history>>

-----------------------------------------------------------------------------
(* The dialog. *)

(* Mutation: a new request replaces the one under review. *)
ShowReplacing(t) ==
    /\ review' = t /\ open' = TRUE
    /\ consumed' = FALSE /\ invalidated' = FALSE

(* showConfirmation: while the dialog is open a new request is only logged. *)
Show(t) ==
    IF open
    THEN UNCHANGED <<review, open, consumed, invalidated>>
    ELSE /\ review' = t /\ open' = TRUE
         /\ consumed' = FALSE /\ invalidated' = FALSE

OfferArrives(t) ==
    /\ t \in offers
    /\ offers' = offers \ {t}
    /\ Show(t)
    /\ UNCHANGED <<registryVars, busy, fetch, network, history>>

(* Mutation: the page marks the request as consumed when the answer is a    *)
(* success, not when it submits the execution.                              *)
SubmitOptimistic(dry_run) == consumed' = consumed

(* An execution is consumed for the page as soon as it is submitted. *)
Submit(dry_run) == consumed' = (consumed \/ ~dry_run)

(* confirm(dryRun), up to the fetch. *)
Confirm(dry_run) ==
    /\ review # None /\ ~busy /\ ~consumed /\ ~invalidated
    /\ now < deadline[review]
    /\ fetches < MaxFetches
    /\ fetches' = fetches + 1
    /\ fetch' = [id |-> fetches', token |-> review, dry_run |-> dry_run]
    /\ requests' = requests \cup {fetch'}
    /\ busy' = TRUE
    /\ Submit(dry_run)
    /\ submitted' = IF dry_run THEN submitted ELSE [submitted EXCEPT ![review] = @ + 1]
    /\ UNCHANGED <<registryVars, offers, review, open, invalidated, answer, dismissed>>

(* The answer settles the fetch. *)
AnswerArrives ==
    /\ fetch # None /\ answer # None
    /\ invalidated' = (invalidated \/ (fetch.dry_run /\ ~answer))
    /\ busy' = FALSE /\ fetch' = None /\ answer' = None
    /\ UNCHANGED <<registryVars, offers, review, open, consumed, fetches, requests, history>>

(* Mutation: an interrupted fetch leaves the dialog busy. *)
InterruptedBusy == UNCHANGED busy

(* The finally block of confirm(). *)
Interrupted == busy' = FALSE

(* The request or the answer is lost, or AbortSignal.timeout(15000): the    *)
(* outcome is unknown to the page, and nobody listens for the answer.       *)
FetchFails ==
    /\ busy /\ fetch # None
    /\ fetch' = None /\ answer' = None
    /\ Interrupted
    /\ UNCHANGED <<registryVars, offers, review, open, consumed, invalidated, fetches, requests, history>>

(* dismissConfirmation: by the operator, or when the voice session ends     *)
(* (onDisconnect, which leaves an executed request on display).             *)
Dismiss ==
    /\ open /\ ~busy
    /\ dismissed' = IF review # None /\ ~consumed THEN dismissed \cup {review} ELSE dismissed
    /\ review' = None /\ open' = FALSE
    /\ UNCHANGED <<registryVars, offers, busy, consumed, invalidated, fetch, network, submitted>>

(* A reload: its fetch is aborted and the socket's messages are gone. *)
Reload ==
    /\ offers' = {} /\ review' = None
    /\ open' = FALSE /\ busy' = FALSE /\ consumed' = FALSE /\ invalidated' = FALSE
    /\ fetch' = None /\ answer' = None
    /\ UNCHANGED <<registryVars, fetches, requests, history>>

-----------------------------------------------------------------------------
Next ==
    \/ \E t \in Token :
        \/ \E command \in Command, mode \in Mode : Offer(t, command, mode)
        \/ OfferArrives(t)
    \/ \E f \in requests : Serve(f) \/ LoseRequest(f)
    \/ \E dry_run \in BOOLEAN : Confirm(dry_run)
    \/ AnswerArrives \/ FetchFails \/ Dismiss \/ Reload \/ Restart \/ Clock

(* The browser's timer; the operator, the network and the server promise    *)
(* nothing.                                                                 *)
Spec == Init /\ [][Next]_vars /\ WF_vars(FetchFails)

-----------------------------------------------------------------------------
(* "This action will not be retried automatically": one review submits at   *)
(* most one execution, whatever is lost and however long the server takes.  *)
OneSubmission == \A t \in Token : submitted[t] <= 1

(* "Request dismissed locally. No execution submitted": a dismissed request *)
(* is never executed, not by a fetch that was given up either; nothing at   *)
(* all is executed that the operator has not submitted; and what the page   *)
(* shows as "REQUEST UNAVAILABLE" after a failed dry run was not executed   *)
(* and has no execution on its way.                                         *)
NoUnwantedExecution ==
    /\ \A t \in Token : grants[t] # <<>> => submitted[t] > 0 /\ t \notin dismissed
    /\ open /\ invalidated =>
        /\ grants[review] = <<>>
        /\ \A f \in requests : f.token = review => f.dry_run

(* While its fetch is on its way the dialog keeps showing the request the   *)
(* fetch is about: the result is never reported for another one.            *)
ReviewPinned == fetch # None => open /\ review = fetch.token

(* The dialog is never stuck: the operator gets the buttons back.           *)
DialogFreed == busy ~> ~busy
=============================================================================
