------------------------ MODULE ConfirmationRegistry ------------------------
(***************************************************************************)
(* app/core/security.py, class ConfirmationRegistry: the single-process,    *)
(* in-memory store of mutating commands that await the operator's click.    *)
(* Every method takes the lock for its whole body, so each is one action.   *)
(* An entry is forgotten in two ways: redeem pops it, and every call first  *)
(* prunes the entries whose deadline has passed.                            *)
(***************************************************************************)
EXTENDS Naturals, Sequences

CONSTANTS Token,    \* the tokens secrets.token_urlsafe may draw
          Command,  \* the parsed mutating commands
          Mode,     \* telemetry modes
          TTL,      \* CONFIRMATION_TOKEN_TTL_SECONDS, in ticks
          MaxTime,  \* bound on the clock
          None      \* an absent entry

VARIABLES now,      \* datetime.now(timezone.utc), in ticks
          pending,  \* _pending: pending[t] is a PendingConfirmation or None
          deadline, \* history: the deadline t was issued with, or None
          grants    \* history: the instants at which redeem(t) returned t's entry

registryVars == <<now, pending, deadline, grants>>

PendingConfirmation ==
    [command : Command, mode : Mode, created_at : Nat, expires_at : Nat]

ASSUME RegistryAssumption ==
    /\ TTL \in Nat \ {0}
    /\ MaxTime \in Nat
    /\ None \notin PendingConfirmation \cup Nat

TypeOK ==
    /\ now \in 0..MaxTime
    /\ pending \in [Token -> PendingConfirmation \cup {None}]
    /\ deadline \in [Token -> Nat \cup {None}]
    /\ grants \in [Token -> Seq(Nat)]

RegistryInit ==
    /\ now = 0
    /\ pending = [t \in Token |-> None]
    /\ deadline = [t \in Token |-> None]
    /\ grants = [t \in Token |-> <<>>]

-----------------------------------------------------------------------------
(* _prune_expired_locked: the store as every method sees it. *)

Expired(t) == pending[t] # None /\ pending[t].expires_at <= now

(* Mutations of this component, each a slip the code could contain. *)
PrunedTooLate == [t \in Token |-> IF pending[t] # None /\ pending[t].expires_at < now
                                  THEN None ELSE pending[t]]

Pruned == [t \in Token |-> IF Expired(t) THEN None ELSE pending[t]]

RegisterForever(t, command, mode) ==
    /\ deadline[t] = None
    /\ pending' = [Pruned EXCEPT ![t] = [command |-> command, mode |-> mode,
                                         created_at |-> now, expires_at |-> None]]
    /\ deadline' = [deadline EXCEPT ![t] = now + TTL]
    /\ UNCHANGED <<now, grants>>

(* register: a fresh token freezes the command, the mode of the moment and  *)
(* the deadline.                                                            *)
Register(t, command, mode) ==
    /\ deadline[t] = None
    /\ pending' = [Pruned EXCEPT ![t] = [command |-> command, mode |-> mode,
                                         created_at |-> now, expires_at |-> now + TTL]]
    /\ deadline' = [deadline EXCEPT ![t] = now + TTL]
    /\ UNCHANGED <<now, grants>>

RedeemWithoutPop(t) ==
    /\ pending' = Pruned
    /\ grants' = IF Pruned[t] # None THEN [grants EXCEPT ![t] = Append(@, now)] ELSE grants
    /\ UNCHANGED <<now, deadline>>

(* redeem returns Pruned[t] and removes it. *)
Redeem(t) ==
    /\ pending' = [Pruned EXCEPT ![t] = None]
    /\ grants' = IF Pruned[t] # None THEN [grants EXCEPT ![t] = Append(@, now)] ELSE grants
    /\ UNCHANGED <<now, deadline>>

PeekPops(t) ==
    /\ pending' = [Pruned EXCEPT ![t] = None]
    /\ UNCHANGED <<now, deadline, grants>>

(* peek returns Pruned[t] and leaves it. *)
Peek(t) ==
    /\ pending' = Pruned
    /\ UNCHANGED <<now, deadline, grants>>

Tick ==
    /\ now < MaxTime
    /\ now' = now + 1
    /\ UNCHANGED <<pending, deadline, grants>>

RegistryNext ==
    \/ Tick
    \/ \E t \in Token :
          \/ \E command \in Command, mode \in Mode : Register(t, command, mode)
          \/ Redeem(t)
          \/ Peek(t)

RegistrySpec == RegistryInit /\ [][RegistryNext]_registryVars

-----------------------------------------------------------------------------
(* The store agrees with the history: an entry still in _pending carries    *)
(* the deadline its token was issued with and has never been redeemed.      *)
StoreAgrees ==
    \A t \in Token : pending[t] # None =>
        /\ deadline[t] = pending[t].expires_at
        /\ grants[t] = <<>>
        /\ pending[t].created_at <= now

(* Single-use and TTL-bound (security.py:54): whatever the interleaving of  *)
(* dry runs, redemptions and pruning, a token is redeemed at most once and  *)
(* only strictly before the deadline it was issued with.                    *)
SingleUse ==
    \A t \in Token :
        /\ Len(grants[t]) <= 1
        /\ \A i \in DOMAIN grants[t] : deadline[t] # None /\ grants[t][i] < deadline[t]

(* peek "without consuming it" (security.py:90): an entry that is still     *)
(* valid stays exactly as it was registered -- command, mode and deadline   *)
(* frozen -- until its own token is redeemed, whatever is asked of others.  *)
ValidUntilRedeemed ==
    [][\A t \in Token :
          /\ pending[t] # None
          /\ now < pending[t].expires_at
          /\ grants'[t] = grants[t]
          => pending'[t] = pending[t]]_registryVars

(* The registry implements the abstract lease: pruning and previews are     *)
(* invisible to it.                                                         *)
Lease == INSTANCE TokenLease
ImplementsLease == Lease!Spec

=============================================================================
