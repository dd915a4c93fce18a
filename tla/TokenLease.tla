----------------------------- MODULE TokenLease -----------------------------
(***************************************************************************)
(* What the confirmation gate promises, with no store in sight: a token is  *)
(* issued at most once with a deadline, and it can be granted -- turned     *)
(* into a real execution -- at most once, strictly before that deadline.    *)
(* ConfirmationRegistry implements this with a dictionary that is pruned    *)
(* lazily; nothing here says when an expired entry leaves the store.        *)
(***************************************************************************)
EXTENDS Naturals, Sequences

CONSTANTS Token,    \* the tokens secrets.token_urlsafe may draw
          TTL,      \* ttl_seconds
          MaxTime,  \* bound on the clock
          None      \* "no deadline"

VARIABLES now,       \* the clock, in ticks
          deadline,  \* deadline[t]: instant from which t is worthless, or None
          grants     \* grants[t]: the instants at which t was granted

lease == <<now, deadline, grants>>

Init ==
    /\ now = 0
    /\ deadline = [t \in Token |-> None]
    /\ grants = [t \in Token |-> <<>>]

Issue(t) ==
    /\ deadline[t] = None
    /\ deadline' = [deadline EXCEPT ![t] = now + TTL]
    /\ UNCHANGED <<now, grants>>

Grant(t) ==
    /\ deadline[t] # None
    /\ now < deadline[t]
    /\ grants[t] = <<>>
    /\ grants' = [grants EXCEPT ![t] = Append(@, now)]
    /\ UNCHANGED <<now, deadline>>

Advance ==
    /\ now < MaxTime
    /\ now' = now + 1
    /\ UNCHANGED <<deadline, grants>>

Next ==
    \/ Advance
    \/ \E t \in Token : Issue(t) \/ Grant(t)

Spec == Init /\ [][Next]_lease

=============================================================================
