-------------------------- MODULE CommandLifecycle --------------------------
(***************************************************************************)
(* What a gated command is promised, with no store, ledger, engine, thread  *)
(* or handler in sight. It is offered on a lease and taken up at most once, *)
(* and then it ends once: refused, failed or succeeded. A mitigation that   *)
(* succeeds can be reversed until it is, or until Depth newer ones are in   *)
(* line. A rollback takes the newest in line in the instant it is taken up; *)
(* nobody else ever gets that mitigation, however the rollback ends.        *)
(***************************************************************************)
EXTENDS TokenLease, Deque

CONSTANT Depth  \* how many mitigations can wait to be reversed

VARIABLES asked,       \* asked[t]: the Kind of command t was offered for, or None
          running,     \* the tokens taken up and not ended
          outcome,     \* outcome[t]: how t ended, or None
          reversible,  \* the mitigations that can be reversed, newest last
          reverses     \* reverses[t]: the mitigation the rollback t took, or None

Kind == {"mitigation", "restore", "rollback"}

lifecycle == <<lease, asked, running, outcome, reversible, reverses>>

LifecycleInit ==
    /\ Init
    /\ asked = [t \in Token |-> None]
    /\ running = {}
    /\ outcome = [t \in Token |-> None]
    /\ reversible = <<>>
    /\ reverses = [t \in Token |-> None]

Offer(t, kind) ==
    /\ Issue(t)
    /\ asked' = [asked EXCEPT ![t] = kind]
    /\ UNCHANGED <<running, outcome, reversible, reverses>>

Start(t) == running' = running \cup {t} /\ UNCHANGED outcome

(* A mitigation that succeeds is the next to be reversed. *)
Conclude(t, how) ==
    /\ outcome' = [outcome EXCEPT ![t] = how]
    /\ reversible' = IF how = "succeeded" /\ asked[t] = "mitigation"
                     THEN AppendRight(reversible, t, Depth) ELSE reversible

Execute(t) ==
    /\ Grant(t)
    /\ asked[t] # "rollback"
    /\ \/ Start(t) /\ UNCHANGED reversible
       \/ UNCHANGED running /\ \E how \in {"refused", "succeeded"} : Conclude(t, how)
    /\ UNCHANGED <<asked, reverses>>

NothingToReverse(t) ==
    /\ Grant(t)
    /\ asked[t] = "rollback" /\ reversible = <<>>
    /\ Conclude(t, "failed")
    /\ UNCHANGED <<asked, running, reverses>>

Reverse(t) ==
    /\ Grant(t)
    /\ asked[t] = "rollback" /\ reversible # <<>>
    /\ reverses' = [reverses EXCEPT ![t] = reversible[Len(reversible)]]
    /\ reversible' = PopRight(reversible)
    /\ \/ Start(t)
       \/ UNCHANGED running /\ \E how \in {"failed", "succeeded"} : outcome' = [outcome EXCEPT ![t] = how]
    /\ UNCHANGED asked

End(t) ==
    /\ t \in running
    /\ running' = running \ {t}
    /\ \E how \in {"refused", "failed", "succeeded"} :
          /\ how = "refused" => reverses[t] = None
          /\ Conclude(t, how)
    /\ UNCHANGED <<lease, asked, reverses>>

LifecycleNext ==
    \/ Advance /\ UNCHANGED <<asked, running, outcome, reversible, reverses>>
    \/ \E t \in Token :
          \/ \E kind \in Kind : Offer(t, kind)
          \/ Execute(t) \/ NothingToReverse(t) \/ Reverse(t)
          \/ End(t)

LifecycleSpec == LifecycleInit /\ [][LifecycleNext]_lifecycle

=============================================================================
