-------------------------- MODULE MitigationStack ---------------------------
(***************************************************************************)
(* app/services/mitigation_stack.py: the LIFO stack of executed             *)
(* mitigations, a deque(maxlen=max_entries) under a lock. What rollback_last *)
(* does with the entry it pops is in ConfirmEndpoint: it reaches into the   *)
(* engines and may suspend.                                                 *)
(***************************************************************************)
EXTENDS Naturals, Sequences, Deque

CONSTANTS Token, Mode, Pod, Pid, Ip,
          Snapshot,    \* what snapshot_pod returns
          MaxEntries,  \* max_entries
          None

VARIABLE stack  \* _entries, oldest first

(* A cluster_pod entry has a snapshot, a network_isolate entry the blocked  *)
(* addresses, a host_process entry nothing to restore.                      *)
MitigationEntry ==
    [token : Token, mode : Mode, target : Pod \cup Pid,
     kind : {"cluster_pod", "network_isolate", "host_process"},
     snapshot : Snapshot \cup {None}, ips : SUBSET Ip]

StackTypeOK == stack \in Seq(MitigationEntry)

StackInit == stack = <<>>

(* peek; preview_rollback describes this entry. *)
Top == IF stack = <<>> THEN None ELSE stack[Len(stack)]

(* Mutation: the entry goes in at the wrong end. *)
PushLeft(entry) == stack' = <<entry>> \o stack

Push(entry) == stack' = AppendRight(stack, entry, MaxEntries)

(* Mutations: rollback only looks at the top; rollback takes the oldest. *)
PopKeeps == UNCHANGED stack
PopLeft == stack' = IF stack = <<>> THEN stack ELSE Tail(stack)

(* pop: Top is the entry returned. *)
Pop == stack' = PopRight(stack)

=============================================================================
