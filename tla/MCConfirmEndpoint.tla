-------------------------- MODULE MCConfirmEndpoint --------------------------
(***************************************************************************)
(* Instances of ConfirmEndpoint for TLC. The command sets hold one command  *)
(* per path of confirm_command that the configuration can take.             *)
(***************************************************************************)
EXTENDS ConfirmEndpoint, TLC

ParsedAs(intent, name, pid) == [intent |-> intent, name |-> name, pid |-> pid]

BareRollback == ParsedAs("ROLLBACK", None, None)

ClusterCommands ==
    {BareRollback}
    \cup {ParsedAs(intent, Gateway, None) : intent \in {"PROCESS_KILL", "ROLLBACK"}}
    \cup {ParsedAs("PROCESS_KILL", p, None) : p \in Pod \ {Gateway}}

KillCommands == {BareRollback} \cup {ParsedAs("PROCESS_KILL", None, pid) : pid \in Pid}

IsolateCommands == {BareRollback} \cup {ParsedAs("NETWORK_ISOLATE", None, pid) : pid \in Pid}

HostCommands == KillCommands \cup IsolateCommands

MixedCommands == HostCommands \cup {ParsedAs("PROCESS_KILL", Gateway, None)}

ClusterAndHostCommands == ClusterCommands \cup IsolateCommands

Symmetric == Permutations(Token) \cup Permutations(Request)

=============================================================================
