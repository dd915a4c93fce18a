----------------------------- MODULE HostEngine -----------------------------
(***************************************************************************)
(* app/services/system_engine.py, the HOST_LOCAL half: terminate_process,   *)
(* isolate_network and unblock_ips. Each hands its blocking work to a       *)
(* thread (asyncio.to_thread), so the calls of one thread interleave with   *)
(* those of other threads and with the operating system: processes exit,    *)
(* their PIDs are reused, and somebody may edit the firewall by hand.       *)
(*                                                                          *)
(* A worker is one to_thread call. An incarnation is what psutil means by a *)
(* process: a PID together with its creation time; psutil refuses to signal *)
(* a PID that now belongs to another incarnation.                           *)
(***************************************************************************)
EXTENDS Naturals, FiniteSets

CONSTANTS Worker,
          Pid,
          Name, Protected,  \* PROTECTED_PROCESS_NAMES among the names
          Ip,               \* remote addresses, ordered as sorted() orders them
          Platform,         \* sys.platform: "linux" or "win32"
          OutsideEdits,     \* may the operator delete firewall rules by hand?
          Faults,           \* may the firewall tool or psutil fail or time out?
          MaxBirths,        \* bound on the processes ever started
          MaxRules,         \* bound on an address's rules when isolations start
          None

VARIABLES procs,      \* procs[pid]: the incarnation that holds pid, or None
          births,     \* incarnations started so far
          signalled,  \* history: incarnations this program sent a signal to
          rules,      \* rules[ip]: isolation rules for ip now in the firewall
          worker      \* worker[w]: the state of w's thread

hostVars == <<procs, births, signalled, rules, worker>>

Incarnation == [name : Name, id : Nat]

Op == {"terminate", "isolate", "unblock"}
Outcome == {"ok", "failed", "protected", "notfound"}

Thread ==
    [pc : {"idle", "open", "inspect", "connections", "terminate", "wait", "kill", "kill wait",
           "block", "unblock", "returned"},
     op : Op, pid : Pid \cup {None}, dry_run : BOOLEAN,
     proc : Incarnation \cup {None},        \* the psutil.Process object
     todo : SUBSET Ip, done : SUBSET Ip,    \* addresses left, addresses changed
     outcome : Outcome]

ASSUME HostAssumption ==
    /\ Protected \subseteq Name
    /\ Ip \subseteq Nat
    /\ Platform \in {"linux", "win32"}
    /\ {OutsideEdits, Faults} \subseteq BOOLEAN
    /\ {MaxBirths, MaxRules} \subseteq Nat
    /\ None \notin Incarnation \cup Pid

HostTypeOK ==
    /\ procs \in [Pid -> Incarnation \cup {None}]
    /\ births \in Nat
    /\ signalled \subseteq Incarnation
    /\ rules \in [Ip -> Nat]
    /\ worker \in [Worker -> Thread]

IdleThread == [pc |-> "idle", op |-> "terminate", pid |-> None, dry_run |-> FALSE,
               proc |-> None, todo |-> {}, done |-> {}, outcome |-> "ok"]

(* Any processes may be running when the service starts; no rule is its own. *)
HostInit ==
    /\ \E name \in [Pid -> Name] : procs = [p \in Pid |-> [name |-> name[p], id |-> 0]]
    /\ births = 1
    /\ signalled = {}
    /\ rules = [ip \in Ip |-> 0]
    /\ worker = [w \in Worker |-> IdleThread]

-----------------------------------------------------------------------------
(* The event loop's side of a thread. *)

Idle(w) == worker[w].pc = "idle"
Returned(w) == worker[w].pc = "returned"

Submit(w, op, pid, ips, dry_run) ==
    /\ Idle(w)
    /\ worker' = [worker EXCEPT ![w] =
           [IdleThread EXCEPT !.pc = IF op = "unblock" THEN "unblock" ELSE "open",
                              !.op = op, !.pid = pid, !.todo = ips, !.dry_run = dry_run]]
    /\ UNCHANGED <<procs, births, signalled, rules>>

Collect(w) ==
    /\ Returned(w)
    /\ worker' = [worker EXCEPT ![w] = IdleThread]
    /\ UNCHANGED <<procs, births, signalled, rules>>

-----------------------------------------------------------------------------
(* The thread's side. *)

Goto(w, pc) == worker' = [worker EXCEPT ![w].pc = pc]
Return(w, outcome) == worker' = [worker EXCEPT ![w].pc = "returned", ![w].outcome = outcome]

Holder(w) == procs[worker[w].pid]                 \* who holds the PID now
SameProcess(w) == Holder(w) = worker[w].proc      \* still the process inspected

(* psutil.Process(pid): the object stands for whoever holds the PID now.    *)
Open(w) ==
    /\ worker[w].pc = "open"
    /\ \/ Holder(w) = None /\ Return(w, "notfound")
       \/ /\ Holder(w) # None
          /\ worker' = [worker EXCEPT ![w].pc = "inspect", ![w].proc = Holder(w)]
    /\ UNCHANGED <<procs, births, signalled, rules>>

(* Mutation: the protected names are only consulted for the preview. *)
InspectableWhenPreviewed(w) == worker[w].dry_run => Holder(w).name \notin Protected

(* is_protected_process says no. *)
Inspectable(w) == Holder(w).name \notin Protected

(* Mutation: the flag is lost on the way to the thread. *)
PassedDryRunIgnored(w) == Goto(w, IF worker[w].op = "terminate" THEN "terminate" ELSE "connections")

(* The end of a dry-run termination; an isolation looks at the connections. *)
Passed(w) ==
    \/ worker[w].op = "terminate" /\ worker[w].dry_run /\ Return(w, "ok")
    \/ worker[w].op = "terminate" /\ ~worker[w].dry_run /\ Goto(w, "terminate")
    \/ worker[w].op = "isolate" /\ Goto(w, "connections")

(* is_protected_process(proc.name()) and _to_process_info(strict). psutil   *)
(* reads the name of whoever holds the PID, be it the process opened or not.*)
Inspect(w) ==
    /\ worker[w].pc = "inspect"
    /\ \/ Holder(w) = None /\ Return(w, "notfound")
       \/ Holder(w) # None /\ Faults /\ Return(w, "failed")   \* AccessDenied
       \/ Holder(w) # None /\ ~Inspectable(w) /\ Return(w, "protected")
       \/ Holder(w) # None /\ Inspectable(w) /\ Passed(w)
    /\ UNCHANGED <<procs, births, signalled, rules>>

(* proc.net_connections(): the remote addresses of whoever holds the PID.   *)
Connections(w) ==
    /\ worker[w].pc = "connections"
    /\ \/ Holder(w) = None /\ Return(w, "notfound")
       \/ Holder(w) # None /\ Faults /\ Return(w, "failed")
       \/ Holder(w) # None /\ worker[w].dry_run /\ Return(w, "ok")
       \/ /\ Holder(w) # None /\ ~worker[w].dry_run
          /\ \E remote_ips \in SUBSET Ip :
                worker' = [worker EXCEPT ![w].pc = "block", ![w].todo = remote_ips]
    /\ UNCHANGED <<procs, births, signalled, rules>>

(* proc.terminate() or proc.kill(): psutil raises NoSuchProcess if the PID  *)
(* has another holder, AccessDenied if the user may not signal it. The      *)
(* process itself goes away later, by ProcessExit.                          *)
Signal(w, next) ==
    /\ \/ SameProcess(w) /\ signalled' = signalled \cup {Holder(w)} /\ Goto(w, next)
       \/ SameProcess(w) /\ Faults /\ UNCHANGED signalled /\ Return(w, "failed")
       \/ ~SameProcess(w) /\ UNCHANGED signalled /\ Return(w, "notfound")
    /\ UNCHANGED <<procs, births, rules>>

Terminate(w) == worker[w].pc = "terminate" /\ Signal(w, "wait")

(* proc.wait(timeout=3): returns once the process is gone, or gives up      *)
(* while the PID still exists, which a reused PID does too.                 *)
WaitReturns(w) ==
    /\ worker[w].pc \in {"wait", "kill wait"}
    /\ ~SameProcess(w)
    /\ Return(w, "ok")
    /\ UNCHANGED <<procs, births, signalled, rules>>

(* Mutations: the first wait has no timeout; its timeout passes for success. *)
WaitsForever(w) == worker[w].pc = "wait" /\ Holder(w) # None /\ UNCHANGED hostVars

WaitTimeoutIgnored(w) ==
    /\ worker[w].pc = "wait" /\ Holder(w) # None
    /\ Return(w, "ok")
    /\ UNCHANGED <<procs, births, signalled, rules>>

WaitTimesOut(w) ==
    /\ worker[w].pc = "wait" /\ Holder(w) # None
    /\ Goto(w, "kill")
    /\ UNCHANGED <<procs, births, signalled, rules>>

Kill(w) == worker[w].pc = "kill" /\ Signal(w, "kill wait")

KillWaitTimesOut(w) ==
    /\ worker[w].pc = "kill wait"
    /\ Holder(w) # None
    /\ Return(w, "failed")
    /\ UNCHANGED <<procs, births, signalled, rules>>

First(ips) == CHOOSE ip \in ips : \A other \in ips : ip <= other

(* One rule changed for the first address left, which moves to done. *)
Advance(w, ip) == worker' = [worker EXCEPT ![w].todo = @ \ {ip}, ![w].done = @ \cup {ip}]

(* Mutation: isolate_network does not know _FirewallRuleError, which reaches *)
(* its caller.                                                               *)
BlockUncaught(w) ==
    /\ worker[w].pc = "block" /\ worker[w].todo # {} /\ Faults
    /\ Return(w, "raised")
    /\ UNCHANGED <<procs, births, signalled, rules>>

(* _block_ip over the remote addresses. The tool may refuse, and one that   *)
(* timed out may have applied its rule; either way the rest is not tried    *)
(* and what was installed stays.                                            *)
Block(w) ==
    /\ worker[w].pc = "block"
    /\ IF worker[w].todo = {}
       THEN Return(w, "ok") /\ UNCHANGED rules
       ELSE LET ip == First(worker[w].todo)
                installed == [rules EXCEPT ![ip] = @ + 1]
            IN  \/ rules' = installed /\ Advance(w, ip)
                \/ Faults /\ rules' \in {rules, installed} /\ Return(w, "failed")
    /\ UNCHANGED <<procs, births, signalled>>

(* Mutation: every rule of the address goes. *)
RulesFlushed(ip) == [rules EXCEPT ![ip] = 0]

(* What removing ip's rule leaves: iptables -D deletes one matching rule,   *)
(* netsh deletes every rule that has the name derived from the address.     *)
RuleRemoved(ip) ==
    [rules EXCEPT ![ip] = IF @ > 0 /\ Platform = "linux" THEN @ - 1 ELSE 0]

(* _unblock_ip over an entry's addresses. With no rule to delete the tool   *)
(* exits with an error, which check=True raises.                            *)
Unblock(w) ==
    /\ worker[w].pc = "unblock"
    /\ IF worker[w].todo = {}
       THEN Return(w, "ok") /\ UNCHANGED rules
       ELSE LET ip == First(worker[w].todo)
            IN  \/ rules[ip] > 0 /\ rules' = RuleRemoved(ip) /\ Advance(w, ip)
                \/ rules[ip] = 0 /\ UNCHANGED rules /\ Return(w, "failed")
                \/ Faults /\ rules' \in {rules, RuleRemoved(ip)} /\ Return(w, "failed")
    /\ UNCHANGED <<procs, births, signalled>>

ThreadStep(w) ==
    \/ Open(w)
    \/ Inspect(w)
    \/ Connections(w)
    \/ Terminate(w)
    \/ WaitReturns(w)
    \/ WaitTimesOut(w)
    \/ Kill(w)
    \/ KillWaitTimesOut(w)
    \/ Block(w)
    \/ Unblock(w)

-----------------------------------------------------------------------------
(* The operating system and its other users. *)

ProcessExit(pid) ==
    /\ procs[pid] # None
    /\ procs' = [procs EXCEPT ![pid] = None]
    /\ UNCHANGED <<births, signalled, rules, worker>>

ProcessStart(pid, name) ==
    /\ procs[pid] = None
    /\ births <= MaxBirths
    /\ procs' = [procs EXCEPT ![pid] = [name |-> name, id |-> births]]
    /\ births' = births + 1
    /\ UNCHANGED <<signalled, rules, worker>>

ManualRemoval(ip) ==
    /\ OutsideEdits
    /\ rules[ip] > 0
    /\ rules' = [rules EXCEPT ![ip] = @ - 1]
    /\ UNCHANGED <<procs, births, signalled, worker>>

OutsideStep ==
    \/ \E pid \in Pid : ProcessExit(pid) \/ \E name \in Name : ProcessStart(pid, name)
    \/ \E ip \in Ip : ManualRemoval(ip)

-----------------------------------------------------------------------------
(* The engine on its own: any coroutine may submit any of the calls, until   *)
(* the firewall holds MaxRules rules for some address.                      *)

HostNext ==
    \/ OutsideStep
    \/ \E w \in Worker :
          \/ ThreadStep(w)
          \/ Collect(w)
          \/ \E pid \in Pid, op \in {"terminate", "isolate"}, dry_run \in BOOLEAN :
                /\ \A ip \in Ip : rules[ip] < MaxRules
                /\ Submit(w, op, pid, {}, dry_run)
          \/ \E ips \in SUBSET Ip \ {{}} : Submit(w, "unblock", None, ips, FALSE)

(* Every blocking call of a thread has a timeout, so a thread that can move *)
(* does; nothing is assumed of the processes, their users or the callers.   *)
HostSpec == HostInit /\ [][HostNext]_hostVars /\ \A w \in Worker : WF_hostVars(ThreadStep(w))

(* security.py:18 and README "Safety Model": no process with a protected    *)
(* name is ever signalled, even when its PID was free or belonged to        *)
(* another process at the time of the preview, the check or the first       *)
(* signal.                                                                  *)
ProtectedSurvive == \A proc \in signalled : proc.name \notin Protected

(* terminate_process reports a termination only for the process it          *)
(* inspected: a thread that returns "ok" sent a signal to exactly that      *)
(* incarnation, and the incarnation is gone.                                *)
TerminationIsReal ==
    \A w \in Worker : Returned(w) /\ worker[w].outcome = "ok" /\ worker[w].op = "terminate"
                                  /\ ~worker[w].dry_run =>
        worker[w].proc \in signalled /\ ~SameProcess(w)

(* Every submitted call comes back, whatever exits, is refused or hangs.    *)
ThreadsReturn == \A w \in Worker : ~Idle(w) ~> Returned(w)

=============================================================================
