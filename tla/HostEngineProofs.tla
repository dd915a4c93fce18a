-------------------------- MODULE HostEngineProofs --------------------------
(***************************************************************************)
(* HostEngine, for every set of threads, PIDs, names and addresses, both    *)
(* platforms, with or without faults and manual changes to the firewall.    *)
(*                                                                          *)
(* Neither safety property is inductive. That a protected process survives  *)
(* rests on what a thread holds between its check and its signals: an       *)
(* incarnation whose name was checked, or one that had already gone. Both   *)
(* properties rest on incarnations never coming back: whoever holds a PID   *)
(* next is younger than every incarnation seen before.                      *)
(***************************************************************************)
EXTENDS HostEngine, WellFoundedInduction, TLAPS

(* The incarnations known so far are older than the next one. *)
Older ==
    /\ \A pid \in Pid : procs[pid] # None => procs[pid].id < births
    /\ \A w \in Worker : worker[w].proc # None => worker[w].proc.id < births

(* Where a thread acts on a process or on the firewall, as no dry run does,  *)
(* and where a thread can be on behalf of each operation.                   *)
Acting == {"terminate", "wait", "kill", "kill wait", "block"}

PhaseFits ==
    \A w \in Worker :
        /\ worker[w].pc # "idle" /\ worker[w].op # "unblock" => worker[w].pid \in Pid
        /\ worker[w].pc \in {"open", "inspect"} => worker[w].op \in {"terminate", "isolate"}
        /\ worker[w].pc \in {"connections", "block"} => worker[w].op = "isolate"
        /\ worker[w].pc = "unblock" => worker[w].op = "unblock"
        /\ worker[w].pc \in {"terminate", "wait", "kill", "kill wait"} => worker[w].op = "terminate"
        /\ worker[w].dry_run => worker[w].pc \notin Acting

(* The name that was checked is that of the PID's holder at the check: the   *)
(* process opened is then not protected, or it no longer holds its PID and   *)
(* never will again. Once a thread waits it has signalled what it opened.    *)
Checked ==
    \A w \in Worker :
        /\ worker[w].pc \in {"inspect", "terminate"} => worker[w].proc # None
        /\ worker[w].pc = "terminate" /\ worker[w].proc.name \in Protected => ~SameProcess(w)
        /\ worker[w].pc \in {"wait", "kill", "kill wait"} => worker[w].proc \in signalled

HInv == HostTypeOK /\ Older /\ PhaseFits /\ Checked /\ ProtectedSurvive /\ TerminationIsReal

-----------------------------------------------------------------------------
LEMMA HInvInitially == HostInit => HInv
<1> SUFFICES ASSUME HostInit PROVE HInv
  OBVIOUS
<1> USE HostAssumption DEF HostInit
<1>1. worker = [w \in Worker |-> IdleThread] /\ IdleThread \in Thread
  BY DEF IdleThread, Thread, Op, Outcome
<1>2. procs \in [Pid -> Incarnation]
  <2>1. PICK name \in [Pid -> Name] : procs = [p \in Pid |-> [name |-> name[p], id |-> 0]]
    OBVIOUS
  <2>2. QED
    BY <2>1 DEF Incarnation
<1>3. \A p \in Pid : procs[p].id = 0
  OBVIOUS
<1>4. HostTypeOK
  BY <1>1, <1>2 DEF HostTypeOK
<1>5. \A w \in Worker : worker[w].pc = "idle" /\ worker[w].proc = None /\ worker[w].dry_run = FALSE
  BY <1>1 DEF IdleThread
<1>6. Older
  <2>1. births = 1
    OBVIOUS
  <2>2. QED
    BY ONLY <1>3, <1>5, <2>1 DEF Older
<1>6a. PhaseFits /\ Checked
  BY ONLY <1>5 DEF PhaseFits, Checked
<1>7. ProtectedSurvive /\ TerminationIsReal
  BY <1>5 DEF ProtectedSurvive, TerminationIsReal, Returned
<1>8. QED
  BY <1>4, <1>6, <1>6a, <1>7 DEF HInv

(* A thread moves and nothing else does: what must be shown of it is about  *)
(* its own new state.                                                       *)
LEMMA ThreadMoves ==
  ASSUME HInv, NEW w \in Worker, NEW thread \in Thread,
         worker' = [worker EXCEPT ![w] = thread],
         UNCHANGED <<procs, births, signalled>>, rules' \in [Ip -> Nat],
         thread.pc # "idle" /\ thread.op # "unblock" => thread.pid \in Pid,
         thread.proc # None => thread.proc.id < births,
         thread.pc \in {"open", "inspect"} => thread.op \in {"terminate", "isolate"},
         thread.pc \in {"connections", "block"} => thread.op = "isolate",
         thread.pc = "unblock" => thread.op = "unblock",
         thread.pc \in {"terminate", "wait", "kill", "kill wait"} => thread.op = "terminate",
         thread.dry_run => thread.pc \notin Acting,
         thread.pc \in {"inspect", "terminate"} => thread.proc # None,
         thread.pc = "terminate" /\ thread.proc.name \in Protected => procs[thread.pid] # thread.proc,
         thread.pc \in {"wait", "kill", "kill wait"} => thread.proc \in signalled,
         thread.pc = "returned" /\ thread.outcome = "ok" /\ thread.op = "terminate" /\ ~thread.dry_run =>
            thread.proc \in signalled /\ procs[thread.pid] # thread.proc
  PROVE  HInv'
<1> USE DEF HInv
<1>1. worker \in [Worker -> Thread] /\ worker'[w] = thread
      /\ \A v \in Worker \ {w} : worker'[v] = worker[v]
  BY DEF HostTypeOK
<1>2. HostTypeOK'
  BY <1>1 DEF HostTypeOK
<1>3. Older'
  BY <1>1 DEF Older
<1>4. PhaseFits'
  BY <1>1 DEF PhaseFits
<1>5. Checked'
  BY <1>1 DEF Checked, SameProcess, Holder
<1>6. ProtectedSurvive'
  BY DEF ProtectedSurvive
<1>7. TerminationIsReal'
  BY <1>1 DEF TerminationIsReal, Returned, SameProcess, Holder
<1>8. QED
  BY <1>2, <1>3, <1>4, <1>5, <1>6, <1>7

(* A process that has gone stays gone: the PID is freed, or goes to an        *)
(* incarnation younger than every one that a thread holds.                  *)
LEMMA GoneStaysGone ==
  ASSUME HInv, OutsideStep, NEW w \in Worker, worker[w].pid \in Pid, worker[w].proc # None,
         procs[worker[w].pid] # worker[w].proc
  PROVE  procs'[worker[w].pid] # worker[w].proc
<1> USE DEF HInv
<1>1. ASSUME NEW pid \in Pid, ProcessExit(pid) PROVE procs'[worker[w].pid] # worker[w].proc
  BY <1>1 DEF ProcessExit, HostTypeOK
<1>2. ASSUME NEW pid \in Pid, NEW name \in Name, ProcessStart(pid, name)
      PROVE  procs'[worker[w].pid] # worker[w].proc
  <2> DEFINE born == [name |-> name, id |-> births]
  <2>1. procs' = [procs EXCEPT ![pid] = born] /\ births \in Nat
    BY <1>2 DEF ProcessStart, HostTypeOK
  <2>2. worker[w].proc.id < births
    BY DEF Older
  <2>3. worker[w].proc # born
    BY <2>1, <2>2
  <2>4. QED
    BY <2>1, <2>3 DEF HostTypeOK
<1>3. ASSUME NEW ip \in Ip, ManualRemoval(ip) PROVE procs'[worker[w].pid] # worker[w].proc
  BY <1>3 DEF ManualRemoval
<1>4. QED
  BY <1>1, <1>2, <1>3 DEF OutsideStep

(* Nothing happens to the threads; processes come and go, rules are removed. *)
LEMMA OutsideKeeps == HInv /\ OutsideStep => HInv'
<1> SUFFICES ASSUME HInv, OutsideStep PROVE HInv'
  OBVIOUS
<1> USE DEF HInv
<1>1. UNCHANGED <<signalled, worker>>
  BY DEF OutsideStep, ProcessExit, ProcessStart, ManualRemoval
<1>2. HostTypeOK' /\ Older'
  <2>1. ASSUME NEW pid \in Pid, ProcessExit(pid) PROVE HostTypeOK' /\ Older'
    BY <2>1 DEF ProcessExit, HostTypeOK, Older
  <2>2. ASSUME NEW pid \in Pid, NEW name \in Name, ProcessStart(pid, name) PROVE HostTypeOK' /\ Older'
    <3> DEFINE born == [name |-> name, id |-> births]
    <3>1. /\ procs' = [procs EXCEPT ![pid] = born] /\ births' = births + 1
          /\ UNCHANGED <<signalled, rules, worker>>
      BY <2>2 DEF ProcessStart
    <3>2. births \in Nat /\ born \in Incarnation
      BY DEF HostTypeOK, Incarnation
    <3>3. HostTypeOK'
      BY <3>1, <3>2 DEF HostTypeOK
    <3>4. \A p \in Pid : procs'[p] # None => procs'[p].id < births'
      BY <3>1, <3>2 DEF Older, HostTypeOK, Incarnation
    <3>5. ASSUME NEW v \in Worker, worker[v].proc # None
          PROVE  worker[v].proc.id < births + 1
      <4>1. worker[v] \in Thread
        BY DEF HostTypeOK
      <4>2. worker[v].proc \in Incarnation
        BY <4>1, <3>5 DEF Thread
      <4>3. worker[v].proc.id < births /\ worker[v].proc.id \in Nat
        BY <4>2, <3>5 DEF Older, Incarnation
      <4>4. QED
        BY <4>3, <3>2
    <3>6. QED
      BY <3>1, <3>3, <3>4, <3>5 DEF Older
  <2>3. ASSUME NEW ip \in Ip, ManualRemoval(ip) PROVE HostTypeOK' /\ Older'
    BY <2>3 DEF ManualRemoval, HostTypeOK, Older
  <2>4. QED
    BY <2>1, <2>2, <2>3 DEF OutsideStep
<1>3. PhaseFits' /\ ProtectedSurvive'
  BY <1>1 DEF PhaseFits, ProtectedSurvive
<1>4. Checked'
  <2>1. ASSUME NEW w \in Worker, worker[w].pc = "terminate", worker[w].proc.name \in Protected
        PROVE  procs'[worker[w].pid] # worker[w].proc
    <3>1. worker[w].pid \in Pid /\ worker[w].proc # None /\ procs[worker[w].pid] # worker[w].proc
      BY <2>1 DEF Checked, PhaseFits, SameProcess, Holder
    <3>2. QED
      BY <3>1, GoneStaysGone
  <2>2. QED
    BY <1>1, <2>1 DEF Checked, SameProcess, Holder
<1>5. TerminationIsReal'
  <2> SUFFICES ASSUME NEW w \in Worker, Returned(w), worker[w].outcome = "ok",
                      worker[w].op = "terminate", ~worker[w].dry_run
               PROVE  worker[w].proc \in signalled /\ procs'[worker[w].pid] # worker[w].proc
    BY <1>1 DEF TerminationIsReal, Returned, SameProcess, Holder
  <2>1. worker[w].proc \in signalled /\ procs[worker[w].pid] # worker[w].proc /\ worker[w].pid \in Pid
    BY DEF TerminationIsReal, Returned, SameProcess, Holder, PhaseFits
  <2>2. worker[w].proc # None
    BY <2>1, HostAssumption DEF HostTypeOK, HostAssumption
  <2>3. QED
    BY <2>1, <2>2, GoneStaysGone
<1>6. QED
  BY <1>2, <1>3, <1>4, <1>5

-----------------------------------------------------------------------------
(* The event loop's two steps. *)

LEMMA SubmitKeeps ==
  ASSUME HInv, NEW w \in Worker, NEW op \in Op, NEW pid \in Pid \cup {None}, NEW ips \in SUBSET Ip,
         NEW dry_run \in BOOLEAN, op # "unblock" => pid \in Pid,
         Submit(w, op, pid, ips, dry_run)
  PROVE  HInv'
<1> DEFINE first == IF op = "unblock" THEN "unblock" ELSE "open"
           thread == [IdleThread EXCEPT !.pc = first, !.op = op, !.pid = pid, !.todo = ips,
                                        !.dry_run = dry_run]
<1>1. worker' = [worker EXCEPT ![w] = thread]
  BY DEF Submit
<1>2. UNCHANGED <<procs, births, signalled>> /\ rules' \in [Ip -> Nat]
  BY DEF Submit, HInv, HostTypeOK
<1>3. /\ op # "unblock" => first = "open" /\ op \in {"terminate", "isolate"}
      /\ op = "unblock" => first = "unblock"
      /\ first \in {"open", "unblock"}
  BY DEF Op
<1> HIDE DEF first
<1>4. IdleThread \in Thread
  BY DEF IdleThread, Thread, Op, Outcome
<1>5. thread \in Thread
  BY <1>3, <1>4 DEF Thread
<1>6. /\ thread.pc = first /\ thread.op = op /\ thread.pid = pid
      /\ thread.proc = None
  BY <1>4 DEF Thread, IdleThread
<1> HIDE DEF thread
<1>7. QED
  BY <1>1, <1>2, <1>3, <1>5, <1>6, ThreadMoves DEF Acting

LEMMA CollectKeeps ==
  ASSUME HInv, NEW w \in Worker, Collect(w)
  PROVE  HInv'
<1>1. IdleThread \in Thread
  BY DEF IdleThread, Thread, Op, Outcome
<1>2. /\ worker' = [worker EXCEPT ![w] = IdleThread] /\ UNCHANGED <<procs, births, signalled>>
      /\ rules' \in [Ip -> Nat]
  BY DEF Collect, HInv, HostTypeOK
<1>3. IdleThread.pc = "idle" /\ IdleThread.proc = None /\ IdleThread.dry_run = FALSE
  BY DEF IdleThread
<1>4. QED
  BY <1>1, <1>2, <1>3, ThreadMoves

-----------------------------------------------------------------------------
(* The thread's steps. *)

(* A thread that returns with anything but the success of a real kill. *)
LEMMA ReturnKeeps ==
  ASSUME HInv, NEW w \in Worker, NEW outcome \in Outcome, Return(w, outcome),
         worker[w].pc # "idle", UNCHANGED <<procs, births, signalled>>, rules' \in [Ip -> Nat],
         outcome = "ok" /\ worker[w].op = "terminate" /\ ~worker[w].dry_run =>
            worker[w].proc \in signalled /\ procs[worker[w].pid] # worker[w].proc
  PROVE  HInv'
<1> DEFINE thread == [worker[w] EXCEPT !.pc = "returned", !.outcome = outcome]
<1>1. worker \in [Worker -> Thread] /\ worker[w] \in Thread
  BY DEF HInv, HostTypeOK
<1>2. thread \in Thread /\ worker' = [worker EXCEPT ![w] = thread]
  BY <1>1 DEF Return, Thread
<1>3. /\ thread.pc = "returned" /\ thread.outcome = outcome /\ thread.op = worker[w].op
      /\ thread.pid = worker[w].pid /\ thread.proc = worker[w].proc /\ thread.dry_run = worker[w].dry_run
  BY <1>1 DEF Thread
<1>4. /\ thread.op # "unblock" => thread.pid \in Pid
      /\ thread.proc # None => thread.proc.id < births
  BY <1>3 DEF HInv, PhaseFits, Older
<1> HIDE DEF thread
<1>5. QED
  BY <1>2, <1>3, <1>4, ThreadMoves DEF Acting

(* A thread that only moves on to another place in the code. *)
LEMMA GotoKeeps ==
  ASSUME HInv, NEW w \in Worker, NEW pc \in {"connections", "terminate", "kill"}, Goto(w, pc),
         UNCHANGED <<procs, births, signalled>>, rules' \in [Ip -> Nat], worker[w].pc # "idle",
         pc \in Acting => ~worker[w].dry_run,
         pc = "connections" => worker[w].op = "isolate",
         pc \in {"terminate", "kill"} => worker[w].op = "terminate",
         pc = "terminate" => worker[w].proc # None,
         pc = "terminate" /\ worker[w].proc.name \in Protected => procs[worker[w].pid] # worker[w].proc,
         pc = "kill" => worker[w].proc \in signalled
  PROVE  HInv'
<1> DEFINE thread == [worker[w] EXCEPT !.pc = pc]
<1>1. worker \in [Worker -> Thread] /\ worker[w] \in Thread
  BY DEF HInv, HostTypeOK
<1>2. thread \in Thread /\ worker' = [worker EXCEPT ![w] = thread]
  BY <1>1 DEF Goto, Thread
<1>3. /\ thread.pc = pc /\ thread.op = worker[w].op /\ thread.pid = worker[w].pid
      /\ thread.proc = worker[w].proc /\ thread.dry_run = worker[w].dry_run
  BY <1>1 DEF Thread
<1>4. /\ thread.op # "unblock" => thread.pid \in Pid
      /\ thread.proc # None => thread.proc.id < births
  BY <1>3 DEF HInv, PhaseFits, Older
<1> HIDE DEF thread
<1>5. QED
  BY <1>2, <1>3, <1>4, ThreadMoves

(* A thread that signals the process it opened, or is refused. *)
LEMMA SignalKeeps ==
  ASSUME HInv, NEW w \in Worker, NEW next \in {"wait", "kill wait"},
         worker[w].pc \in {"terminate", "kill"}, Signal(w, next)
  PROVE  HInv'
<1> USE DEF HInv
<1>1. /\ worker \in [Worker -> Thread] /\ worker[w] \in Thread
      /\ rules' \in [Ip -> Nat] /\ UNCHANGED <<procs, births>>
  BY DEF HostTypeOK, Signal
<1>2. worker[w].op = "terminate" /\ worker[w].pid \in Pid /\ ~worker[w].dry_run
  BY DEF PhaseFits, Acting
<1>3. CASE SameProcess(w) /\ signalled' = signalled \cup {Holder(w)} /\ Goto(w, next)
  <2> DEFINE thread == [worker[w] EXCEPT !.pc = next]
  <2>1. thread \in Thread /\ worker' = [worker EXCEPT ![w] = thread]
    BY <1>1, <1>3 DEF Goto, Thread
  <2>2. /\ thread.pc = next /\ thread.op = worker[w].op /\ thread.pid = worker[w].pid
        /\ thread.proc = worker[w].proc /\ thread.dry_run = worker[w].dry_run
    BY <1>1 DEF Thread
  <2> HIDE DEF thread
  <2>3. worker'[w] = thread /\ \A v \in Worker \ {w} : worker'[v] = worker[v]
    BY <2>1, <1>1
  <2>4. worker[w].proc # None /\ worker[w].proc.name \notin Protected
    <3>1. CASE worker[w].pc = "terminate"
      BY <1>3, <3>1 DEF Checked
    <3>2. CASE worker[w].pc = "kill"
      BY <3>2, HostAssumption DEF Checked, ProtectedSurvive, HostTypeOK, HostAssumption
    <3>3. QED
      BY <3>1, <3>2
  <2>5. worker[w].proc \in Incarnation /\ signalled' = signalled \cup {worker[w].proc}
    BY <1>1, <1>3, <2>4 DEF Thread, SameProcess
  <2>6. HostTypeOK'
    BY <1>1, <2>1, <2>5 DEF HostTypeOK
  <2>7. Older'
    BY <1>1, <2>2, <2>3 DEF Older
  <2>8. PhaseFits'
    BY ZenonT(40), <1>2, <2>2, <2>3 DEF PhaseFits
  <2>9. Checked'
    BY <1>1, <2>2, <2>3, <2>5 DEF Checked, SameProcess, Holder
  <2>10. ProtectedSurvive'
    BY <2>4, <2>5 DEF ProtectedSurvive
  <2>11. TerminationIsReal'
    BY ZenonT(40), <1>1, <2>2, <2>3, <2>5 DEF TerminationIsReal, Returned, SameProcess, Holder
  <2>12. QED
    BY <2>6, <2>7, <2>8, <2>9, <2>10, <2>11
<1>4. CASE UNCHANGED signalled /\ (Return(w, "failed") \/ Return(w, "notfound"))
  BY <1>1, <1>4, ReturnKeeps DEF Outcome
<1>5. QED
  BY <1>3, <1>4 DEF Signal

LEMMA OpenKeeps ==
  ASSUME HInv, NEW w \in Worker, Open(w)
  PROVE  HInv'
<1> USE DEF HInv
<1>1. /\ worker \in [Worker -> Thread] /\ worker[w] \in Thread
      /\ rules' \in [Ip -> Nat] /\ UNCHANGED <<procs, births, signalled>> /\ worker[w].pc = "open"
  BY DEF HostTypeOK, Open
<1>2. worker[w].op \in {"terminate", "isolate"} /\ worker[w].pid \in Pid
  BY <1>1 DEF PhaseFits
<1>3. CASE Return(w, "notfound")
  BY <1>1, <1>3, ReturnKeeps DEF Outcome
<1>4. CASE Holder(w) # None /\ worker' = [worker EXCEPT ![w].pc = "inspect", ![w].proc = Holder(w)]
  <2> DEFINE thread == [worker[w] EXCEPT !.pc = "inspect", !.proc = Holder(w)]
  <2>1. Holder(w) \in Incarnation /\ Holder(w).id < births
    BY <1>2, <1>4 DEF HostTypeOK, Holder, Older
  <2>2. thread \in Thread /\ worker' = [worker EXCEPT ![w] = thread]
    BY <1>1, <1>4, <2>1 DEF Thread
  <2>3. /\ thread.pc = "inspect" /\ thread.op = worker[w].op /\ thread.pid = worker[w].pid
        /\ thread.proc = Holder(w)
    BY <1>1 DEF Thread
  <2> HIDE DEF thread
  <2>4. QED
    BY <1>1, <1>2, <1>4, <2>1, <2>2, <2>3, ThreadMoves DEF Acting
<1>5. QED
  BY <1>3, <1>4 DEF Open

LEMMA InspectKeeps ==
  ASSUME HInv, NEW w \in Worker, Inspect(w)
  PROVE  HInv'
<1> USE DEF HInv
<1>1. /\ rules' \in [Ip -> Nat] /\ UNCHANGED <<procs, births, signalled>> /\ worker[w].pc = "inspect"
  BY DEF HostTypeOK, Inspect
<1>2. CASE Return(w, "notfound") \/ Return(w, "protected") \/ Return(w, "failed")
  BY <1>1, <1>2, ReturnKeeps DEF Outcome
<1>3. CASE worker[w].dry_run /\ Return(w, "ok")
  BY <1>1, <1>3, ReturnKeeps DEF Outcome
<1>4. CASE worker[w].op = "terminate" /\ ~worker[w].dry_run /\ Inspectable(w) /\ Goto(w, "terminate")
  <2>1. worker[w].proc # None
    BY <1>1 DEF Checked
  <2>2. worker[w].proc.name \in Protected => procs[worker[w].pid] # worker[w].proc
    BY <1>4 DEF Inspectable, Holder
  <2>3. QED
    BY <1>1, <1>4, <2>1, <2>2, GotoKeeps
<1>5. CASE worker[w].op = "isolate" /\ Goto(w, "connections")
  BY <1>1, <1>5, GotoKeeps DEF Acting
<1>6. QED
  BY <1>2, <1>3, <1>4, <1>5 DEF Inspect, Passed

LEMMA ConnectionsKeeps ==
  ASSUME HInv, NEW w \in Worker, Connections(w)
  PROVE  HInv'
<1> USE DEF HInv
<1>1. /\ worker \in [Worker -> Thread] /\ worker[w] \in Thread
      /\ rules' \in [Ip -> Nat] /\ UNCHANGED <<procs, births, signalled>>
      /\ worker[w].pc = "connections" /\ worker[w].op = "isolate" /\ worker[w].pid \in Pid
  BY DEF HostTypeOK, Connections, PhaseFits
<1>2. CASE Return(w, "notfound") \/ Return(w, "failed") \/ Return(w, "ok")
  BY <1>1, <1>2, ReturnKeeps DEF Outcome
<1>3. ASSUME NEW remote_ips \in SUBSET Ip, ~worker[w].dry_run,
             worker' = [worker EXCEPT ![w].pc = "block", ![w].todo = remote_ips]
      PROVE  HInv'
  <2> DEFINE thread == [worker[w] EXCEPT !.pc = "block", !.todo = remote_ips]
  <2>1. thread \in Thread /\ worker' = [worker EXCEPT ![w] = thread]
    BY <1>1, <1>3 DEF Thread
  <2>2. /\ thread.pc = "block" /\ thread.op = worker[w].op /\ thread.pid = worker[w].pid
        /\ thread.proc = worker[w].proc /\ thread.dry_run = worker[w].dry_run
    BY <1>1 DEF Thread
  <2>3. thread.proc # None => thread.proc.id < births
    BY <2>2 DEF Older
  <2>4. thread.dry_run => thread.pc \notin Acting
    BY ONLY <1>3, <2>2 DEF Acting
  <2> HIDE DEF thread
  <2>5. QED
    BY <1>1, <2>1, <2>2, <2>3, <2>4, ThreadMoves
<1>4. QED
  BY <1>2, <1>3 DEF Connections

LEMMA WaitReturnsKeeps ==
  ASSUME HInv, NEW w \in Worker, WaitReturns(w)
  PROVE  HInv'
<1>1. /\ worker[w].pc \in {"wait", "kill wait"} /\ ~SameProcess(w) /\ Return(w, "ok")
      /\ UNCHANGED <<procs, births, signalled>> /\ rules' \in [Ip -> Nat]
  BY DEF WaitReturns, HInv, HostTypeOK
<1>2. worker[w].proc \in signalled /\ procs[worker[w].pid] # worker[w].proc
  BY <1>1 DEF HInv, Checked, SameProcess, Holder
<1>3. QED
  BY <1>1, <1>2, ReturnKeeps DEF Outcome

(* The firewall loops: a thread goes on to its next address, or returns. *)
LEMMA AdvanceKeeps ==
  ASSUME HInv, NEW w \in Worker, NEW ip \in Ip, worker[w].pc \in {"block", "unblock"},
         Advance(w, ip), UNCHANGED <<procs, births, signalled>>, rules' \in [Ip -> Nat]
  PROVE  HInv'
<1> DEFINE thread == [worker[w] EXCEPT !.todo = @ \ {ip}, !.done = @ \cup {ip}]
<1>1. worker \in [Worker -> Thread] /\ worker[w] \in Thread
  BY DEF HInv, HostTypeOK
<1>2. thread \in Thread /\ worker' = [worker EXCEPT ![w] = thread]
  BY <1>1 DEF Advance, Thread
<1>3. /\ thread.pc = worker[w].pc /\ thread.op = worker[w].op /\ thread.pid = worker[w].pid
      /\ thread.proc = worker[w].proc /\ thread.dry_run = worker[w].dry_run
  BY <1>1 DEF Thread
<1>4. /\ thread.pc # "idle" /\ thread.op # "unblock" => thread.pid \in Pid
      /\ thread.proc # None => thread.proc.id < births
      /\ thread.pc = "block" => thread.op = "isolate"
      /\ thread.pc = "unblock" => thread.op = "unblock"
      /\ thread.dry_run => thread.pc \notin Acting
  BY <1>3 DEF HInv, PhaseFits, Older
<1> HIDE DEF thread
<1>5. QED
  BY <1>2, <1>3, <1>4, ThreadMoves

(* First takes one of the addresses it is given: addresses are ordered as    *)
(* natural numbers are.                                                     *)
LEMMA FirstOfThem ==
  ASSUME NEW ips \in SUBSET Ip, ips # {}
  PROVE  First(ips) \in ips
<1> DEFINE R == OpToRel(<, Nat)
<1>1. ips \subseteq Nat
  BY HostAssumption DEF HostAssumption
<1>2. \E ip \in ips : \A other \in ips : <<other, ip>> \notin R
  <2>1. IsWellFoundedOn(R, Nat)
    BY NatLessThanWellFounded
  <2> HIDE DEF R
  <2>2. QED
    BY <1>1, <2>1, WFMin
<1>3. \A m, n \in Nat : <<m, n>> \notin R => n <= m
  BY DEF OpToRel
<1>4. \E ip \in ips : \A other \in ips : ip <= other
  BY <1>1, <1>2, <1>3
<1>5. QED
  BY <1>4 DEF First

(* A rule more, a rule less or a whole address less: the rules stay counts. *)
LEMMA RulesStayCounts ==
  ASSUME HostTypeOK, NEW ip \in Ip
  PROVE  [rules EXCEPT ![ip] = @ + 1] \in [Ip -> Nat] /\ RuleRemoved(ip) \in [Ip -> Nat]
<1>1. rules \in [Ip -> Nat] /\ rules[ip] \in Nat
  BY DEF HostTypeOK
<1>2. (IF rules[ip] > 0 /\ Platform = "linux" THEN rules[ip] - 1 ELSE 0) \in Nat
  BY <1>1
<1>3. RuleRemoved(ip) \in [Ip -> Nat]
  BY <1>1, <1>2 DEF RuleRemoved
<1>4. QED
  BY <1>1, <1>3

LEMMA BlockKeeps ==
  ASSUME HInv, NEW w \in Worker, Block(w)
  PROVE  HInv'
<1> DEFINE ip == First(worker[w].todo)
<1>1. /\ HostTypeOK /\ worker[w] \in Thread /\ worker[w].pc = "block" /\ worker[w].op = "isolate"
      /\ UNCHANGED <<procs, births, signalled>> /\ rules \in [Ip -> Nat]
  BY DEF HInv, HostTypeOK, PhaseFits, Block
<1>2. worker[w].todo \in SUBSET Ip
  BY <1>1 DEF Thread
<1>3. CASE worker[w].todo = {}
  <2>1. Return(w, "ok") /\ rules' \in [Ip -> Nat]
    BY <1>1, <1>3 DEF Block
  <2>2. QED
    BY <1>1, <2>1, ReturnKeeps DEF Outcome
<1>4. CASE worker[w].todo # {}
  <2>1. ip \in Ip
    BY <1>2, <1>4, FirstOfThem
  <2>2. \/ rules' = [rules EXCEPT ![ip] = @ + 1] /\ Advance(w, ip)
        \/ rules' \in {rules, [rules EXCEPT ![ip] = @ + 1]} /\ Return(w, "failed")
    BY <1>4 DEF Block
  <2> HIDE DEF ip
  <2>3. rules' \in [Ip -> Nat]
    BY <1>1, <2>1, <2>2, RulesStayCounts
  <2>4. CASE Advance(w, ip)
    BY <1>1, <2>1, <2>3, <2>4, AdvanceKeeps
  <2>5. CASE Return(w, "failed")
    BY <1>1, <2>3, <2>5, ReturnKeeps DEF Outcome
  <2>6. QED
    BY <2>2, <2>4, <2>5
<1>5. QED
  BY <1>3, <1>4

LEMMA UnblockKeeps ==
  ASSUME HInv, NEW w \in Worker, Unblock(w)
  PROVE  HInv'
<1> DEFINE ip == First(worker[w].todo)
<1>1. /\ HostTypeOK /\ worker[w] \in Thread /\ worker[w].pc = "unblock" /\ worker[w].op = "unblock"
      /\ UNCHANGED <<procs, births, signalled>> /\ rules \in [Ip -> Nat]
  BY DEF HInv, HostTypeOK, PhaseFits, Unblock
<1>2. worker[w].todo \in SUBSET Ip
  BY <1>1 DEF Thread
<1>3. CASE worker[w].todo = {}
  <2>1. Return(w, "ok") /\ rules' \in [Ip -> Nat]
    BY <1>1, <1>3 DEF Unblock
  <2>2. QED
    BY <1>1, <2>1, ReturnKeeps DEF Outcome
<1>4. CASE worker[w].todo # {}
  <2>1. ip \in Ip
    BY <1>2, <1>4, FirstOfThem
  <2>2. \/ rules' = RuleRemoved(ip) /\ Advance(w, ip)
        \/ rules' \in {rules, RuleRemoved(ip)} /\ Return(w, "failed")
    BY <1>4 DEF Unblock
  <2> HIDE DEF ip
  <2>3. rules' \in [Ip -> Nat]
    BY <1>1, <2>1, <2>2, RulesStayCounts
  <2>4. CASE Advance(w, ip)
    BY <1>1, <2>1, <2>3, <2>4, AdvanceKeeps
  <2>5. CASE Return(w, "failed")
    BY <1>1, <2>3, <2>5, ReturnKeeps DEF Outcome
  <2>6. QED
    BY <2>2, <2>4, <2>5
<1>5. QED
  BY <1>3, <1>4

LEMMA ThreadStepKeeps ==
  ASSUME HInv, NEW w \in Worker, ThreadStep(w)
  PROVE  HInv'
<1>1. CASE Terminate(w)
  BY <1>1, SignalKeeps DEF Terminate
<1>2. CASE WaitTimesOut(w)
  <2>1. /\ worker[w].pc = "wait" /\ Goto(w, "kill") /\ UNCHANGED <<procs, births, signalled>>
        /\ rules' \in [Ip -> Nat]
    BY <1>2 DEF WaitTimesOut, HInv, HostTypeOK
  <2>2. worker[w].op = "terminate" /\ worker[w].proc \in signalled /\ ~worker[w].dry_run
    BY <2>1 DEF HInv, PhaseFits, Checked, Acting
  <2>3. QED
    BY <2>1, <2>2, GotoKeeps
<1>4. CASE Kill(w)
  BY <1>4, SignalKeeps DEF Kill
<1>3. CASE KillWaitTimesOut(w)
  <2>1. /\ worker[w].pc = "kill wait" /\ Return(w, "failed") /\ UNCHANGED <<procs, births, signalled>>
        /\ rules' \in [Ip -> Nat]
    BY <1>3 DEF KillWaitTimesOut, HInv, HostTypeOK
  <2>2. QED
    BY <2>1, ReturnKeeps DEF Outcome
<1>5. QED
  BY <1>1, <1>2, <1>3, <1>4, OpenKeeps, InspectKeeps, ConnectionsKeeps, WaitReturnsKeeps, BlockKeeps, UnblockKeeps
  DEF ThreadStep

-----------------------------------------------------------------------------
LEMMA HInvInductive == HInv /\ [HostNext]_hostVars => HInv'
<1> SUFFICES ASSUME HInv, [HostNext]_hostVars PROVE HInv'
  OBVIOUS
<1>1. ASSUME NEW w \in Worker, NEW pid \in Pid, NEW op \in {"terminate", "isolate"},
             NEW dry_run \in BOOLEAN, Submit(w, op, pid, {}, dry_run)
      PROVE  HInv'
  BY <1>1, SubmitKeeps DEF Op
<1>2. ASSUME NEW w \in Worker, NEW ips \in SUBSET Ip, Submit(w, "unblock", None, ips, FALSE)
      PROVE  HInv'
  BY <1>2, SubmitKeeps DEF Op
<1>3. CASE UNCHANGED hostVars
  BY <1>3 DEF hostVars, HInv, HostTypeOK, Older, PhaseFits, Checked, ProtectedSurvive,
              TerminationIsReal, Returned, SameProcess, Holder
<1>4. QED
  BY <1>1, <1>2, <1>3, OutsideKeeps, CollectKeeps, ThreadStepKeeps DEF HostNext

LEMMA HInvAlways == HostSpec => []HInv
<1>1. HostInit => HInv
  BY HInvInitially
<1>2. HInv /\ [HostNext]_hostVars => HInv'
  BY HInvInductive
<1>3. QED
  BY <1>1, <1>2, PTL DEF HostSpec

(* The engine's state stays well typed; in particular no address ever has   *)
(* a negative number of rules, however removals by hand, by this program    *)
(* and by a tool that timed out interleave.                                 *)
THEOREM HostTypeCorrect == HostSpec => []HostTypeOK
<1>1. HInv => HostTypeOK
  BY DEF HInv
<1>2. QED
  BY <1>1, HInvAlways, PTL

(* No interleaving of threads, exits and reuses of PIDs makes               *)
(* terminate_process signal a process whose name is protected.              *)
THEOREM HostProtectedSurvive == HostSpec => []ProtectedSurvive
<1>1. HInv => ProtectedSurvive
  BY DEF HInv
<1>2. QED
  BY <1>1, HInvAlways, PTL

(* A termination that was reported was signalled to the very process that   *)
(* was inspected, and that process never holds its PID again.               *)
THEOREM HostTerminationIsReal == HostSpec => []TerminationIsReal
<1>1. HInv => TerminationIsReal
  BY DEF HInv
<1>2. QED
  BY <1>1, HInvAlways, PTL

=============================================================================
