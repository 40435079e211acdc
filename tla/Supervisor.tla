------------------------------ MODULE Supervisor ------------------------------
(***************************************************************************)
(* The node agent's engine supervisor (internal/agent/supervisor.go).      *)
(*                                                                         *)
(* One Instance is one model on the node; each launch of it creates an     *)
(* engine process and two goroutines, the readiness prober (waitForReady)  *)
(* and the reaper (reap), which outlive each other in any order.  API      *)
(* handlers run Start, Stop and Remove concurrently; the agent's main      *)
(* goroutine runs Restore before it listens and StopAll when it shuts down.*)
(*                                                                         *)
(* A step of this module is what a goroutine does between two points where *)
(* another goroutine can run: one critical section of s.mu or in.mu, a     *)
(* blocking wait, or a system call.  persist() is taken whole, with the    *)
(* step it ends: its own interleavings are the subject of StateFile.       *)
(* Time is abstracted: a timeout or a backoff may end at any moment.       *)
(***************************************************************************)
EXTENDS Naturals, FiniteSets

CONSTANTS
    Names,        \* served model names, the keys of s.instances
    Insts,        \* identities of Instance objects (one per Start)
    Pids,         \* engine processes (one per launch)
    Callers,      \* API requests to the agent, one handler goroutine each
    Ports,        \* the ports allocatePort searches
    Main,         \* the agent's main goroutine
    None,         \* the nil pointer
    MaxRestarts   \* s.MaxRestarts

ASSUME ConstantsAssumption ==
    /\ MaxRestarts \in Nat
    /\ Main \notin Callers
    /\ None \notin Names \cup Insts \cup Pids \cup Ports

VARIABLES
    phase,      \* where main is: restoring, serving, stopping, exited
    todo,       \* names main still has to start (Restore) or stop (StopAll)
    instances,  \* s.instances
    inst,       \* the Instance objects
    proc,       \* the engine processes, as the kernel sees them
    reap,       \* program counter of the reaper of each process
    waiter,     \* program counter of the prober started with each process
    op,         \* what each caller (and main) is executing
    disk        \* the names in instances.json

vars == <<phase, todo, instances, inst, proc, reap, waiter, op, disk>>

Threads == Callers \cup {Main}

-----------------------------------------------------------------------------
(* State.  inst[i].gen numbers the channels in.exited has held: reap makes a
   new one for each restart, after closing the one before, so the channel of
   generation g is closed once gen has passed it or closed is TRUE. *)

InstanceStates == {"absent", "starting", "ready", "failed", "stopped"}

NoInstance ==
    [name |-> None, port |-> None, state |-> "absent", desired |-> FALSE,
     stopping |-> FALSE, restarts |-> 0, cmd |-> None, gen |-> 0, closed |-> FALSE]

NoProcess == [st |-> "unborn", inst |-> None, killed |-> FALSE]

Idle == [pc |-> "idle", kind |-> "none", name |-> None,
         inst |-> None, pid |-> None, gen |-> 0]

(* A request's goroutine ends with its call; main goes on to the next name. *)
Returned(c) == IF c = Main THEN Idle ELSE [Idle EXCEPT !.pc = "returned"]

Live(p) == proc[p].st \in {"loading", "serving"}

PortOf(p) == inst[proc[p].inst].port

(* <-exited on the channel of generation g: blocks until it is closed. *)
ExitedClosed(i, g) == g < inst[i].gen \/ inst[i].closed

(* A mutant: the reaper takes the signal for the exit. *)
WaitReturnsOnSignal(p) == proc[p].st = "dead" \/ proc[p].killed

(* cmd.Wait returns once the process is gone. *)
WaitReturns(p) == proc[p].st = "dead"

(* persist: the names whose instance is desired, whatever its state. *)
Wanted(m, r) == {n \in Names : m[n] # None /\ r[m[n]].desired}

Init ==
    /\ disk \in SUBSET Names
    /\ phase = "restoring"
    /\ todo = disk
    /\ instances = [n \in Names |-> None]
    /\ inst = [i \in Insts |-> NoInstance]
    /\ proc = [p \in Pids |-> NoProcess]
    /\ reap = [p \in Pids |-> "none"]
    /\ waiter = [p \in Pids |-> "none"]
    /\ op = [c \in Threads |-> Idle]

-----------------------------------------------------------------------------
(* launch: on success a process, its prober and its reaper exist, and the
   instance records the process and forgets any earlier stop. *)

Launched(r, i, p) == [r EXCEPT ![i].cmd = p, ![i].stopping = FALSE]

Spawn(i, p) ==
    /\ proc[p].st = "unborn"
    /\ proc' = [proc EXCEPT ![p] = [st |-> "loading", inst |-> i, killed |-> FALSE]]
    /\ waiter' = [waiter EXCEPT ![p] = "polling"]

(* allocatePort: no instance of the map has it and nothing listens on it.
   Other programs of the machine may hold any port, so any free one can be
   the first free one. *)
PortOpen(q) == \A p \in Pids : proc[p].st = "serving" => PortOf(p) # q

PortFree(q) ==
    /\ \A n \in Names : instances[n] # None => inst[instances[n]].port # q
    /\ PortOpen(q)

(* Start's check of an existing entry. *)
MayStart(n) ==
    instances[n] # None => inst[instances[n]].state \notin {"ready", "starting"}

(* Start, up to the unlock of s.mu: the instance is in the map, not launched.
   The refusals (already running, no free port) change nothing. *)
StartInsert(c, n) ==
    /\ op[c].pc = "idle"
    /\ MayStart(n)
    /\ \E i \in Insts, q \in Ports :
        /\ inst[i].state = "absent"
        /\ PortFree(q)
        /\ inst' = [inst EXCEPT ![i] =
              [NoInstance EXCEPT !.name = n, !.port = q, !.state = "starting",
                                 !.desired = TRUE]]
        /\ instances' = [instances EXCEPT ![n] = i]
        /\ op' = [op EXCEPT ![c] =
              [Idle EXCEPT !.pc = "launch", !.kind = "start", !.name = n, !.inst = i]]
    /\ UNCHANGED <<phase, proc, reap, waiter, disk>>

Start(c, n) ==
    /\ c \in Callers /\ phase = "serving"
    /\ StartInsert(c, n)
    /\ UNCHANGED todo

(* Start, the launch: a failure is recorded but not persisted. *)
StartLaunch(c) ==
    /\ op[c].pc = "launch"
    /\ LET i == op[c].inst IN
        \E p \in Pids :
            /\ Spawn(i, p)
            /\ reap' = [reap EXCEPT ![p] = "waiting"]
            /\ inst' = Launched(inst, i, p)
    /\ op' = [op EXCEPT ![c] = Returned(c)]
    /\ disk' = Wanted(instances, inst')
    /\ UNCHANGED <<phase, todo, instances>>

StartLaunchFails(c) ==
    /\ op[c].pc = "launch"
    /\ inst' = [inst EXCEPT ![op[c].inst].state = "failed"]
    /\ op' = [op EXCEPT ![c] = Returned(c)]
    /\ UNCHANGED <<phase, todo, instances, proc, reap, waiter, disk>>

-----------------------------------------------------------------------------
(* Stop, Remove and StopAll share stop(name, clearDesired). *)

StopLookup(c, n, kind) ==
    /\ op[c].pc = "idle"
    /\ instances[n] # None
    /\ op' = [op EXCEPT ![c] =
          [Idle EXCEPT !.pc = "mark", !.kind = kind, !.name = n, !.inst = instances[n]]]

Stop(c, n) ==
    /\ c \in Callers /\ phase = "serving"
    /\ StopLookup(c, n, "stop")
    /\ UNCHANGED <<phase, todo, instances, inst, proc, reap, waiter, disk>>

Remove(c, n) ==
    /\ c \in Callers /\ phase = "serving"
    /\ StopLookup(c, n, "remove")
    /\ UNCHANGED <<phase, todo, instances, inst, proc, reap, waiter, disk>>

(* Under in.mu: mark the stop and read what to wait for. *)
StopMark(c) ==
    /\ op[c].pc = "mark"
    /\ LET i == op[c].inst IN
        /\ inst' = [inst EXCEPT
              ![i].stopping = TRUE,
              ![i].desired  = IF op[c].kind = "shutdown" THEN @ ELSE FALSE]
        /\ op' = [op EXCEPT
              ![c].pc  = IF inst[i].cmd = None THEN "finish" ELSE "wait",
              ![c].pid = inst[i].cmd,
              ![c].gen = inst[i].gen]
    /\ UNCHANGED <<phase, todo, instances, proc, reap, waiter, disk>>

(* A mutant: the kill is not sent. *)
StopGivesUp(c) ==
    /\ op[c].pc = "wait"
    /\ op' = [op EXCEPT ![c].pc = "killed"]
    /\ UNCHANGED <<phase, todo, instances, inst, proc, reap, waiter, disk>>

(* The grace period runs out: SIGKILL to the process that was captured. *)
StopKill(c) ==
    /\ op[c].pc = "wait"
    /\ proc' = [proc EXCEPT ![op[c].pid].killed = Live(op[c].pid)]
    /\ op' = [op EXCEPT ![c].pc = "killed"]
    /\ UNCHANGED <<phase, todo, instances, inst, reap, waiter, disk>>

StopDone(c) ==
    \/ op[c].pc = "finish"
    \/ op[c].pc \in {"wait", "killed"} /\ ExitedClosed(op[c].inst, op[c].gen)

StopFinish(c) ==
    /\ StopDone(c)
    /\ inst' = [inst EXCEPT ![op[c].inst].state = "stopped"]
    /\ op' = [op EXCEPT ![c] = IF @.kind = "remove" THEN [@ EXCEPT !.pc = "delete"] ELSE Returned(c)]
    /\ disk' = Wanted(instances, inst')
    /\ UNCHANGED <<phase, todo, instances, proc, reap, waiter>>

(* Remove's second half deletes whatever the name maps to now. *)
RemoveDelete(c) ==
    /\ op[c].pc = "delete"
    /\ instances' = [instances EXCEPT ![op[c].name] = None]
    /\ op' = [op EXCEPT ![c] = Returned(c)]
    /\ disk' = Wanted(instances', inst)
    /\ UNCHANGED <<phase, todo, inst, proc, reap, waiter>>

-----------------------------------------------------------------------------
(* reap *)

(* A mutant: the reaper does not look at stopping. *)
ReapExitBlind(p) ==
    /\ reap[p] = "waiting"
    /\ WaitReturns(p)
    /\ inst' = [inst EXCEPT ![proc[p].inst].closed = TRUE]
    /\ reap' = [reap EXCEPT ![p] = "recheck"]
    /\ UNCHANGED <<phase, todo, instances, proc, waiter, op, disk>>

(* cmd.Wait returns; under in.mu read stopping and close in.exited. *)
ReapExit(p) ==
    /\ reap[p] = "waiting"
    /\ WaitReturns(p)
    /\ LET i == proc[p].inst IN
        /\ inst' = [inst EXCEPT ![i].closed = TRUE]
        /\ reap' = [reap EXCEPT ![p] = IF inst[i].stopping THEN "stopping" ELSE "recheck"]
    /\ UNCHANGED <<phase, todo, instances, proc, waiter, op, disk>>

ReapStopped(p) ==
    /\ reap[p] = "stopping"
    /\ inst' = [inst EXCEPT ![proc[p].inst].state = "stopped"]
    /\ reap' = [reap EXCEPT ![p] = "done"]
    /\ UNCHANGED <<phase, todo, instances, proc, waiter, op, disk>>

(* A mutant: off by one. *)
BudgetSpentLate(i) == inst[i].restarts > MaxRestarts

BudgetSpent(i) == inst[i].restarts >= MaxRestarts

ReapGiveUp(p) ==
    /\ reap[p] = "recheck"
    /\ BudgetSpent(proc[p].inst)
    /\ inst' = [inst EXCEPT ![proc[p].inst].state = "failed"]
    /\ reap' = [reap EXCEPT ![p] = "done"]
    /\ disk' = Wanted(instances, inst')
    /\ UNCHANGED <<phase, todo, instances, proc, waiter, op>>

ReapRestart(p) ==
    /\ reap[p] = "recheck"
    /\ ~BudgetSpent(proc[p].inst)
    /\ LET i == proc[p].inst IN
        inst' = [inst EXCEPT ![i].restarts = @ + 1, ![i].state = "starting",
                             ![i].gen = @ + 1, ![i].closed = FALSE]
    /\ reap' = [reap EXCEPT ![p] = "backoff"]
    /\ UNCHANGED <<phase, todo, instances, proc, waiter, op, disk>>

(* After the backoff: launch again, without looking at stopping. *)
ReapRelaunch(p) ==
    /\ reap[p] = "backoff"
    /\ LET i == proc[p].inst IN
        \E q \in Pids :
            /\ Spawn(i, q)
            /\ reap' = [reap EXCEPT ![p] = "done", ![q] = "waiting"]
            /\ inst' = Launched(inst, i, q)
    /\ disk' = Wanted(instances, inst')
    /\ UNCHANGED <<phase, todo, instances, op>>

ReapRelaunchFails(p) ==
    /\ reap[p] = "backoff"
    /\ inst' = [inst EXCEPT ![proc[p].inst].state = "failed"]
    /\ reap' = [reap EXCEPT ![p] = "done"]
    /\ disk' = Wanted(instances, inst')
    /\ UNCHANGED <<phase, todo, instances, proc, waiter, op>>

-----------------------------------------------------------------------------
(* waitForReady of the launch of p.  It polls the instance's port, so the
   engine that answers is whichever one listens there. *)

(* A mutant: a stopped instance is not taken for settled. *)
OnlyFailed(i) == inst[i].state = "failed"

Settled(i) == inst[i].state \in {"stopped", "failed"}

ProbeQuits(p) ==
    /\ waiter[p] = "polling"
    /\ Settled(proc[p].inst)
    /\ waiter' = [waiter EXCEPT ![p] = "done"]
    /\ UNCHANGED <<phase, todo, instances, inst, proc, reap, op, disk>>

ProbeAnswered(p) ==
    /\ waiter[p] = "polling"
    /\ ~Settled(proc[p].inst)
    /\ \E q \in Pids : proc[q].st = "serving" /\ PortOf(q) = PortOf(p)
    /\ waiter' = [waiter EXCEPT ![p] = "answered"]
    /\ UNCHANGED <<phase, todo, instances, inst, proc, reap, op, disk>>

(* Under in.mu, after the body was drained: the state is checked again. *)
ProbeApply(p) ==
    /\ waiter[p] = "answered"
    /\ waiter' = [waiter EXCEPT ![p] = "done"]
    /\ IF Settled(proc[p].inst)
         THEN UNCHANGED <<inst, disk>>
         ELSE /\ inst' = [inst EXCEPT ![proc[p].inst].state = "ready"]
              /\ disk' = Wanted(instances, inst')
    /\ UNCHANGED <<phase, todo, instances, proc, reap, op>>

(* readyTimeout: the state is set without another look at it. *)
ProbeExpires(p) ==
    /\ waiter[p] = "polling"
    /\ inst' = [inst EXCEPT ![proc[p].inst].state = "failed"]
    /\ waiter' = [waiter EXCEPT ![p] = "done"]
    /\ UNCHANGED <<phase, todo, instances, proc, reap, op, disk>>

-----------------------------------------------------------------------------
(* The engine: it binds its port when the weights are loaded, and may exit at
   any time, signalled or not. *)

EngineServes(p) ==
    /\ proc[p].st = "loading"
    /\ PortOpen(PortOf(p))
    /\ proc' = [proc EXCEPT ![p].st = "serving"]
    /\ UNCHANGED <<phase, todo, instances, inst, reap, waiter, op, disk>>

EngineExits(p) ==
    /\ Live(p)
    /\ proc' = [proc EXCEPT ![p].st = "dead", ![p].killed = FALSE]
    /\ UNCHANGED <<phase, todo, instances, inst, reap, waiter, op, disk>>

-----------------------------------------------------------------------------
(* The main goroutine *)

(* Restore: one Start after another; a name for which Start fails early (no
   free port) is logged and passed over. *)
RestoreStart(n) ==
    /\ phase = "restoring" /\ n \in todo
    /\ todo' = todo \ {n}
    /\ StartInsert(Main, n)

RestoreSkips(n) ==
    /\ phase = "restoring" /\ n \in todo /\ op[Main].pc = "idle"
    /\ todo' = todo \ {n}
    /\ \A q \in Ports : ~PortFree(q)
    /\ UNCHANGED <<phase, instances, inst, proc, reap, waiter, op, disk>>

Listen ==
    /\ phase = "restoring" /\ todo = {} /\ op[Main].pc = "idle"
    /\ phase' = "serving"
    /\ UNCHANGED <<todo, instances, inst, proc, reap, waiter, op, disk>>

(* A signal arrives: no new call is accepted, the calls in progress get a
   minute to end, then StopAll lists the instances.  The calls that have not
   ended by then go on running. *)
Shutdown ==
    /\ phase = "serving"
    /\ phase' = "stopping"
    /\ todo' = {n \in Names : instances[n] # None}
    /\ UNCHANGED <<instances, inst, proc, reap, waiter, op, disk>>

StopAllNext(n) ==
    /\ phase = "stopping" /\ n \in todo
    /\ todo' = todo \ {n}
    /\ StopLookup(Main, n, "shutdown")
    /\ UNCHANGED <<phase, instances, inst, proc, reap, waiter, disk>>

StopAllSkips(n) ==
    /\ phase = "stopping" /\ n \in todo /\ op[Main].pc = "idle"
    /\ instances[n] = None
    /\ todo' = todo \ {n}
    /\ UNCHANGED <<phase, instances, inst, proc, reap, waiter, op, disk>>

(* main returns and every goroutine ends with it; the engines do not. *)
Exit ==
    /\ phase = "stopping" /\ todo = {} /\ op[Main].pc = "idle"
    /\ phase' = "exited"
    /\ reap' = [p \in Pids |-> "done"]
    /\ waiter' = [p \in Pids |-> "done"]
    /\ op' = [c \in Threads |-> [Idle EXCEPT !.pc = "returned"]]
    /\ UNCHANGED <<todo, instances, inst, proc, disk>>

MainStep ==
    \/ \E n \in Names : RestoreStart(n) \/ RestoreSkips(n) \/ StopAllNext(n) \/ StopAllSkips(n)
    \/ Listen \/ Exit

-----------------------------------------------------------------------------
ApiCall(c) == \E n \in Names : Start(c, n) \/ Stop(c, n) \/ Remove(c, n)

CallStep(c) ==
    \/ StartLaunch(c) \/ StartLaunchFails(c)
    \/ StopMark(c) \/ StopKill(c) \/ StopFinish(c) \/ RemoveDelete(c)

ReapStep(p) ==
    \/ ReapExit(p) \/ ReapStopped(p) \/ ReapGiveUp(p)
    \/ ReapRestart(p) \/ ReapRelaunch(p) \/ ReapRelaunchFails(p)

ProbeStep(p) ==
    ProbeQuits(p) \/ ProbeAnswered(p) \/ ProbeApply(p) \/ ProbeExpires(p)

EngineStep(p) == EngineServes(p) \/ EngineExits(p)

Next ==
    \/ MainStep \/ Shutdown
    \/ \E c \in Callers : ApiCall(c)
    \/ \E c \in Threads : CallStep(c)
    \/ \E p \in Pids : ReapStep(p) \/ ProbeStep(p) \/ EngineStep(p)

Spec == Init /\ [][Next]_vars

(* Goroutines that can run do run; the kernel carries out a SIGKILL.  Nothing
   is assumed of the callers, of an engine that was not killed (it may load or
   serve for ever) nor of the readiness probe's two-hour deadline. *)
Fairness ==
    /\ WF_vars(MainStep)
    /\ \A c \in Threads : WF_vars(CallStep(c))
    /\ \A p \in Pids :
        /\ WF_vars(ReapStep(p))
        /\ WF_vars(ProbeApply(p))
        /\ WF_vars(proc[p].killed /\ EngineExits(p))

FairSpec == Spec /\ Fairness

-----------------------------------------------------------------------------
(* Correctness *)

Instance ==
    [name : Names \cup {None}, port : Ports \cup {None}, state : InstanceStates,
     desired : BOOLEAN, stopping : BOOLEAN, restarts : Nat,
     cmd : Pids \cup {None}, gen : Nat, closed : BOOLEAN]

Process ==
    [st : {"unborn", "loading", "serving", "dead"}, inst : Insts \cup {None},
     killed : BOOLEAN]

Call ==
    [pc : {"idle", "launch", "mark", "wait", "killed", "finish", "delete", "returned"},
     kind : {"none", "start", "stop", "remove", "shutdown"},
     name : Names \cup {None}, inst : Insts \cup {None},
     pid : Pids \cup {None}, gen : Nat]

TypeOK ==
    /\ phase \in {"restoring", "serving", "stopping", "exited"}
    /\ todo \in SUBSET Names
    /\ instances \in [Names -> Insts \cup {None}]
    /\ inst \in [Insts -> Instance]
    /\ proc \in [Pids -> Process]
    /\ reap \in [Pids -> {"none", "waiting", "stopping", "recheck", "backoff", "done"}]
    /\ waiter \in [Pids -> {"none", "polling", "answered", "done"}]
    /\ op \in [Threads -> Call]
    /\ disk \in SUBSET Names

(* Whatever the interleaving of Start, Stop, Remove, crashes and restarts, an
   engine that is alive is the one its instance points at (in.cmd, the process
   Stop signals) and, until the agent exits, has its reaper waiting for it: an
   instance never runs two engines, and no engine goes unwatched. *)
OneEnginePerInstance ==
    \A p \in Pids : Live(p) =>
        inst[proc[p].inst].cmd = p /\ (phase = "exited" \/ reap[p] = "waiting")

(* An engine is launched at most MaxRestarts times after the first, however
   its crashes, its failed launches and the stops interleave ("gave up after
   %d restarts"). *)
RestartBudget ==
    \A i \in Insts :
        Cardinality({p \in Pids : proc[p].inst = i}) <= MaxRestarts + 1

(* A stop that has seen in.exited closed has seen the end of the process it
   signalled: Stop never reports success over a running target, even when the
   channel it waits on belongs to another launch than that process. *)
StopOutlivesItsTarget ==
    \A c \in Threads :
        op[c].pc \in {"wait", "killed"} /\ ExitedClosed(op[c].inst, op[c].gen)
            => proc[op[c].pid].st = "dead"

(* A stop that reaches an instance while its engine runs is final: no step of
   any goroutine takes the mark back or gives the instance another engine, and
   the reaper, when it sees the exit, does not go on to a restart. *)
CaughtByStop(i) ==
    /\ inst[i].stopping
    /\ inst[i].cmd # None
    /\ reap[inst[i].cmd] \in {"waiting", "stopping"}

StopIsFinal ==
    [][\A i \in Insts :
        CaughtByStop(i) =>
            /\ inst'[i].stopping /\ inst'[i].cmd = inst[i].cmd
            /\ reap'[inst[i].cmd] \in {"waiting", "stopping", "done"}]_vars

(* A stop that waits for an engine that runs returns: the grace period, the
   SIGKILL and the reaper see to it. *)
CaughtStopSucceeds ==
    \A c \in Threads :
        op[c].pc = "wait" /\ Live(op[c].pid)
            ~> op[c].pc \notin {"wait", "killed"}

(* From some point on an instance caught by a stop has no engine: neither its
   reaper nor a late launch brings one back. *)
StoppedForGood ==
    \A i \in Insts :
        CaughtByStop(i)
            ~> (phase = "exited" \/ [](\A p \in Pids : proc[p].inst = i => ~Live(p)))

(* An instance reported ready whose engine has died does not stay so: the
   reaper restarts, fails or stops it, even when a late probe answer of the
   dead engine set it to ready once more. *)
ReadyIsRepaired ==
    \A i \in Insts :
        inst[i].state = "ready" /\ inst[i].cmd # None /\ proc[inst[i].cmd].st = "dead"
            ~> (phase = "exited" \/ inst[i].state # "ready" \/ Live(inst[i].cmd))

-----------------------------------------------------------------------------
(* What the comments of supervisor.go say, and the code does not keep to.
   Each of these is violated; PROJECT.json quotes the line and the README
   tells the execution TLC finds. *)

(* "stopped on request" (line 26), and "the supervisor does not fight the
   operator by restarting what they just shut down" (lines 64-65): no engine
   of an instance in state stopped is alive. *)
StoppedMeansDown ==
    \A p \in Pids : Live(p) => inst[proc[p].inst].state # "stopped"

(* "Stop terminates a model on operator request" (line 374): a stop that was
   accepted ends. *)
StopReturns ==
    \A c \in Callers :
        op[c].pc \in {"mark", "wait", "killed"} ~> op[c].pc = "returned"

=============================================================================
