----------------------------- MODULE AgentProofs -----------------------------
(***************************************************************************)
(* Proofs about the agent.  First Supervisor, for any sets of names,       *)
(* instances, processes, callers and ports and any restart budget; then    *)
(* StateFile, which takes apart the persist that is one step there, for    *)
(* any sets of models, writers and inodes and any number of crashes.       *)
(***************************************************************************)
EXTENDS Supervisor, StateFile, TLAPS, FiniteSetTheorems

(* The inductive invariant.  Its parts say how the goroutines' views of one
   instance fit together. *)

Active(p) == reap[p] \in {"waiting", "stopping", "recheck", "backoff"}

(* An Instance object that has not been created is referred to by nothing. *)
AbsentUnused ==
    /\ \A i \in Insts : inst[i].state = "absent" => inst[i].cmd = None
    /\ \A n \in Names : instances[n] # None => inst[instances[n]].state # "absent"
    /\ \A c \in Threads : op[c].pc \notin {"idle", "returned"} =>
          op[c].inst \in Insts /\ inst[op[c].inst].state # "absent"

(* A process belongs to one instance for good. *)
ProcessesOwned ==
    /\ \A p \in Pids : proc[p].st # "unborn" =>
          proc[p].inst \in Insts /\ inst[proc[p].inst].state # "absent"
    /\ \A p \in Pids : proc[p].st = "unborn" => proc[p].inst = None
    /\ \A i \in Insts : inst[i].cmd # None =>
          proc[inst[i].cmd].st # "unborn" /\ proc[inst[i].cmd].inst = i

(* A reaper that has not finished is that of the instance's last launch, so
   an instance has at most one; past its wait, the process is dead. *)
ReapersUnique ==
    \A p \in Pids :
        /\ Active(p) => proc[p].st # "unborn" /\ inst[proc[p].inst].cmd = p
        /\ reap[p] \in {"stopping", "recheck", "backoff"} => proc[p].st = "dead"
        /\ waiter[p] \in {"polling", "answered"} => proc[p].st # "unborn"

(* A Start that is about to launch is the only one to launch its instance. *)
LaunchesUnique ==
    \A c \in Threads : op[c].pc = "launch" =>
        /\ inst[op[c].inst].cmd = None
        /\ ~inst[op[c].inst].closed
        /\ \A d \in Threads : op[d].pc = "launch" /\ op[d].inst = op[c].inst => d = c

(* The exited channel is open as long as an engine runs or is about to. *)
ChannelOpen ==
    \A p \in Pids : Live(p) \/ reap[p] = "backoff" => ~inst[proc[p].inst].closed

(* A stop that waits has captured a process of its instance, and a channel
   that is the present one or an earlier one. *)
StopTargets ==
    \A c \in Threads : op[c].pc \in {"wait", "killed"} =>
        /\ op[c].pid \in Pids
        /\ proc[op[c].pid].st # "unborn"
        /\ proc[op[c].pid].inst = op[c].inst
        /\ op[c].gen <= inst[op[c].inst].gen

IInv ==
    /\ TypeOK
    /\ AbsentUnused
    /\ ProcessesOwned
    /\ ReapersUnique
    /\ OneEnginePerInstance
    /\ LaunchesUnique
    /\ ChannelOpen
    /\ StopTargets
    /\ StopOutlivesItsTarget

USE ConstantsAssumption

-----------------------------------------------------------------------------
(* The types of single records and fields, where the provers need them. *)
LEMMA Types == ASSUME TypeOK PROVE
    /\ \A i \in Insts : /\ inst[i] \in Instance
                         /\ inst[i].cmd \in Pids \cup {None}
                         /\ inst[i].gen \in Nat
    /\ \A p \in Pids : /\ proc[p] \in Process
                        /\ proc[p].st \in {"unborn", "loading", "serving", "dead"}
                        /\ proc[p].inst \in Insts \cup {None}
    /\ \A c \in Threads : op[c] \in Call /\ op[c].gen \in Nat
    /\ \A n \in Names : instances[n] \in Insts \cup {None}
BY DEF TypeOK, Instance, Process, Call

(* The parts of IInv read four things of an instance: its last process, its
   channel, the generation of that channel and whether it exists. *)
SameEngines ==
    \A i \in Insts :
        /\ inst'[i].cmd = inst[i].cmd
        /\ inst'[i].closed = inst[i].closed
        /\ inst'[i].gen = inst[i].gen
        /\ inst'[i].state = "absent" <=> inst[i].state = "absent"

(* A step that sets the state of an existing instance. *)
LEMMA SetState ==
    ASSUME TypeOK, NEW i \in Insts, inst[i].state # "absent",
           NEW v \in {"ready", "failed", "stopped"},
           inst' = [inst EXCEPT ![i].state = v]
    PROVE  inst' \in [Insts -> Instance] /\ SameEngines
<1>1. inst[i] \in Instance
  BY Types
<1>2. /\ inst'[i] \in Instance /\ inst'[i].state = v /\ inst'[i].cmd = inst[i].cmd
      /\ inst'[i].gen = inst[i].gen /\ inst'[i].closed = inst[i].closed
  BY <1>1 DEF TypeOK, Instance, InstanceStates
<1>3. \A j \in Insts : j # i => inst'[j] = inst[j]
  BY DEF TypeOK
<1>4. inst' \in [Insts -> Instance]
  BY <1>2, <1>3 DEF TypeOK
<1> QED BY <1>2, <1>3, <1>4 DEF SameEngines

(* A step of one caller that leaves the engines alone, and may take a name out
   of the map. *)
LEMMA CallerStep ==
    ASSUME IInv, TypeOK', SameEngines, UNCHANGED <<phase, proc, reap, waiter>>,
           \A n \in Names : instances'[n] \in {instances[n], None},
           NEW c \in Threads, \A d \in Threads : d # c => op'[d] = op[d],
           op'[c].pc # "launch",
           op'[c].pc \notin {"idle", "returned"} =>
               op'[c].inst \in Insts /\ inst[op'[c].inst].state # "absent",
           op'[c].pc \in {"wait", "killed"} =>
               /\ inst[op'[c].inst].cmd # None
               /\ op'[c].pid = inst[op'[c].inst].cmd
               /\ op'[c].gen = inst[op'[c].inst].gen
    PROVE  IInv'
<1>1. AbsentUnused'
  BY Types DEF IInv, AbsentUnused, SameEngines
<1>2. ProcessesOwned'
  BY DEF IInv, ProcessesOwned, SameEngines
<1>3. ReapersUnique'
  BY DEF IInv, ReapersUnique, ProcessesOwned, Active, SameEngines
<1>4. OneEnginePerInstance'
  BY DEF IInv, OneEnginePerInstance, ProcessesOwned, Live, SameEngines
<1>5. LaunchesUnique'
  BY DEF IInv, LaunchesUnique, AbsentUnused, SameEngines
<1>6. ChannelOpen'
  BY DEF IInv, ChannelOpen, ProcessesOwned, ReapersUnique, Active, Live, SameEngines
<1>7. StopTargets'
  BY Types DEF IInv, StopTargets, AbsentUnused, ProcessesOwned, SameEngines
<1>8. StopOutlivesItsTarget'
  BY Types DEF IInv, StopOutlivesItsTarget, StopTargets, AbsentUnused, ProcessesOwned,
               ChannelOpen, ExitedClosed, Live, SameEngines
<1> QED BY <1>1, <1>2, <1>3, <1>4, <1>5, <1>6, <1>7, <1>8 DEF IInv

(* A step of a prober, or the end of a reaper, that leaves the engines alone. *)
LEMMA WatcherStep ==
    ASSUME IInv, TypeOK', SameEngines, UNCHANGED <<phase, instances, proc, op>>,
           \A p \in Pids : \/ reap'[p] = reap[p]
                           \/ reap[p] \in {"stopping", "recheck", "backoff"} /\ reap'[p] = "done",
           \A p \in Pids : waiter'[p] \in {"polling", "answered"} =>
                              waiter[p] \in {"polling", "answered"}
    PROVE  IInv'
<1>1. AbsentUnused'
  BY Types DEF IInv, AbsentUnused, SameEngines
<1>2. ProcessesOwned'
  BY DEF IInv, ProcessesOwned, SameEngines
<1>3. ReapersUnique'
  BY DEF IInv, ReapersUnique, ProcessesOwned, Active, SameEngines
<1>4. OneEnginePerInstance'
  BY DEF IInv, OneEnginePerInstance, ProcessesOwned, ReapersUnique, Live, SameEngines
<1>5. LaunchesUnique'
  BY DEF IInv, LaunchesUnique, AbsentUnused, SameEngines
<1>6. ChannelOpen'
  BY DEF IInv, ChannelOpen, ProcessesOwned, ReapersUnique, Active, Live, SameEngines
<1>7. StopTargets'
  BY Types DEF IInv, StopTargets, AbsentUnused, ProcessesOwned, SameEngines
<1>8. StopOutlivesItsTarget'
  BY Types DEF IInv, StopOutlivesItsTarget, StopTargets, AbsentUnused,
               ExitedClosed, SameEngines
<1> QED BY <1>1, <1>2, <1>3, <1>4, <1>5, <1>6, <1>7, <1>8 DEF IInv

-----------------------------------------------------------------------------
(* The calls *)

(* A launch that fails ends the call of Start and only changes the state. *)
LEMMA StartLaunchFailsStep ==
    ASSUME IInv, NEW c \in Threads, StartLaunchFails(c) PROVE IInv'
<1>1. /\ op[c].inst \in Insts /\ inst[op[c].inst].state # "absent" /\ TypeOK
  BY DEF IInv, AbsentUnused, StartLaunchFails
<1>2. inst' \in [Insts -> Instance] /\ SameEngines
  BY <1>1, SetState DEF StartLaunchFails
<1>3. /\ op' \in [Threads -> Call] /\ op'[c].pc \in {"idle", "returned"}
      /\ \A d \in Threads : d # c => op'[d] = op[d]
  BY <1>1 DEF StartLaunchFails, TypeOK, Call, Idle, Returned
<1>4. TypeOK'
  BY <1>1, <1>2, <1>3 DEF StartLaunchFails, TypeOK
<1> QED BY <1>2, <1>3, <1>4, CallerStep DEF StartLaunchFails

(* Looking the instance up gives stop its target, which is not an absent one. *)
LEMMA StopLookupStep ==
    ASSUME IInv, NEW c \in Threads, NEW n \in Names,
           NEW kind \in {"stop", "remove", "shutdown"}, StopLookup(c, n, kind),
           UNCHANGED <<phase, instances, inst, proc, reap, waiter, disk>>,
           todo' \in SUBSET Names
    PROVE  IInv'
<1>1. TypeOK /\ instances[n] \in Insts /\ inst[instances[n]].state # "absent"
  BY DEF IInv, TypeOK, AbsentUnused, StopLookup
<1>2. /\ op' \in [Threads -> Call] /\ op'[c].pc = "mark" /\ op'[c].inst = instances[n]
      /\ \A d \in Threads : d # c => op'[d] = op[d]
  BY <1>1 DEF StopLookup, TypeOK, Call, Idle
<1>3. TypeOK' /\ SameEngines
  BY <1>1, <1>2 DEF TypeOK, SameEngines
<1> QED BY <1>1, <1>2, <1>3, CallerStep

(* stop marks the instance: the process it captures is the one of in.cmd, and
   the channel is closed only if that process is gone. *)
LEMMA StopMarkStep == ASSUME IInv, NEW c \in Threads, StopMark(c) PROVE IInv'
<1> DEFINE i == op[c].inst
<1>1. /\ TypeOK /\ i \in Insts /\ inst[i] \in Instance /\ op[c] \in Call
      /\ inst[i].state # "absent"
  BY Types DEF IInv, AbsentUnused, StopMark
<1>2. /\ inst'[i] \in Instance
      /\ inst'[i].state = inst[i].state /\ inst'[i].cmd = inst[i].cmd
      /\ inst'[i].gen = inst[i].gen /\ inst'[i].closed = inst[i].closed
  BY <1>1 DEF StopMark, TypeOK, Instance
<1>3. \A j \in Insts : j # i => inst'[j] = inst[j]
  BY <1>1 DEF StopMark, TypeOK
<1>4. inst' \in [Insts -> Instance] /\ SameEngines
  BY <1>2, <1>3 DEF StopMark, IInv, TypeOK, SameEngines
<1>5. /\ op'[c] \in Call /\ op'[c].inst = i
      /\ op'[c].pc = (IF inst[i].cmd = None THEN "finish" ELSE "wait")
      /\ op'[c].pid = inst[i].cmd /\ op'[c].gen = inst[i].gen
  BY <1>1 DEF StopMark, TypeOK, Instance, Call
<1>6. \A d \in Threads : d # c => op'[d] = op[d]
  BY DEF StopMark, IInv, TypeOK
<1>7. op' \in [Threads -> Call]
  BY <1>5, <1>6 DEF StopMark, IInv, TypeOK
<1>8. TypeOK'
  BY <1>4, <1>7 DEF StopMark, IInv, TypeOK
<1>9. UNCHANGED <<phase, instances, proc, reap, waiter>>
  BY DEF StopMark
<1> HIDE DEF i
<1> QED BY <1>1, <1>4, <1>5, <1>6, <1>8, <1>9, CallerStep

(* The end of stop only changes the state of the instance. *)
LEMMA StopFinishStep == ASSUME IInv, NEW c \in Threads, StopFinish(c) PROVE IInv'
<1>1. /\ TypeOK /\ op[c].inst \in Insts /\ inst[op[c].inst].state # "absent"
      /\ op[c] \in Call
  BY Types DEF IInv, AbsentUnused, StopFinish, StopDone
<1>2. inst' \in [Insts -> Instance] /\ SameEngines
  BY <1>1, SetState DEF StopFinish
<1>3. /\ op'[c] \in Call
      /\ \/ op'[c].pc \in {"idle", "returned"}
         \/ op'[c].pc = "delete" /\ op'[c].inst = op[c].inst
  BY <1>1 DEF StopFinish, TypeOK, Call, Idle, Returned
<1>4. \A d \in Threads : d # c => op'[d] = op[d]
  BY <1>1 DEF StopFinish, TypeOK
<1>5. op' \in [Threads -> Call]
  BY <1>1, <1>3, <1>4 DEF StopFinish, TypeOK
<1>6. TypeOK'
  BY <1>1, <1>2, <1>5 DEF StopFinish, TypeOK, Wanted
<1> QED BY <1>1, <1>2, <1>3, <1>4, <1>6, CallerStep DEF StopFinish

(* Deleting the map entry leaves the instance and its goroutines alone. *)
LEMMA RemoveDeleteStep == ASSUME IInv, NEW c \in Threads, RemoveDelete(c) PROVE IInv'
<1>1. TypeOK
  BY DEF IInv
<1>2. /\ op' \in [Threads -> Call] /\ op'[c].pc \in {"idle", "returned"}
      /\ \A d \in Threads : d # c => op'[d] = op[d]
  BY <1>1 DEF RemoveDelete, TypeOK, Call, Idle, Returned
<1>3. \A n \in Names : instances'[n] \in {instances[n], None}
  BY <1>1 DEF RemoveDelete, TypeOK
<1>4. TypeOK' /\ SameEngines
  BY <1>1, <1>2 DEF RemoveDelete, TypeOK, SameEngines, Wanted
<1> QED BY <1>2, <1>3, <1>4, CallerStep DEF RemoveDelete

(* SIGKILL leaves the record of the process as it is but for the signal. *)
LEMMA StopKillStep == ASSUME IInv, NEW c \in Threads, StopKill(c) PROVE IInv'
<1> DEFINE k == op[c].pid
<1>1. TypeOK /\ k \in Pids /\ proc[k] \in Process /\ op[c] \in Call /\ op[c].pc = "wait"
  BY Types DEF IInv, StopTargets, StopKill
<1>2. /\ proc'[k] \in Process
      /\ proc'[k].st = proc[k].st /\ proc'[k].inst = proc[k].inst
  <2>1. Live(k) \in BOOLEAN BY DEF Live
  <2> QED BY <1>1, <2>1 DEF StopKill, TypeOK, Process
<1>3. \A q \in Pids : q # k => proc'[q] = proc[q]
  BY <1>1 DEF StopKill, TypeOK
<1>4. /\ op'[c] \in Call /\ op'[c].pc = "killed" /\ op'[c].inst = op[c].inst
      /\ op'[c].pid = op[c].pid /\ op'[c].gen = op[c].gen
  BY <1>1 DEF StopKill, TypeOK, Call
<1>5. \A d \in Threads : d # c => op'[d] = op[d]
  BY <1>1 DEF StopKill, TypeOK
<1>6. TypeOK'
  <2>1. proc' \in [Pids -> Process] BY <1>1, <1>2, <1>3 DEF StopKill, TypeOK
  <2>2. op' \in [Threads -> Call] BY <1>1, <1>4, <1>5 DEF StopKill, TypeOK
  <2> QED BY <1>1, <2>1, <2>2 DEF StopKill, TypeOK
<1>7. \A q \in Pids : proc'[q].st = proc[q].st /\ proc'[q].inst = proc[q].inst
  BY <1>2, <1>3
<1>8. UNCHANGED <<phase, instances, inst, reap, waiter>>
  BY DEF StopKill
<1> HIDE DEF k
<1> USE <1>1, <1>4, <1>5, <1>7, <1>8 DEF IInv
<1>9. AbsentUnused' BY DEF AbsentUnused
<1>10. ProcessesOwned' BY Types DEF ProcessesOwned
<1>11. ReapersUnique' BY DEF ReapersUnique, Active
<1>12. OneEnginePerInstance' BY DEF OneEnginePerInstance, Live
<1>13. LaunchesUnique' BY DEF LaunchesUnique
<1>14. ChannelOpen' BY DEF ChannelOpen, Live
<1>15. StopTargets' BY DEF StopTargets
<1>16. StopOutlivesItsTarget' BY DEF StopOutlivesItsTarget, StopTargets, ExitedClosed
<1> QED BY <1>6, <1>9, <1>10, <1>11, <1>12, <1>13, <1>14, <1>15, <1>16

-----------------------------------------------------------------------------
(* Creating and launching *)

(* Start creates an instance nothing refers to yet, with no process. *)
LEMMA StartInsertStep ==
    ASSUME IInv, NEW c \in Threads, NEW n \in Names, StartInsert(c, n),
           todo' \in SUBSET Names
    PROVE  IInv'
<1>1. PICK i \in Insts, q \in Ports :
        /\ inst[i].state = "absent"
        /\ inst' = [inst EXCEPT ![i] =
              [NoInstance EXCEPT !.name = n, !.port = q, !.state = "starting",
                                 !.desired = TRUE]]
        /\ instances' = [instances EXCEPT ![n] = i]
        /\ op' = [op EXCEPT ![c] =
              [Idle EXCEPT !.pc = "launch", !.kind = "start", !.name = n, !.inst = i]]
  BY DEF StartInsert
<1>2. TypeOK
  BY DEF IInv
<1>3. /\ inst'[i] \in Instance /\ inst'[i].state = "starting" /\ inst'[i].cmd = None
      /\ inst'[i].gen = 0 /\ inst'[i].closed = FALSE
  BY <1>1, <1>2 DEF TypeOK, NoInstance, Instance, InstanceStates
<1>4. \A j \in Insts : j # i => inst'[j] = inst[j]
  BY <1>1, <1>2 DEF TypeOK
<1>5. op'[c] \in Call /\ op'[c].pc = "launch" /\ op'[c].inst = i
  BY <1>1, <1>2 DEF TypeOK, Idle, Call
<1>6. \A d \in Threads : d # c => op'[d] = op[d]
  BY <1>1, <1>2 DEF TypeOK
<1>7. TypeOK'
  <2>1. inst' \in [Insts -> Instance] BY <1>1, <1>2, <1>3, <1>4 DEF TypeOK
  <2>2. op' \in [Threads -> Call] BY <1>1, <1>2, <1>5, <1>6 DEF TypeOK
  <2>3. instances' \in [Names -> Insts \cup {None}] BY <1>1, <1>2 DEF TypeOK
  <2> QED BY <1>2, <2>1, <2>2, <2>3 DEF StartInsert, TypeOK
<1>8. instances'[n] = i /\ \A m \in Names : m # n => instances'[m] = instances[m]
  BY <1>1, <1>2 DEF TypeOK
<1>9. UNCHANGED <<phase, proc, reap, waiter>>
  BY DEF StartInsert
(* Nothing referred to the new instance. *)
<1>10. /\ inst[i].cmd = None
       /\ \A p \in Pids : proc[p].st # "unborn" => proc[p].inst # i
       /\ \A d \in Threads : op[d].pc \notin {"idle", "returned"} => op[d].inst # i
  BY <1>1 DEF IInv, AbsentUnused, ProcessesOwned
<1> USE <1>3, <1>4, <1>5, <1>6, <1>8, <1>9, <1>10 DEF IInv
<1>11. AbsentUnused' BY <1>2, Types DEF AbsentUnused
<1>12. ProcessesOwned' BY <1>2, Types DEF ProcessesOwned
<1>13. ReapersUnique' BY DEF ReapersUnique, ProcessesOwned, Active
<1>14. OneEnginePerInstance' BY DEF OneEnginePerInstance, ProcessesOwned, Live
<1>15. LaunchesUnique' BY DEF LaunchesUnique, AbsentUnused
<1>16. ChannelOpen' BY DEF ChannelOpen, ProcessesOwned, ReapersUnique, Active, Live
<1>17. StopTargets' BY DEF StopTargets, AbsentUnused
<1>18. StopOutlivesItsTarget'
  BY DEF StopOutlivesItsTarget, AbsentUnused, ExitedClosed
<1> QED BY <1>7, <1>11, <1>12, <1>13, <1>14, <1>15, <1>16, <1>17, <1>18

(* What a launch of instance i as process p does to the shared state. *)
LEMMA LaunchEffect ==
    ASSUME TypeOK, NEW i \in Insts, NEW p \in Pids, Spawn(i, p),
           inst' = Launched(inst, i, p)
    PROVE  /\ inst' \in [Insts -> Instance]
           /\ inst'[i].cmd = p /\ inst'[i].gen = inst[i].gen
           /\ inst'[i].closed = inst[i].closed /\ inst'[i].state = inst[i].state
           /\ \A j \in Insts : j # i => inst'[j] = inst[j]
           /\ proc' \in [Pids -> Process]
           /\ proc[p].st = "unborn" /\ proc'[p].st = "loading" /\ proc'[p].inst = i
           /\ \A q \in Pids : q # p => proc'[q] = proc[q]
           /\ waiter' \in [Pids -> {"none", "polling", "answered", "done"}]
           /\ \A q \in Pids : q # p => waiter'[q] = waiter[q]
<1>1. inst[i] \in Instance
  BY Types
<1>2. /\ inst'[i] \in Instance /\ inst'[i].cmd = p /\ inst'[i].gen = inst[i].gen
      /\ inst'[i].closed = inst[i].closed /\ inst'[i].state = inst[i].state
  BY <1>1 DEF Launched, TypeOK, Instance
<1>3. \A j \in Insts : j # i => inst'[j] = inst[j]
  BY DEF Launched, TypeOK
<1>4. inst' \in [Insts -> Instance]
  BY <1>2, <1>3 DEF Launched, TypeOK
<1>5. proc' \in [Pids -> Process]
  BY DEF Spawn, TypeOK, Process
<1> QED BY <1>2, <1>3, <1>4, <1>5 DEF Spawn, TypeOK

(* A launch keeps the invariant when the instance has no engine, its channel is
   open and nobody else is about to launch or to reap it. *)
LEMMA LaunchKeeps ==
    ASSUME IInv, TypeOK', NEW i \in Insts, NEW p \in Pids, Spawn(i, p),
           inst' = Launched(inst, i, p), UNCHANGED <<phase, instances>>,
           inst[i].state # "absent", ~inst[i].closed,
           reap'[p] = "waiting",
           \A q \in Pids : q # p => reap'[q] = reap[q] \/ reap'[q] = "done",
           \A q \in Pids : q # p /\ proc[q].inst = i => ~Live(q),
           \A q \in Pids : q # p /\ proc[q].inst = i /\ proc[q].st # "unborn"
                            => reap'[q] \notin {"waiting", "stopping", "recheck", "backoff"},
           \A q \in Pids : reap[q] # reap'[q] => q = p \/ ~Live(q),
           \A c \in Threads :
               \/ op'[c] = op[c] /\ (op[c].pc = "launch" => op[c].inst # i)
               \/ op'[c].pc \in {"idle", "returned"}
    PROVE  IInv'
<1>1. /\ inst'[i].cmd = p /\ inst'[i].gen = inst[i].gen
      /\ inst'[i].closed = inst[i].closed /\ inst'[i].state = inst[i].state
      /\ \A j \in Insts : j # i => inst'[j] = inst[j]
      /\ proc[p].st = "unborn" /\ proc'[p].st = "loading" /\ proc'[p].inst = i
      /\ \A q \in Pids : q # p => proc'[q] = proc[q]
      /\ \A q \in Pids : q # p => waiter'[q] = waiter[q]
  BY LaunchEffect DEF IInv
<1> USE <1>1 DEF IInv
<1>2. AbsentUnused' BY Types DEF AbsentUnused
<1>3. ProcessesOwned' BY Types DEF ProcessesOwned
<1>4. ReapersUnique' BY DEF ReapersUnique, ProcessesOwned, Active
<1>5. OneEnginePerInstance' BY DEF OneEnginePerInstance, ProcessesOwned, Live
<1>6. LaunchesUnique' BY DEF LaunchesUnique, AbsentUnused
<1>7. ChannelOpen' BY DEF ChannelOpen, ProcessesOwned, ReapersUnique, Active, Live
<1>8. StopTargets' BY DEF StopTargets, AbsentUnused
<1>9. StopOutlivesItsTarget'
  BY DEF StopOutlivesItsTarget, StopTargets, AbsentUnused, ExitedClosed
<1> QED BY <1>2, <1>3, <1>4, <1>5, <1>6, <1>7, <1>8, <1>9

(* The first launch: nothing else launches this instance, so the new process is
   its only one. *)
LEMMA StartLaunchStep == ASSUME IInv, NEW c \in Threads, StartLaunch(c) PROVE IInv'
<1> DEFINE i == op[c].inst
<1>1. PICK p \in Pids : /\ Spawn(i, p)
                        /\ reap' = [reap EXCEPT ![p] = "waiting"]
                        /\ inst' = Launched(inst, i, p)
  BY DEF StartLaunch
<1>2. /\ TypeOK /\ i \in Insts /\ inst[i].state # "absent" /\ inst[i].cmd = None
      /\ ~inst[i].closed /\ op[c].pc = "launch"
  BY DEF IInv, AbsentUnused, LaunchesUnique, StartLaunch
<1>3. /\ op' \in [Threads -> Call] /\ op'[c].pc \in {"idle", "returned"}
      /\ \A d \in Threads : d # c => op'[d] = op[d]
  BY <1>2 DEF StartLaunch, TypeOK, Call, Idle, Returned
<1>4. TypeOK'
  BY <1>1, <1>2, <1>3, LaunchEffect DEF StartLaunch, TypeOK, Wanted
<1>5. \A q \in Pids : reap'[q] = IF q = p THEN "waiting" ELSE reap[q]
  BY <1>1, <1>2 DEF TypeOK
(* With cmd nil the instance has never had a process. *)
<1>6. \A q \in Pids : proc[q].inst = i /\ proc[q].st # "unborn" => ~Live(q) /\ ~Active(q)
  BY <1>2 DEF IInv, OneEnginePerInstance, ReapersUnique
<1>7. \A q \in Pids : Live(q) => proc[q].st # "unborn"
  BY DEF Live
<1>8. \A d \in Threads : d # c /\ op[d].pc = "launch" => op[d].inst # i
  BY <1>2 DEF IInv, LaunchesUnique
<1>9. UNCHANGED <<phase, instances>>
  BY DEF StartLaunch
<1> HIDE DEF i
<1> QED BY <1>1, <1>2, <1>3, <1>4, <1>5, <1>6, <1>7, <1>8, <1>9, LaunchKeeps DEF Active

(* The relaunch: the reaper that performs it is the only active one of its
   instance, and its own process is dead. *)
LEMMA ReapRelaunchStep == ASSUME IInv, NEW p \in Pids, ReapRelaunch(p) PROVE IInv'
<1> DEFINE i == proc[p].inst
<1>1. PICK q \in Pids : /\ Spawn(i, q)
                        /\ reap' = [reap EXCEPT ![p] = "done", ![q] = "waiting"]
                        /\ inst' = Launched(inst, i, q)
  BY DEF ReapRelaunch
<1>2. /\ TypeOK /\ reap[p] = "backoff" /\ Active(p) /\ proc[p].st = "dead"
      /\ i \in Insts /\ inst[i].state # "absent" /\ inst[i].cmd = p /\ ~inst[i].closed
  BY DEF IInv, ProcessesOwned, ReapersUnique, ChannelOpen, Active, ReapRelaunch
<1>3. p # q
  BY <1>1, <1>2 DEF Spawn
<1>4. /\ reap'[p] = "done" /\ reap'[q] = "waiting"
      /\ \A k \in Pids : k # p /\ k # q => reap'[k] = reap[k]
      /\ reap' \in [Pids -> {"none", "waiting", "stopping", "recheck", "backoff", "done"}]
  BY <1>1, <1>2, <1>3 DEF TypeOK
<1>5. TypeOK'
  BY <1>1, <1>2, <1>4, LaunchEffect DEF ReapRelaunch, TypeOK, Wanted
<1>6. \A k \in Pids : proc[k].inst = i /\ k # p /\ proc[k].st # "unborn" => ~Live(k) /\ ~Active(k)
  BY <1>2 DEF IInv, OneEnginePerInstance, ReapersUnique
<1>7. ~Live(p) /\ \A k \in Pids : Live(k) => proc[k].st # "unborn"
  BY <1>2 DEF Live
(* A Start about to launch i would find cmd nil. *)
<1>8. \A d \in Threads : op[d].pc = "launch" => op[d].inst # i
  BY <1>2 DEF IInv, LaunchesUnique
<1>9. UNCHANGED <<phase, instances, op>>
  BY DEF ReapRelaunch
<1> HIDE DEF i
<1> QED BY <1>1, <1>2, <1>3, <1>4, <1>5, <1>6, <1>7, <1>8, <1>9, LaunchKeeps DEF Active

-----------------------------------------------------------------------------
(* The reaper *)

(* The reaper closes the channel of a process that is dead. *)
LEMMA ReapExitStep == ASSUME IInv, NEW p \in Pids, ReapExit(p) PROVE IInv'
<1> DEFINE i == proc[p].inst
<1>1. /\ TypeOK /\ reap[p] = "waiting" /\ Active(p) /\ proc[p].st = "dead"
      /\ i \in Insts /\ inst[i] \in Instance /\ inst[i].state # "absent" /\ inst[i].cmd = p
  BY Types DEF IInv, ProcessesOwned, ReapersUnique, Active, ReapExit, WaitReturns
<1>2. /\ inst'[i] \in Instance /\ inst'[i].state = inst[i].state
      /\ inst'[i].cmd = inst[i].cmd /\ inst'[i].gen = inst[i].gen /\ inst'[i].closed
  BY <1>1 DEF ReapExit, TypeOK, Instance
<1>3. \A j \in Insts : j # i => inst'[j] = inst[j]
  BY <1>1 DEF ReapExit, TypeOK
<1>4. /\ reap'[p] \in {"stopping", "recheck"}
      /\ \A q \in Pids : q # p => reap'[q] = reap[q]
      /\ reap' \in [Pids -> {"none", "waiting", "stopping", "recheck", "backoff", "done"}]
  BY <1>1 DEF ReapExit, TypeOK
<1>5. TypeOK'
  <2>1. inst' \in [Insts -> Instance] BY <1>1, <1>2, <1>3 DEF ReapExit, TypeOK
  <2> QED BY <1>1, <1>4, <2>1 DEF ReapExit, TypeOK
<1>6. UNCHANGED <<phase, instances, proc, waiter, op>>
  BY DEF ReapExit
(* The process whose exit closes the channel was the last one. *)
<1>7. \A q \in Pids : proc[q].inst = i => ~Live(q) /\ reap[q] # "backoff"
  BY <1>1 DEF IInv, OneEnginePerInstance, ReapersUnique, ProcessesOwned, Active, Live
<1>8. \A c \in Threads : op[c].pc = "launch" => op[c].inst # i
  BY <1>1 DEF IInv, LaunchesUnique
<1> HIDE DEF i
<1> USE <1>1, <1>2, <1>3, <1>4, <1>6, <1>7, <1>8 DEF IInv
<1>9. AbsentUnused' BY Types DEF AbsentUnused
<1>10. ProcessesOwned' BY Types DEF ProcessesOwned
<1>11. ReapersUnique' BY DEF ReapersUnique, ProcessesOwned, Active
<1>12. OneEnginePerInstance' BY DEF OneEnginePerInstance, ProcessesOwned, Live
<1>13. LaunchesUnique' BY DEF LaunchesUnique, AbsentUnused
<1>14. ChannelOpen' BY DEF ChannelOpen, ProcessesOwned, ReapersUnique, Active, Live
<1>15. StopTargets' BY DEF StopTargets, AbsentUnused
<1>16. StopOutlivesItsTarget'
  BY Types DEF StopOutlivesItsTarget, StopTargets, AbsentUnused, ExitedClosed, Live
<1> QED BY <1>5, <1>9, <1>10, <1>11, <1>12, <1>13, <1>14, <1>15, <1>16

(* The reaper replaces the channel it has closed: stops that wait on the old
   one have a dead target. *)
LEMMA ReapRestartStep == ASSUME IInv, NEW p \in Pids, ReapRestart(p) PROVE IInv'
<1> DEFINE i == proc[p].inst
<1>1. /\ TypeOK /\ reap[p] = "recheck" /\ Active(p) /\ proc[p].st = "dead"
      /\ i \in Insts /\ inst[i] \in Instance /\ inst[i].gen \in Nat
      /\ inst[i].state # "absent" /\ inst[i].cmd = p
  BY Types DEF IInv, ProcessesOwned, ReapersUnique, Active, ReapRestart
<1>2. /\ inst'[i] \in Instance /\ inst'[i].state = "starting"
      /\ inst'[i].cmd = inst[i].cmd /\ inst'[i].gen = inst[i].gen + 1 /\ ~inst'[i].closed
  BY <1>1 DEF ReapRestart, TypeOK, Instance, InstanceStates
<1>3. \A j \in Insts : j # i => inst'[j] = inst[j]
  BY <1>1 DEF ReapRestart, TypeOK
<1>4. /\ reap'[p] = "backoff"
      /\ \A q \in Pids : q # p => reap'[q] = reap[q]
      /\ reap' \in [Pids -> {"none", "waiting", "stopping", "recheck", "backoff", "done"}]
  BY <1>1 DEF ReapRestart, TypeOK
<1>5. TypeOK'
  <2>1. inst' \in [Insts -> Instance] BY <1>1, <1>2, <1>3 DEF ReapRestart, TypeOK
  <2> QED BY <1>1, <1>4, <2>1 DEF ReapRestart, TypeOK
<1>6. UNCHANGED <<phase, instances, proc, waiter, op>>
  BY DEF ReapRestart
<1>7. \A q \in Pids : proc[q].inst = i => ~Live(q)
  BY <1>1 DEF IInv, OneEnginePerInstance, Live
<1>8. \A c \in Threads : op[c].pc = "launch" => op[c].inst # i
  BY <1>1 DEF IInv, LaunchesUnique
<1> HIDE DEF i
<1> USE <1>1, <1>2, <1>3, <1>4, <1>6, <1>7, <1>8 DEF IInv
<1>9. AbsentUnused' BY Types DEF AbsentUnused
<1>10. ProcessesOwned' BY Types DEF ProcessesOwned
<1>11. ReapersUnique' BY DEF ReapersUnique, ProcessesOwned, Active
<1>12. OneEnginePerInstance' BY DEF OneEnginePerInstance, ProcessesOwned, Live
<1>13. LaunchesUnique' BY DEF LaunchesUnique, AbsentUnused
<1>14. ChannelOpen' BY DEF ChannelOpen, ProcessesOwned, ReapersUnique, Active, Live
<1>15. StopTargets' BY Types DEF StopTargets, AbsentUnused
<1>16. StopOutlivesItsTarget'
  BY Types DEF StopOutlivesItsTarget, StopTargets, AbsentUnused, ExitedClosed, Live
<1> QED BY <1>5, <1>9, <1>10, <1>11, <1>12, <1>13, <1>14, <1>15, <1>16

(* The other ends of a reaper, and the prober, only set the state. *)
LEMMA StateOnlyStep ==
    ASSUME IInv, NEW p \in Pids,
           ReapStopped(p) \/ ReapGiveUp(p) \/ ReapRelaunchFails(p)
             \/ ProbeQuits(p) \/ ProbeAnswered(p) \/ ProbeApply(p) \/ ProbeExpires(p)
    PROVE  IInv'
<1> DEFINE i == proc[p].inst
<1>1. TypeOK /\ i \in Insts /\ inst[i].state # "absent"
  BY DEF IInv, ProcessesOwned, ReapersUnique, ReapStopped, ReapGiveUp, ReapRelaunchFails,
         ProbeQuits, ProbeAnswered, ProbeApply, ProbeExpires
<1>2. inst' \in [Insts -> Instance] /\ SameEngines
  <2>1. ASSUME NEW v \in {"ready", "failed", "stopped"}, inst' = [inst EXCEPT ![i].state = v]
        PROVE  inst' \in [Insts -> Instance] /\ SameEngines
    BY <1>1, <2>1, SetState
  <2>2. ASSUME UNCHANGED inst PROVE inst' \in [Insts -> Instance] /\ SameEngines
    BY <1>1, <2>2 DEF TypeOK, SameEngines
  <2>3. \/ UNCHANGED inst
        \/ \E v \in {"ready", "failed", "stopped"} : inst' = [inst EXCEPT ![i].state = v]
    BY DEF ReapStopped, ReapGiveUp, ReapRelaunchFails,
           ProbeQuits, ProbeAnswered, ProbeApply, ProbeExpires
  <2> QED BY <2>1, <2>2, <2>3
<1>3. /\ UNCHANGED <<phase, todo, instances, proc, op>>
      /\ disk' \in SUBSET Names
      /\ UNCHANGED reap \/ /\ reap[p] \in {"stopping", "recheck", "backoff"}
                           /\ reap' = [reap EXCEPT ![p] = "done"]
      /\ UNCHANGED waiter \/ /\ waiter[p] \in {"polling", "answered"}
                             /\ \E w \in {"answered", "done"} :
                                    waiter' = [waiter EXCEPT ![p] = w]
  BY <1>1 DEF TypeOK, Wanted, ReapStopped, ReapGiveUp, ReapRelaunchFails,
              ProbeQuits, ProbeAnswered, ProbeApply, ProbeExpires
<1>4. TypeOK'
  BY <1>1, <1>2, <1>3 DEF TypeOK
<1>5. \A q \in Pids : \/ reap'[q] = reap[q]
                      \/ reap[q] \in {"stopping", "recheck", "backoff"} /\ reap'[q] = "done"
  <2>1. CASE UNCHANGED reap
    BY <2>1
  <2>2. CASE /\ reap[p] \in {"stopping", "recheck", "backoff"}
             /\ reap' = [reap EXCEPT ![p] = "done"]
    BY <1>1, <2>2 DEF TypeOK
  <2> QED BY <1>3, <2>1, <2>2
<1>6. \A q \in Pids : waiter'[q] \in {"polling", "answered"} =>
                          waiter[q] \in {"polling", "answered"}
  BY <1>1, <1>3 DEF TypeOK
<1> QED BY <1>2, <1>3, <1>4, <1>5, <1>6, WatcherStep

-----------------------------------------------------------------------------
(* The engine, and the main goroutine *)

(* An engine that binds its port or dies. *)
LEMMA EngineStepKeeps == ASSUME IInv, NEW p \in Pids, EngineStep(p) PROVE IInv'
<1>1. TypeOK /\ proc[p] \in Process /\ Live(p)
  BY Types DEF IInv, EngineStep, EngineServes, EngineExits, Live
<1>2. /\ proc'[p] \in Process /\ proc'[p].inst = proc[p].inst
      /\ proc'[p].st \in {"serving", "dead"}
      /\ \A q \in Pids : q # p => proc'[q] = proc[q]
      /\ UNCHANGED <<phase, todo, instances, inst, reap, waiter, op, disk>>
  <2>1. CASE EngineServes(p)
    BY <1>1, <2>1 DEF EngineServes, TypeOK, Process
  <2>2. CASE EngineExits(p)
    BY <1>1, <2>2 DEF EngineExits, TypeOK, Process
  <2> QED BY <2>1, <2>2 DEF EngineStep
<1>3. TypeOK'
  <2>1. proc' \in [Pids -> Process]
    BY <1>1, <1>2 DEF EngineStep, EngineServes, EngineExits, TypeOK
  <2> QED BY <1>1, <1>2, <2>1 DEF TypeOK
<1>4. reap[p] \notin {"stopping", "recheck", "backoff"}
  BY <1>1 DEF IInv, ReapersUnique, Live
<1> USE <1>1, <1>2, <1>4 DEF IInv
<1>5. AbsentUnused' BY DEF AbsentUnused
<1>6. ProcessesOwned' BY Types DEF ProcessesOwned, Live
<1>7. ReapersUnique' BY DEF ReapersUnique, Active, Live
<1>8. OneEnginePerInstance' BY DEF OneEnginePerInstance, Live
<1>9. LaunchesUnique' BY DEF LaunchesUnique
<1>10. ChannelOpen' BY DEF ChannelOpen, Live
<1>11. StopTargets' BY DEF StopTargets
<1>12. StopOutlivesItsTarget'
  BY DEF StopOutlivesItsTarget, StopTargets, ExitedClosed, Live
<1> QED BY <1>3, <1>5, <1>6, <1>7, <1>8, <1>9, <1>10, <1>11, <1>12

(* Steps of main that only move it on to the next name or phase. *)
LEMMA PhaseStep ==
    ASSUME IInv, UNCHANGED <<instances, inst, proc, reap, waiter, op, disk>>,
           phase' \in {"restoring", "serving", "stopping", "exited"},
           phase = "exited" => phase' = "exited", todo' \in SUBSET Names
    PROVE  IInv'
<1>1. TypeOK'
  BY DEF IInv, TypeOK
<1> QED BY <1>1 DEF IInv, AbsentUnused, ProcessesOwned, ReapersUnique, OneEnginePerInstance,
               LaunchesUnique, ChannelOpen, StopTargets, StopOutlivesItsTarget,
               Active, Live, ExitedClosed

(* main returns and the goroutines end. *)
LEMMA ExitStep == ASSUME IInv, Exit PROVE IInv'
<1>1. /\ TypeOK /\ phase' = "exited" /\ UNCHANGED <<todo, instances, inst, proc, disk>>
      /\ \A p \in Pids : reap'[p] = "done" /\ waiter'[p] = "done"
      /\ \A c \in Threads : op'[c].pc = "returned"
  BY DEF IInv, Exit, Idle
<1>2. TypeOK'
  BY <1>1 DEF TypeOK, Exit, Idle, Call
<1> USE <1>1 DEF IInv
<1>3. AbsentUnused' BY DEF AbsentUnused
<1>4. ProcessesOwned' BY DEF ProcessesOwned
<1>5. ReapersUnique' BY DEF ReapersUnique, Active
<1>6. OneEnginePerInstance' BY DEF OneEnginePerInstance, Live
<1>7. LaunchesUnique' BY DEF LaunchesUnique
<1>8. ChannelOpen' BY DEF ChannelOpen, Live
<1>9. StopTargets' BY DEF StopTargets
<1>10. StopOutlivesItsTarget' BY DEF StopOutlivesItsTarget
<1> QED BY <1>2, <1>3, <1>4, <1>5, <1>6, <1>7, <1>8, <1>9, <1>10

-----------------------------------------------------------------------------
(* The initial states satisfy the invariant. *)
LEMMA InitInv == Init => IInv
<1> SUFFICES ASSUME Init PROVE IInv OBVIOUS
<1>1. NoInstance \in Instance /\ NoProcess \in Process /\ Idle \in Call
  BY DEF NoInstance, NoProcess, Idle, Instance, Process, Call, InstanceStates
<1>2. TypeOK
  BY <1>1 DEF Init, TypeOK
<1>3. /\ \A i \in Insts : inst[i].cmd = None
      /\ \A p \in Pids : proc[p].st = "unborn" /\ proc[p].inst = None
                         /\ reap[p] = "none" /\ waiter[p] = "none"
      /\ \A c \in Threads : op[c].pc = "idle"
      /\ \A n \in Names : instances[n] = None
  BY DEF Init, NoInstance, NoProcess, Idle
<1> QED BY <1>2, <1>3 DEF IInv, AbsentUnused, ProcessesOwned, ReapersUnique,
             OneEnginePerInstance, LaunchesUnique, ChannelOpen, StopTargets,
             StopOutlivesItsTarget, Active, Live

(* Every step preserves it. *)
LEMMA NextInv == IInv /\ [Next]_vars => IInv'
<1> SUFFICES ASSUME IInv, [Next]_vars PROVE IInv' OBVIOUS
<1>0. todo \in SUBSET Names /\ phase \in {"restoring", "serving", "stopping", "exited"}
  BY DEF IInv, TypeOK
<1>1. CASE UNCHANGED vars
  BY <1>0, <1>1, PhaseStep DEF vars
<1>2. CASE MainStep
  <2>1. CASE \E n \in Names : RestoreStart(n)
    BY <1>0, <2>1, StartInsertStep DEF RestoreStart, Threads
  <2>2. CASE \E n \in Names : StopAllNext(n)
    BY <1>0, <2>2, StopLookupStep DEF StopAllNext, Threads
  <2>3. CASE (\E n \in Names : RestoreSkips(n) \/ StopAllSkips(n)) \/ Listen
    BY <1>0, <2>3, PhaseStep DEF RestoreSkips, StopAllSkips, Listen
  <2> QED BY <1>2, <2>1, <2>2, <2>3, ExitStep DEF MainStep
<1>3. CASE Shutdown
  BY <1>3, PhaseStep DEF Shutdown
<1>4. ASSUME NEW c \in Callers, ApiCall(c) PROVE IInv'
  <2>1. PICK n \in Names : Start(c, n) \/ Stop(c, n) \/ Remove(c, n)
    BY <1>4 DEF ApiCall
  <2>2. CASE Start(c, n)
    BY <1>0, <2>2, StartInsertStep DEF Start, Threads
  <2>3. CASE Stop(c, n) \/ Remove(c, n)
    BY <1>0, <2>3, StopLookupStep DEF Stop, Remove, Threads
  <2> QED BY <2>1, <2>2, <2>3
<1>5. ASSUME NEW c \in Threads, CallStep(c) PROVE IInv'
  BY <1>5, StartLaunchStep, StartLaunchFailsStep, StopMarkStep, StopKillStep,
     StopFinishStep, RemoveDeleteStep DEF CallStep
<1>6. ASSUME NEW p \in Pids, ReapStep(p) \/ ProbeStep(p) \/ EngineStep(p) PROVE IInv'
  BY <1>6, ReapExitStep, ReapRestartStep, ReapRelaunchStep, StateOnlyStep, EngineStepKeeps
     DEF ReapStep, ProbeStep
<1> QED BY <1>1, <1>2, <1>3, <1>4, <1>5, <1>6 DEF Next

(* IInv holds in every reachable state of the agent. *)
THEOREM Inductive == Spec => []IInv
BY InitInv, NextInv, PTL DEF Spec

(* Type correctness, for every number of models, launches and callers. *)
THEOREM TypeCorrect == Spec => []TypeOK
<1>1. IInv => TypeOK
  BY DEF IInv
<1> QED BY <1>1, Inductive, PTL

(* Start, Stop, Remove, crashes and restarts never give an instance two engines,
   and never leave an engine without a reaper while the agent runs. *)
THEOREM OneEngine == Spec => []OneEnginePerInstance
<1>1. IInv => OneEnginePerInstance
  BY DEF IInv
<1> QED BY <1>1, Inductive, PTL

(* Stop returns only when the process it signalled is gone. *)
THEOREM StopWaits == Spec => []StopOutlivesItsTarget
<1>1. IInv => StopOutlivesItsTarget
  BY DEF IInv
<1> QED BY <1>1, Inductive, PTL

(* A stop that reaches a running engine is final: no step takes the mark back
   or gives the instance another engine, and the reaper does not restart it. *)
THEOREM StopFinal == Spec => StopIsFinal
<1>1. ASSUME IInv, [Next]_vars, NEW i \in Insts, CaughtByStop(i)
      PROVE  inst'[i].stopping /\ inst'[i].cmd = inst[i].cmd
  <2>1. /\ TypeOK /\ inst[i] \in Instance /\ inst[i].cmd # None /\ inst[i].stopping
        /\ inst[i].state # "absent" /\ inst[i].cmd \in Pids
        /\ reap[inst[i].cmd] \in {"waiting", "stopping"}
    BY <1>1, Types DEF IInv, AbsentUnused, CaughtByStop
  <2>2. CASE UNCHANGED inst
    BY <2>1, <2>2
  <2>3. ASSUME NEW j \in Insts, inst[j].state = "absent", NEW r, inst' = [inst EXCEPT ![j] = r]
        PROVE  inst'[i].stopping /\ inst'[i].cmd = inst[i].cmd
    BY <2>1, <2>3 DEF TypeOK
  <2>4. ASSUME NEW j \in Insts, NEW p, j # i, inst' = Launched(inst, j, p)
        PROVE  inst'[i].stopping /\ inst'[i].cmd = inst[i].cmd
    BY <2>1, <2>4 DEF TypeOK, Launched
  <2>5. ASSUME NEW j, NEW v, inst' = [inst EXCEPT ![j].state = v]
        PROVE  inst'[i].stopping /\ inst'[i].cmd = inst[i].cmd
    BY <2>1, <2>5 DEF TypeOK, Instance
  <2>6. ASSUME NEW c \in Threads, CallStep(c)
        PROVE  inst'[i].stopping /\ inst'[i].cmd = inst[i].cmd
    <3>1. CASE StartLaunch(c)
      <4>1. op[c].inst \in Insts /\ inst[op[c].inst].cmd = None
        BY <1>1, <3>1 DEF IInv, AbsentUnused, LaunchesUnique, StartLaunch
      <4> QED BY <2>1, <2>4, <3>1, <4>1 DEF StartLaunch
    <3>2. CASE StartLaunchFails(c) \/ StopFinish(c)
      BY <2>5, <3>2 DEF StartLaunchFails, StopFinish
    <3>3. CASE StopMark(c)
      BY <2>1, <3>3 DEF StopMark, TypeOK, Instance
    <3>4. CASE StopKill(c) \/ RemoveDelete(c)
      BY <2>2, <3>4 DEF StopKill, RemoveDelete
    <3> QED BY <2>6, <3>1, <3>2, <3>3, <3>4 DEF CallStep
  <2>7. ASSUME NEW p \in Pids, ReapStep(p) \/ ProbeStep(p) \/ EngineStep(p)
        PROVE  inst'[i].stopping /\ inst'[i].cmd = inst[i].cmd
    <3>1. CASE ReapRelaunch(p)
      <4>1. proc[p].inst \in Insts /\ inst[proc[p].inst].cmd = p /\ reap[p] = "backoff"
        BY <1>1, <3>1 DEF IInv, ProcessesOwned, ReapersUnique, Active, ReapRelaunch
      <4> QED BY <2>1, <2>4, <3>1, <4>1 DEF ReapRelaunch
    <3>2. CASE ReapExit(p)
      BY <2>1, <3>2 DEF ReapExit, TypeOK, Instance
    <3>3. CASE ReapRestart(p)
      BY <2>1, <3>3 DEF ReapRestart, TypeOK, Instance
    <3>4. CASE ReapStopped(p) \/ ReapGiveUp(p) \/ ReapRelaunchFails(p) \/ ProbeExpires(p)
      BY <2>5, <3>4 DEF ReapStopped, ReapGiveUp, ReapRelaunchFails, ProbeExpires
    <3>5. CASE ProbeApply(p)
      BY <2>2, <2>5, <3>5 DEF ProbeApply
    <3>6. CASE ProbeQuits(p) \/ ProbeAnswered(p) \/ EngineStep(p)
      BY <2>2, <3>6 DEF ProbeQuits, ProbeAnswered, EngineStep, EngineServes, EngineExits
    <3> QED BY <2>7, <3>1, <3>2, <3>3, <3>4, <3>5, <3>6 DEF ReapStep, ProbeStep
  <2>8. ASSUME NEW c \in Threads, NEW n \in Names, StartInsert(c, n)
        PROVE  inst'[i].stopping /\ inst'[i].cmd = inst[i].cmd
    BY <2>3, <2>8 DEF StartInsert
  <2>9. ASSUME NEW c \in Callers, ApiCall(c)
        PROVE  inst'[i].stopping /\ inst'[i].cmd = inst[i].cmd
    BY <2>2, <2>8, <2>9 DEF ApiCall, Start, Stop, Remove, Threads
  <2>10. CASE MainStep \/ Shutdown
    BY <2>2, <2>8, <2>10 DEF MainStep, Shutdown, RestoreStart, RestoreSkips, StopAllNext,
          StopAllSkips, Listen, Exit, Threads
  <2> QED BY <1>1, <2>2, <2>6, <2>7, <2>9, <2>10 DEF Next, vars
<1>2. ASSUME IInv, [Next]_vars, NEW i \in Insts, CaughtByStop(i)
      PROVE  reap'[inst[i].cmd] \in {"waiting", "stopping", "done"}
  <2>1. /\ TypeOK /\ inst[i] \in Instance /\ inst[i].cmd \in Pids /\ inst[i].stopping
        /\ reap[inst[i].cmd] \in {"waiting", "stopping"}
        /\ reap \in [Pids -> {"none", "waiting", "stopping", "recheck", "backoff", "done"}]
    BY <1>2, Types DEF IInv, CaughtByStop, TypeOK
  <2>2. proc[inst[i].cmd].st # "unborn" /\ proc[inst[i].cmd].inst = i
    BY <1>2, <2>1 DEF IInv, ProcessesOwned, ReapersUnique, Active
  <2>3. CASE UNCHANGED reap
    BY <2>1, <2>3
  <2>4. ASSUME NEW c \in Threads, CallStep(c)
        PROVE  reap'[inst[i].cmd] \in {"waiting", "stopping", "done"}
    BY <2>1, <2>3, <2>4 DEF CallStep, StartLaunch, StartLaunchFails, StopMark, StopKill,
          StopFinish, RemoveDelete
  <2>5. ASSUME NEW p \in Pids, ReapStep(p)
        PROVE  reap'[inst[i].cmd] \in {"waiting", "stopping", "done"}
    <3>1. CASE ReapExit(p)
      BY <2>1, <2>2, <3>1 DEF ReapExit
    <3>2. CASE ReapStopped(p) \/ ReapGiveUp(p) \/ ReapRelaunchFails(p) \/ ReapRelaunch(p)
      BY <2>1, <3>2 DEF ReapStopped, ReapGiveUp, ReapRelaunchFails, ReapRelaunch
    <3>3. CASE ReapRestart(p)
      BY <2>1, <3>3 DEF ReapRestart
    <3> QED BY <2>5, <3>1, <3>2, <3>3 DEF ReapStep
  <2>6. ASSUME NEW p \in Pids, ProbeStep(p) \/ EngineStep(p)
        PROVE  UNCHANGED reap
    BY <2>6 DEF ProbeStep, EngineStep, ProbeQuits, ProbeAnswered, ProbeApply, ProbeExpires,
          EngineServes, EngineExits
  <2>7. ASSUME NEW c \in Callers, ApiCall(c)
        PROVE  UNCHANGED reap
    BY <2>7 DEF ApiCall, Start, Stop, Remove, StartInsert
  <2>8. CASE MainStep \/ Shutdown
    <3>1. CASE Exit
      BY <2>1, <3>1 DEF Exit
    <3>2. CASE (MainStep /\ ~Exit) \/ Shutdown
      BY <2>3, <3>2 DEF MainStep, Shutdown, RestoreStart, RestoreSkips, StopAllNext,
            StopAllSkips, Listen, StartInsert
    <3> QED BY <2>8, <3>1, <3>2
  <2> QED BY <1>2, <2>3, <2>4, <2>5, <2>6, <2>7, <2>8 DEF Next, vars
<1>3. IInv /\ [Next]_vars =>
        [\A i \in Insts :
            CaughtByStop(i) =>
                /\ inst'[i].stopping /\ inst'[i].cmd = inst[i].cmd
                /\ reap'[inst[i].cmd] \in {"waiting", "stopping", "done"}]_vars
  BY <1>1, <1>2
<1> QED BY <1>3, Inductive, PTL DEF Spec, StopIsFinal

-----------------------------------------------------------------------------
(* The restart budget *)

Launches(i) == {p \in Pids : proc[p].inst = i}

(* The budget counts launches, the code counts restarts.  Between the two: an
   instance with no process recorded has had none; it has had at most one launch
   more than restarts, and while a reaper backs off, having counted the restart
   it has yet to make, no more launches than restarts. *)
Budget ==
    \A i \in Insts :
        /\ IsFiniteSet(Launches(i))
        /\ inst[i].restarts <= MaxRestarts
        /\ inst[i].cmd = None => Launches(i) = {}
        /\ Cardinality(Launches(i)) <= inst[i].restarts + 1
        /\ \A p \in Pids : proc[p].inst = i /\ reap[p] = "backoff"
              => Cardinality(Launches(i)) <= inst[i].restarts

(* A step that launches nothing, and neither counts a restart nor goes to sleep
   before one. *)
LEMMA NoLaunch ==
    ASSUME Budget,
           \A p \in Pids : proc'[p].inst = proc[p].inst,
           \A p \in Pids : reap'[p] = "backoff" => reap[p] = "backoff",
           \A i \in Insts : inst'[i].restarts = inst[i].restarts /\ inst'[i].cmd = inst[i].cmd
    PROVE  Budget'
<1> SUFFICES ASSUME NEW i \in Insts
             PROVE  /\ IsFiniteSet(Launches(i)')
                    /\ inst'[i].restarts <= MaxRestarts
                    /\ inst'[i].cmd = None => Launches(i)' = {}
                    /\ Cardinality(Launches(i)') <= inst'[i].restarts + 1
                    /\ \A p \in Pids : proc'[p].inst = i /\ reap'[p] = "backoff"
                          => Cardinality(Launches(i)') <= inst'[i].restarts
  BY DEF Budget
<1>1. Launches(i)' = Launches(i)
  BY DEF Launches
<1> QED BY <1>1 DEF Budget

(* A launch keeps the budget when the instance has had no more launches than
   restarts, and no other reaper of it is about to relaunch. *)
LEMMA LaunchCounts ==
    ASSUME TypeOK, Budget, NEW i \in Insts, NEW p \in Pids, Spawn(i, p), proc[p].inst = None,
           inst' = Launched(inst, i, p),
           Cardinality(Launches(i)) <= inst[i].restarts,
           reap'[p] = "waiting",
           \A q \in Pids : reap'[q] = "backoff" => reap[q] = "backoff" /\ proc[q].inst # i
    PROVE  Budget'
<1>1. /\ inst'[i].cmd = p /\ \A j \in Insts : j # i => inst'[j] = inst[j]
      /\ proc'[p].inst = i /\ \A q \in Pids : q # p => proc'[q] = proc[q]
  BY LaunchEffect
<1>2. inst[i] \in Instance /\ inst[i].restarts \in Nat
  BY Types DEF Instance
<1>3. inst'[i].restarts = inst[i].restarts
  BY <1>2 DEF Launched, TypeOK, Instance
<1>4. Launches(i)' = Launches(i) \cup {p} /\ p \notin Launches(i)
  BY <1>1 DEF Launches
<1>5. IsFiniteSet(Launches(i)) /\ Cardinality(Launches(i)) \in Nat
  BY FS_CardinalityType DEF Budget
<1>6. /\ IsFiniteSet(Launches(i)')
      /\ Cardinality(Launches(i)') = Cardinality(Launches(i)) + 1
  BY <1>4, <1>5, FS_AddElement
<1>7. ASSUME NEW j \in Insts, j # i
      PROVE  Launches(j)' = Launches(j) /\ inst'[j] = inst[j]
  BY <1>1, <1>7 DEF Launches
<1>8. ASSUME NEW j \in Insts
      PROVE  /\ IsFiniteSet(Launches(j)')
             /\ inst'[j].restarts <= MaxRestarts
             /\ inst'[j].cmd = None => Launches(j)' = {}
             /\ Cardinality(Launches(j)') <= inst'[j].restarts + 1
             /\ \A q \in Pids : proc'[q].inst = j /\ reap'[q] = "backoff"
                   => Cardinality(Launches(j)') <= inst'[j].restarts
  <2>1. CASE j = i
    BY <1>1, <1>2, <1>3, <1>5, <1>6, <2>1 DEF Budget
  <2>2. CASE j # i
    BY <1>1, <1>7, <2>2 DEF Budget
  <2> QED BY <2>1, <2>2
<1> QED BY <1>8 DEF Budget

(* A new instance starts with no launch and no restart. *)
LEMMA InsertCounts ==
    ASSUME IInv, Budget, NEW c \in Threads, NEW n \in Names, StartInsert(c, n)
    PROVE  Budget'
<1>1. PICK i \in Insts, q \in Ports :
        /\ inst[i].state = "absent"
        /\ inst' = [inst EXCEPT ![i] =
              [NoInstance EXCEPT !.name = n, !.port = q, !.state = "starting",
                                 !.desired = TRUE]]
  BY DEF StartInsert
<1>2. TypeOK /\ UNCHANGED <<proc, reap>>
  BY DEF IInv, StartInsert
<1>3. /\ inst'[i].restarts = 0 /\ inst'[i].cmd = None
      /\ \A j \in Insts : j # i => inst'[j] = inst[j]
  BY <1>1, <1>2 DEF TypeOK, NoInstance
<1>4. Launches(i) = {}
  BY <1>1 DEF IInv, AbsentUnused, Budget
<1>5. Cardinality(Launches(i)) = 0
  BY <1>4, FS_EmptySet
<1>6. \A j \in Insts : Launches(j)' = Launches(j)
  BY <1>2 DEF Launches
<1>7. \A p \in Pids : proc'[p].inst # i
  BY <1>2, <1>4 DEF Launches
<1>8. ASSUME NEW j \in Insts
      PROVE  /\ IsFiniteSet(Launches(j)')
             /\ inst'[j].restarts <= MaxRestarts
             /\ inst'[j].cmd = None => Launches(j)' = {}
             /\ Cardinality(Launches(j)') <= inst'[j].restarts + 1
             /\ \A k \in Pids : proc'[k].inst = j /\ reap'[k] = "backoff"
                   => Cardinality(Launches(j)') <= inst'[j].restarts
  <2>1. CASE j = i
    <3>1. Launches(j)' = {} /\ inst'[j].restarts = 0
      BY <1>3, <1>4, <1>6, <2>1
    <3>2. IsFiniteSet(Launches(j)') /\ Cardinality(Launches(j)') = 0
      BY <3>1, FS_EmptySet
    <3> QED BY <1>7, <2>1, <3>1, <3>2
  <2>2. CASE j # i
    BY <1>2, <1>3, <1>6, <2>2 DEF Budget
  <2> QED BY <2>1, <2>2
<1> QED BY <1>8 DEF Budget

(* Each action keeps the budget. *)
LEMMA BudgetKept == IInv /\ Budget /\ [Next]_vars => Budget'
<1> SUFFICES ASSUME IInv, Budget, [Next]_vars PROVE Budget' OBVIOUS
<1>1. TypeOK /\ \A i \in Insts : inst[i] \in Instance /\ inst[i].restarts \in Nat
  BY Types DEF IInv, Instance
<1>2. ASSUME UNCHANGED <<inst, proc>>,
             \A p \in Pids : reap'[p] = "backoff" => reap[p] = "backoff"
      PROVE  Budget'
  BY <1>2, NoLaunch
<1>3. ASSUME NEW i, NEW v, inst' = [inst EXCEPT ![i].state = v], UNCHANGED proc,
             \A p \in Pids : reap'[p] = "backoff" => reap[p] = "backoff"
      PROVE  Budget'
  <2>1. \A j \in Insts : inst'[j].restarts = inst[j].restarts /\ inst'[j].cmd = inst[j].cmd
    BY <1>1, <1>3 DEF TypeOK, Instance
  <2> QED BY <1>3, <2>1, NoLaunch
<1>4. ASSUME NEW c \in Threads, CallStep(c) PROVE Budget'
  <2>1. CASE StartLaunch(c)
    <3> DEFINE i == op[c].inst
    <3>1. PICK p \in Pids : /\ Spawn(i, p)
                            /\ reap' = [reap EXCEPT ![p] = "waiting"]
                            /\ inst' = Launched(inst, i, p)
      BY <2>1 DEF StartLaunch
    <3>2. i \in Insts /\ inst[i].cmd = None
      BY <2>1 DEF IInv, AbsentUnused, LaunchesUnique, StartLaunch
    <3>3. proc[p].inst = None
      BY <3>1 DEF IInv, ProcessesOwned, Spawn
    <3> HIDE DEF i
    <3>4. Launches(i) = {}
      BY <3>2 DEF Budget
    <3>5. Cardinality(Launches(i)) <= inst[i].restarts
      BY <1>1, <3>2, <3>4, FS_EmptySet
    <3>6. \A q \in Pids : proc[q].inst # i
      BY <3>4 DEF Launches
    <3>7. /\ reap'[p] = "waiting"
          /\ \A q \in Pids : reap'[q] = "backoff" => reap[q] = "backoff" /\ proc[q].inst # i
      BY <1>1, <3>1, <3>6 DEF TypeOK
    <3> QED BY <1>1, <3>1, <3>2, <3>3, <3>5, <3>7, LaunchCounts
  <2>2. CASE StartLaunchFails(c) \/ StopFinish(c)
    BY <1>3, <2>2 DEF StartLaunchFails, StopFinish
  <2>3. CASE StopMark(c)
    <3>1. \A j \in Insts : inst'[j].restarts = inst[j].restarts /\ inst'[j].cmd = inst[j].cmd
      BY <1>1, <2>3 DEF StopMark, TypeOK, Instance
    <3> QED BY <2>3, <3>1, NoLaunch DEF StopMark
  <2>4. CASE StopKill(c)
    <3>1. \A p \in Pids : proc'[p].inst = proc[p].inst
      BY <1>1, <2>4 DEF StopKill, TypeOK, Process
    <3> QED BY <2>4, <3>1, NoLaunch DEF StopKill
  <2>5. CASE RemoveDelete(c)
    BY <1>2, <2>5 DEF RemoveDelete
  <2> QED BY <1>4, <2>1, <2>2, <2>3, <2>4, <2>5 DEF CallStep
<1>5. ASSUME NEW p \in Pids, ReapStep(p) PROVE Budget'
  <2> DEFINE i == proc[p].inst
  <2>1. CASE ReapExit(p)
    <3>1. \A j \in Insts : inst'[j].restarts = inst[j].restarts /\ inst'[j].cmd = inst[j].cmd
      BY <1>1, <2>1 DEF ReapExit, TypeOK, Instance
    <3>2. \A q \in Pids : reap'[q] = "backoff" => reap[q] = "backoff"
      BY <1>1, <2>1 DEF ReapExit, TypeOK
    <3> QED BY <2>1, <3>1, <3>2, NoLaunch DEF ReapExit
  <2>2. CASE ReapStopped(p) \/ ReapGiveUp(p) \/ ReapRelaunchFails(p)
    <3>1. \A q \in Pids : reap'[q] = "backoff" => reap[q] = "backoff"
      BY <1>1, <2>2 DEF ReapStopped, ReapGiveUp, ReapRelaunchFails, TypeOK
    <3> QED BY <1>3, <2>2, <3>1 DEF ReapStopped, ReapGiveUp, ReapRelaunchFails
  <2>3. CASE ReapRestart(p)
    <3>1. i \in Insts /\ inst[i].restarts < MaxRestarts /\ inst[i].cmd # None
      BY <1>1, <2>3 DEF IInv, ProcessesOwned, ReapersUnique, Active, ReapRestart, BudgetSpent
    <3>2. /\ inst'[i].restarts = inst[i].restarts + 1 /\ inst'[i].cmd = inst[i].cmd
          /\ \A j \in Insts : j # i => inst'[j] = inst[j]
      BY <1>1, <2>3, <3>1 DEF ReapRestart, TypeOK, Instance
    <3>3. UNCHANGED proc /\ \A q \in Pids : q # p => reap'[q] = reap[q]
      BY <1>1, <2>3 DEF ReapRestart, TypeOK
    <3>4. \A j \in Insts : Launches(j)' = Launches(j)
      BY <3>3 DEF Launches
    <3>5. IsFiniteSet(Launches(i)) /\ Cardinality(Launches(i)) \in Nat
      BY <3>1, FS_CardinalityType DEF Budget
    <3>6. \A q \in Pids : proc'[q] = proc[q]
      BY <3>3
    <3>7. \A j \in Insts : j # i =>
            \A q \in Pids : proc'[q].inst = j /\ reap'[q] = "backoff"
                => proc[q].inst = j /\ reap[q] = "backoff"
      BY <3>3, <3>6
    <3> HIDE DEF i
    <3>8. ASSUME NEW j \in Insts
          PROVE  /\ IsFiniteSet(Launches(j)')
                 /\ inst'[j].restarts <= MaxRestarts
                 /\ inst'[j].cmd = None => Launches(j)' = {}
                 /\ Cardinality(Launches(j)') <= inst'[j].restarts + 1
                 /\ \A q \in Pids : proc'[q].inst = j /\ reap'[q] = "backoff"
                       => Cardinality(Launches(j)') <= inst'[j].restarts
      <4>1. CASE j = i
        BY <1>1, <3>1, <3>2, <3>4, <3>5, <4>1 DEF Budget
      <4>2. CASE j # i
        BY <3>2, <3>4, <3>7, <4>2 DEF Budget
      <4> QED BY <4>1, <4>2
    <3> QED BY <3>8 DEF Budget
  <2>4. CASE ReapRelaunch(p)
    <3>1. PICK q \in Pids : /\ Spawn(i, q)
                            /\ reap' = [reap EXCEPT ![p] = "done", ![q] = "waiting"]
                            /\ inst' = Launched(inst, i, q)
      BY <2>4 DEF ReapRelaunch
    <3>2. i \in Insts /\ inst[i].cmd = p /\ reap[p] = "backoff" /\ proc[p].st = "dead"
      BY <2>4 DEF IInv, ProcessesOwned, ReapersUnique, Active, ReapRelaunch
    <3>3. proc[q].inst = None /\ p # q
      BY <3>1, <3>2 DEF IInv, ProcessesOwned, Spawn
    <3>4. Cardinality(Launches(i)) <= inst[i].restarts
      BY <3>2 DEF Budget
    (* Another reaper backing off for i would be that of in.cmd too. *)
    <3>5. \A k \in Pids : reap[k] = "backoff" /\ proc[k].inst = i => k = p
      BY <3>2 DEF IInv, ReapersUnique, Active
    <3>6. /\ reap'[q] = "waiting"
          /\ \A k \in Pids : reap'[k] = "backoff" => reap[k] = "backoff" /\ proc[k].inst # i
      BY <1>1, <3>1, <3>3, <3>5 DEF TypeOK
    <3> HIDE DEF i
    <3> QED BY <1>1, <3>1, <3>2, <3>3, <3>4, <3>6, LaunchCounts
  <2> QED BY <1>5, <2>1, <2>2, <2>3, <2>4 DEF ReapStep
<1>6. ASSUME NEW p \in Pids, ProbeStep(p) \/ EngineStep(p) PROVE Budget'
  <2>1. CASE ProbeStep(p)
    BY <1>2, <1>3, <2>1 DEF ProbeStep, ProbeQuits, ProbeAnswered, ProbeApply, ProbeExpires
  <2>2. CASE EngineStep(p)
    <3>1. \A q \in Pids : proc'[q].inst = proc[q].inst
      <4>1. CASE EngineServes(p)
        BY <1>1, <4>1 DEF EngineServes, TypeOK, Process
      <4>2. CASE EngineExits(p)
        BY <1>1, <4>2 DEF EngineExits, TypeOK, Process
      <4> QED BY <2>2, <4>1, <4>2 DEF EngineStep
    <3> QED BY <2>2, <3>1, NoLaunch DEF EngineStep, EngineServes, EngineExits
  <2> QED BY <1>6, <2>1, <2>2
<1>7. CASE MainStep
  <2>1. CASE \E n \in Names : RestoreStart(n)
    BY <2>1, InsertCounts DEF RestoreStart, Threads
  <2>2. CASE (\E n \in Names : RestoreSkips(n) \/ StopAllNext(n) \/ StopAllSkips(n)) \/ Listen
    BY <1>2, <2>2 DEF RestoreSkips, StopAllNext, StopAllSkips, Listen
  <2>3. CASE Exit
    BY <1>2, <2>3 DEF Exit
  <2> QED BY <1>7, <2>1, <2>2, <2>3 DEF MainStep
<1>8. CASE UNCHANGED vars \/ Shutdown
  BY <1>2, <1>8 DEF vars, Shutdown
<1>9. ASSUME NEW c \in Callers, ApiCall(c) PROVE Budget'
  <2>1. CASE \E n \in Names : Start(c, n)
    BY <2>1, InsertCounts DEF Start, Threads
  <2>2. CASE \E n \in Names : Stop(c, n) \/ Remove(c, n)
    BY <1>2, <2>2 DEF Stop, Remove
  <2> QED BY <1>9, <2>1, <2>2 DEF ApiCall
<1> QED BY <1>4, <1>5, <1>6, <1>7, <1>8, <1>9 DEF Next

(* However crashes, failed launches, stops and starts interleave, an instance is
   launched at most MaxRestarts times after its first launch. *)
THEOREM BudgetHolds == Spec => []RestartBudget
<1>1. Init => Budget
  <2> SUFFICES ASSUME Init PROVE Budget OBVIOUS
  <2>1. \A i \in Insts : Launches(i) = {} /\ inst[i].restarts = 0
    BY DEF Init, Launches, NoProcess, NoInstance
  <2> QED BY <2>1, FS_EmptySet DEF Budget, Init
<1>2. TypeOK /\ Budget => RestartBudget
  <2> SUFFICES ASSUME TypeOK, Budget, NEW i \in Insts
               PROVE  Cardinality({p \in Pids : proc[p].inst = i}) <= MaxRestarts + 1
    BY DEF RestartBudget
  <2>1. Cardinality(Launches(i)) \in Nat /\ inst[i].restarts \in Nat
    BY FS_CardinalityType, Types DEF Budget, Instance
  <2> QED BY <2>1 DEF Budget, Launches
<1> QED BY <1>1, <1>2, BudgetKept, Inductive, TypeCorrect, PTL DEF Spec

-----------------------------------------------------------------------------
(***************************************************************************)
(* The state file.                                                         *)
(***************************************************************************)

(* A goroutine that is lone is in persist, and no other is; as long as no two
   have overlapped, whoever is in persist is lone. *)
Solitude ==
    /\ \A g \in lone : InPersist(g) /\ \A h \in Goroutines : InPersist(h) => h = g
    /\ ~overlapped => \A g \in Goroutines : InPersist(g) => g \in lone

(* The temporary file is never the state file, and who writes has a file open,
   but possibly the state file: a rename by another may have moved it there. *)
Paths ==
    /\ tmp # NoFile => tmp # file
    /\ \A g \in Goroutines : pc[g] = "write" => fd[g] \in Inodes

(* What a lone persist has done so far, whatever was there before. *)
Progress ==
    \A g \in lone :
        /\ pc[g] = "write" => fd[g] = tmp /\ data[tmp] = Truncated
        /\ pc[g] = "rename" => tmp # NoFile /\ data[tmp] = Specs(snap[g])

(* A set of names agrees with what is wanted but for the names not saved yet and
   those Restore has still to start.  While no change waits for its persist, the
   snapshot of a lone persist agrees, and so does the file when no persist is
   under way. *)
Agrees(S) == S \ (unsaved \cup unstarted) = want \ (unsaved \cup unstarted)
Pending == \E h \in Goroutines : pc[h] = "snapshot"
Tracks ==
    ~Pending =>
        /\ \A g \in lone : Agrees(snap[g])
        /\ ~overlapped /\ (\A g \in Goroutines : ~InPersist(g)) => Agrees(Saved)

SFInv ==
    /\ SFTypeOK
    /\ Solitude
    /\ Paths
    /\ Progress
    /\ Tracks
    /\ CompleteUnlessOverlapped

-----------------------------------------------------------------------------
(* The contents of a file *)

LEMMA ContentsFacts ==
    /\ \A S : Specs(S).ok /\ Specs(S).names = S
    /\ ~Truncated.ok /\ Truncated.names = {}
    /\ \A S \in SUBSET Models : Specs(S) \in Contents
    /\ Truncated \in Contents /\ Mixed \in Contents
BY DEF Specs, Truncated, Mixed, Contents

(* Bytes that parse are the specs of some names. *)
LEMMA OkIsSpecs ==
    ASSUME NEW d \in Contents, d.ok
    PROVE  d.names \in SUBSET Models /\ d = Specs(d.names)
BY DEF Specs, Truncated, Mixed, Contents

(* A write into a file just truncated leaves exactly the snapshot. *)
LEMMA WriteFresh ==
    ASSUME NEW S, NEW d \in WriteResults(Truncated, S)
    PROVE  d = Specs(S)
BY DEF WriteResults, Truncated

LEMMA WriteType ==
    ASSUME NEW old, NEW S \in SUBSET Models, NEW d \in WriteResults(old, S)
    PROVE  d \in Contents
<1>1. Specs(S) \in Contents /\ Mixed \in Contents
  BY ContentsFacts
<1>2. d \in {Specs(S), Mixed}
  BY DEF WriteResults
<1> QED BY <1>1, <1>2

-----------------------------------------------------------------------------
(* The invariant *)

LEMMA SFInitInv == SFInit => SFInv
<1> SUFFICES ASSUME SFInit PROVE SFInv
  OBVIOUS
<1>1. SFTypeOK
  <2>1. data \in [Inodes -> Contents]
    BY ContentsFacts DEF SFInit
  <2>2. crashes \in 0..MaxCrashes
    BY StateFileAssumption DEF SFInit
  <2>3. pc \in [Goroutines -> {"idle", "launch", "snapshot", "open", "write", "rename"}]
    BY DEF SFInit
  <2>4. snap \in [Goroutines -> SUBSET Models] /\ fd \in [Goroutines -> Inodes \cup {NoFile}]
    BY DEF SFInit
  <2>5. /\ want \in SUBSET Models /\ unstarted \in SUBSET Models /\ lone \in SUBSET Goroutines
        /\ tmp \in Inodes \cup {NoFile} /\ file \in Inodes \cup {NoFile}
        /\ overlapped \in BOOLEAN /\ unsaved \in SUBSET Models
    BY DEF SFInit
  <2> QED BY <2>1, <2>2, <2>3, <2>4, <2>5 DEF SFTypeOK
<1>2. Solitude /\ Paths /\ Progress
  BY DEF SFInit, Solitude, Paths, Progress, InPersist
<1>3. Tracks
  BY DEF SFInit, Tracks, Agrees, Saved
<1>4. CompleteUnlessOverlapped
  BY DEF SFInit, CompleteUnlessOverlapped, FileComplete
<1> QED BY <1>1, <1>2, <1>3, <1>4 DEF SFInv

(* A step outside persist leaves the directory alone.  One that changes what is
   wanted either has its persist still to come, or concerns a name it counts as
   not saved. *)
LEMMA OutsideKeeps ==
    ASSUME SFInv, NEW g \in Goroutines, ~InPersist(g),
           NEW c \in {"idle", "launch", "snapshot"}, pc' = [pc EXCEPT ![g] = c],
           want' \in SUBSET Models, unstarted' \in SUBSET Models, unsaved' \in SUBSET Models,
           UNCHANGED <<snap, fd, data, tmp, file, crashes, lone, overlapped>>,
           \/ c = "snapshot"
           \/ /\ pc[g] # "snapshot"
              /\ unsaved \cup unstarted \subseteq unsaved' \cup unstarted'
              /\ want' \ (unsaved' \cup unstarted') = want \ (unsaved' \cup unstarted')
    PROVE  SFInv'
<1>1. /\ SFTypeOK /\ Solitude /\ Paths /\ Progress /\ Tracks
      /\ CompleteUnlessOverlapped
  BY DEF SFInv
<1>2. /\ pc'[g] = c /\ \A h \in Goroutines : h # g => pc'[h] = pc[h]
      /\ pc' \in [Goroutines -> {"idle", "launch", "snapshot", "open", "write", "rename"}]
  BY <1>1 DEF SFTypeOK
<1>3. \A h \in Goroutines : InPersist(h)' <=> InPersist(h)
  BY <1>2 DEF InPersist
<1>4. \A h \in Goroutines : InPersist(h) => pc'[h] = pc[h]
  BY <1>2 DEF InPersist
<1>5. SFTypeOK'
  BY <1>1, <1>2 DEF SFTypeOK
<1>6. Solitude'
  BY <1>1, <1>3 DEF Solitude, SFTypeOK
<1>7. Paths'
  BY <1>1, <1>2 DEF Paths
<1>8. Progress'
  BY <1>1, <1>4 DEF Progress, Solitude, SFTypeOK
<1>9. Tracks'
  <2> SUFFICES ASSUME ~Pending' PROVE /\ \A h \in lone' : Agrees(snap[h])'
                                      /\ ~overlapped' /\ (\A h \in Goroutines : ~InPersist(h)') => Agrees(Saved)'
    BY DEF Tracks
  <2>1. c # "snapshot"
    BY <1>2 DEF Pending
  <2>2. ~Pending
    BY <1>2, <2>1 DEF Pending
  <2>3. Saved' = Saved
    BY DEF Saved
  <2>4. \A S : S \ (unsaved \cup unstarted) = want \ (unsaved \cup unstarted)
                => S \ (unsaved' \cup unstarted') = want' \ (unsaved' \cup unstarted')
    BY <2>1
  <2>5. \A h \in lone : Agrees(snap[h])
    BY <1>1, <2>2 DEF Tracks
  <2>6. \A h \in lone' : Agrees(snap[h])'
    BY <2>4, <2>5 DEF Agrees
  <2>7. ~overlapped' /\ (\A h \in Goroutines : ~InPersist(h)') => Agrees(Saved)
    BY <1>1, <1>3, <2>2 DEF Tracks
  <2>8. Agrees(Saved) => Agrees(Saved)'
    BY <2>3, <2>4 DEF Agrees
  <2> QED BY <2>6, <2>7, <2>8
<1>10. CompleteUnlessOverlapped'
  BY <1>1 DEF CompleteUnlessOverlapped, FileComplete
<1> QED BY <1>5, <1>6, <1>7, <1>8, <1>9, <1>10 DEF SFInv

(* A goroutine begins a persist: it is lone exactly if it finds no other, and its
   snapshot is what is wanted now. *)
LEMMA TakeSnapshotKeeps ==
    ASSUME SFInv, NEW g \in Goroutines, TakeSnapshot(g)
    PROVE  SFInv'
<1> DEFINE alone == \A h \in Goroutines : ~InPersist(h)
<1>1. /\ SFTypeOK /\ Solitude /\ Paths /\ Progress /\ Tracks
      /\ CompleteUnlessOverlapped
  BY DEF SFInv
<1>2. /\ pc[g] \in {"launch", "snapshot"} /\ snap' = [snap EXCEPT ![g] = want]
      /\ pc' = [pc EXCEPT ![g] = "open"] /\ unsaved' = {}
      /\ lone' = (IF alone THEN {g} ELSE {})
      /\ UNCHANGED <<want, unstarted, fd, data, tmp, file, crashes>>
  BY DEF TakeSnapshot
<1>3. overlapped' = (overlapped \/ ~alone)
  BY DEF TakeSnapshot
<1>4. overlapped' \in BOOLEAN /\ (~overlapped' <=> ~overlapped /\ alone)
  BY <1>3, Zenon
<1> HIDE DEF alone
<1>5. /\ pc'[g] = "open" /\ \A h \in Goroutines : h # g => pc'[h] = pc[h] /\ snap'[h] = snap[h]
      /\ snap'[g] = want
      /\ pc' \in [Goroutines -> {"idle", "launch", "snapshot", "open", "write", "rename"}]
      /\ snap' \in [Goroutines -> SUBSET Models]
  BY <1>1, <1>2 DEF SFTypeOK
<1>6. SFTypeOK'
  BY <1>1, <1>2, <1>4, <1>5 DEF SFTypeOK
<1>7. Solitude'
  <2>1. alone => \A h \in Goroutines : ~InPersist(h)
    BY DEF alone
  <2>2. alone => \A h \in Goroutines : InPersist(h)' => h = g
    BY <1>5, <2>1 DEF InPersist
  <2>3. InPersist(g)'
    BY <1>5 DEF InPersist
  <2> QED BY <1>2, <1>4, <2>2, <2>3 DEF Solitude
<1>8. Paths'
  BY <1>1, <1>2, <1>5 DEF Paths
<1>9. Progress'
  BY <1>2, <1>5 DEF Progress
<1>10. Tracks'
  <2>1. \A h \in lone' : Agrees(snap[h])'
    BY <1>2, <1>5 DEF Agrees
  <2>2. InPersist(g)'
    BY <1>5 DEF InPersist
  <2> QED BY <2>1, <2>2 DEF Tracks
<1>11. CompleteUnlessOverlapped'
  BY <1>1, <1>2, <1>4 DEF CompleteUnlessOverlapped, FileComplete
<1> QED BY <1>6, <1>7, <1>8, <1>9, <1>10, <1>11 DEF SFInv

(* A step from one system call of persist to the next keeps the snapshot. *)
LEMMA TracksWithin ==
    ASSUME SFTypeOK, Tracks, NEW g \in Goroutines, InPersist(g), InPersist(g)',
           \A h \in Goroutines : h # g => pc'[h] = pc[h],
           UNCHANGED <<want, unstarted, snap, lone, overlapped, unsaved>>
    PROVE  Tracks'
<1>1. ~Pending' => ~Pending
  BY DEF Pending, InPersist
<1>2. ~Pending => \A h \in lone : Agrees(snap[h])
  BY DEF Tracks
<1>3. \A h \in lone : Agrees(snap[h]) => Agrees(snap[h])'
  BY DEF Agrees
<1> QED BY <1>1, <1>2, <1>3 DEF Tracks

LEMMA OpenTmpKeeps ==
    ASSUME SFInv, NEW g \in Goroutines, OpenTmp(g)
    PROVE  SFInv'
<1>1. /\ SFTypeOK /\ Solitude /\ Paths /\ Progress /\ Tracks
      /\ CompleteUnlessOverlapped
  BY DEF SFInv
<1>2. PICK f \in Inodes :
        /\ IF tmp = NoFile THEN Unused(f) ELSE f = tmp
        /\ data' = [data EXCEPT ![f] = Truncated]
        /\ tmp' = f
        /\ fd' = [fd EXCEPT ![g] = f]
  BY DEF OpenTmp
<1>3. /\ pc[g] = "open" /\ pc' = [pc EXCEPT ![g] = "write"]
      /\ UNCHANGED <<want, unstarted, snap, file, crashes, lone, overlapped, unsaved>>
  BY DEF OpenTmp, history
<1>4. f # file /\ f # NoFile
  BY <1>1, <1>2, StateFileAssumption DEF Unused, Paths
<1>5. /\ pc'[g] = "write" /\ \A h \in Goroutines : h # g => pc'[h] = pc[h] /\ fd'[h] = fd[h]
      /\ fd'[g] = f
      /\ pc' \in [Goroutines -> {"idle", "launch", "snapshot", "open", "write", "rename"}]
      /\ fd' \in [Goroutines -> Inodes \cup {NoFile}]
  BY <1>1, <1>2, <1>3 DEF SFTypeOK
<1>6. /\ data' \in [Inodes -> Contents] /\ data'[f] = Truncated
      /\ file \in Inodes => data'[file] = data[file]
  BY <1>1, <1>2, <1>4, ContentsFacts DEF SFTypeOK
<1>7. SFTypeOK'
  BY <1>1, <1>2, <1>3, <1>5, <1>6 DEF SFTypeOK
<1>8. Solitude'
  <2>1. \A h \in Goroutines : InPersist(h)' <=> InPersist(h)
    BY <1>3, <1>5 DEF InPersist
  <2> QED BY <1>1, <1>3, <2>1 DEF Solitude, SFTypeOK
<1>9. Paths'
  BY <1>1, <1>2, <1>3, <1>4, <1>5 DEF Paths
<1>10. Progress'
  <2>1. \A h \in lone : h = g
    BY <1>1, <1>3 DEF Solitude, InPersist
  <2> QED BY <1>2, <1>3, <1>5, <1>6, <2>1 DEF Progress
<1>11. Tracks'
  <2>1. InPersist(g) /\ InPersist(g)'
    BY <1>3, <1>5 DEF InPersist
  <2> QED BY <1>1, <1>3, <1>5, <2>1, TracksWithin
<1>12. CompleteUnlessOverlapped'
  BY <1>1, <1>3, <1>6 DEF CompleteUnlessOverlapped, FileComplete, SFTypeOK
<1> QED BY <1>7, <1>8, <1>9, <1>10, <1>11, <1>12 DEF SFInv

(* Only a goroutine that another has overlapped can write into the state file
   itself. *)
LEMMA WriteTmpKeeps ==
    ASSUME SFInv, NEW g \in Goroutines, WriteTmp(g)
    PROVE  SFInv'
<1>1. /\ SFTypeOK /\ Solitude /\ Paths /\ Progress /\ Tracks
      /\ CompleteUnlessOverlapped
  BY DEF SFInv
<1>2. PICK d \in WriteResults(data[fd[g]], snap[g]) : data' = [data EXCEPT ![fd[g]] = d]
  BY DEF WriteTmp
<1>3. /\ pc[g] = "write" /\ pc' = [pc EXCEPT ![g] = "rename"]
      /\ fd' = [fd EXCEPT ![g] = NoFile]
      /\ UNCHANGED <<want, unstarted, snap, tmp, file, crashes, lone, overlapped, unsaved>>
  BY DEF WriteTmp, history
<1>4. fd[g] \in Inodes /\ snap[g] \in SUBSET Models
  BY <1>1, <1>3 DEF Paths, SFTypeOK
<1>5. d \in Contents
  BY <1>2, <1>4, WriteType
<1>6. /\ pc'[g] = "rename" /\ \A h \in Goroutines : h # g => pc'[h] = pc[h] /\ fd'[h] = fd[h]
      /\ pc' \in [Goroutines -> {"idle", "launch", "snapshot", "open", "write", "rename"}]
      /\ fd' \in [Goroutines -> Inodes \cup {NoFile}]
  BY <1>1, <1>3 DEF SFTypeOK
<1>7. /\ data' \in [Inodes -> Contents] /\ data'[fd[g]] = d
      /\ \A f \in Inodes : f # fd[g] => data'[f] = data[f]
  BY <1>1, <1>2, <1>4, <1>5 DEF SFTypeOK
<1>8. g \in lone => fd[g] = tmp /\ tmp # NoFile /\ tmp # file /\ d = Specs(snap[g])
  <2> SUFFICES ASSUME g \in lone
               PROVE  fd[g] = tmp /\ tmp # NoFile /\ tmp # file /\ d = Specs(snap[g])
    OBVIOUS
  <2>1. fd[g] = tmp /\ data[tmp] = Truncated
    BY <1>1, <1>3 DEF Progress
  <2>2. tmp # NoFile
    BY <1>4, <2>1, StateFileAssumption
  <2>3. d = Specs(snap[g])
    BY <1>2, <2>1, WriteFresh
  <2> QED BY <1>1, <2>1, <2>2, <2>3 DEF Paths
<1>9. SFTypeOK'
  BY <1>1, <1>3, <1>6, <1>7 DEF SFTypeOK
<1>10. Solitude'
  <2>1. \A h \in Goroutines : InPersist(h)' <=> InPersist(h)
    BY <1>3, <1>6 DEF InPersist
  <2> QED BY <1>1, <1>3, <2>1 DEF Solitude, SFTypeOK
<1>11. Paths'
  BY <1>1, <1>3, <1>6 DEF Paths
<1>12. Progress'
  <2>1. \A h \in lone : h = g
    BY <1>1, <1>3 DEF Solitude, InPersist
  <2> QED BY <1>3, <1>6, <1>7, <1>8, <2>1 DEF Progress
<1>13. Tracks'
  <2>1. InPersist(g) /\ InPersist(g)'
    BY <1>3, <1>6 DEF InPersist
  <2> QED BY <1>1, <1>3, <1>6, <2>1, TracksWithin
<1>14. CompleteUnlessOverlapped'
  <2> SUFFICES ASSUME ~overlapped', file' # NoFile PROVE (data[file].ok)'
    BY DEF CompleteUnlessOverlapped, FileComplete
  <2>1. g \in lone
    BY <1>1, <1>3 DEF Solitude, InPersist
  <2>2. file \in Inodes /\ file # fd[g] /\ data[file].ok
    BY <1>1, <1>3, <1>8, <2>1 DEF SFTypeOK, CompleteUnlessOverlapped, FileComplete
  <2>3. data'[file] = data[file]
    BY <1>7, <2>2
  <2> QED BY <1>3, <2>2, <2>3
<1> QED BY <1>9, <1>10, <1>11, <1>12, <1>13, <1>14 DEF SFInv

(* Who leaves persist: no lone goroutine is left, and as long as no two have
   overlapped none is in persist. *)
LEMMA SolitudeAfter ==
    ASSUME SFTypeOK, Solitude, NEW g \in Goroutines, InPersist(g), pc' = [pc EXCEPT ![g] = "idle"],
           lone' = lone \ {g}, ~overlapped' => ~overlapped \/ g \in lone
    PROVE  lone' = {} /\ Solitude'
<1>1. \A h \in lone : h = g
  BY DEF Solitude
<1>2. lone' = {}
  BY <1>1
<1>3. pc'[g] = "idle" /\ \A h \in Goroutines : h # g => pc'[h] = pc[h]
  BY DEF SFTypeOK
<1>4. ~overlapped' => g \in lone
  BY DEF Solitude
<1>5. ~overlapped' => \A h \in Goroutines : ~InPersist(h)'
  <2> SUFFICES ASSUME ~overlapped', NEW h \in Goroutines, h # g PROVE ~InPersist(h)'
    BY <1>3 DEF InPersist
  <2>1. ~InPersist(h)
    BY <1>4 DEF Solitude
  <2> QED BY <1>3, <2>1 DEF InPersist
<1> QED BY <1>2, <1>5 DEF Solitude

(* The rename of a lone persist puts its complete snapshot in place. *)
LEMMA RenameKeeps ==
    ASSUME SFInv, NEW g \in Goroutines, Rename(g)
    PROVE  SFInv'
<1>1. /\ SFTypeOK /\ Solitude /\ Paths /\ Progress /\ Tracks
      /\ CompleteUnlessOverlapped
  BY DEF SFInv
<1>2. /\ pc[g] = "rename" /\ pc' = [pc EXCEPT ![g] = "idle"]
      /\ snap' = [snap EXCEPT ![g] = {}] /\ lone' = lone \ {g}
      /\ UNCHANGED <<want, unstarted, fd, crashes, unsaved>>
  BY DEF Rename
<1>3. IF tmp = NoFile THEN UNCHANGED <<tmp, file, data>>
      ELSE file' = tmp /\ tmp' = NoFile /\ data' = Freed(file)
  BY DEF Rename
<1>4. overlapped' = (overlapped /\ g \notin lone)
  BY DEF Rename
<1>5. overlapped' \in BOOLEAN /\ (~overlapped' <=> ~overlapped \/ g \in lone)
  BY <1>4, Zenon
<1>6. InPersist(g)
  BY <1>2 DEF InPersist
<1>7. ~overlapped' => g \in lone
  BY <1>1, <1>5, <1>6 DEF Solitude
<1>8. /\ pc'[g] = "idle" /\ \A h \in Goroutines : h # g => pc'[h] = pc[h]
      /\ pc' \in [Goroutines -> {"idle", "launch", "snapshot", "open", "write", "rename"}]
      /\ snap' \in [Goroutines -> SUBSET Models]
  BY <1>1, <1>2 DEF SFTypeOK
<1>9. tmp' \in Inodes \cup {NoFile} /\ file' \in Inodes \cup {NoFile}
  BY <1>1, <1>3 DEF SFTypeOK
<1>10. data' \in [Inodes -> Contents] /\ (tmp # NoFile => data'[tmp] = data[tmp])
  <2>1. tmp # NoFile => tmp \in Inodes /\ tmp # file
    BY <1>1 DEF SFTypeOK, Paths
  <2>2. Freed(file) \in [Inodes -> Contents] /\ (tmp # NoFile => Freed(file)[tmp] = data[tmp])
    BY <1>1, <2>1, ContentsFacts DEF Freed, SFTypeOK
  <2>3. data' = data \/ data' = Freed(file)
    BY <1>3
  <2> QED BY <1>1, <2>2, <2>3 DEF SFTypeOK
<1>11. SFTypeOK'
  BY <1>1, <1>2, <1>5, <1>8, <1>9, <1>10 DEF SFTypeOK
<1>12. lone' = {} /\ Solitude'
  BY <1>1, <1>2, <1>5, <1>6, SolitudeAfter
<1>13. Paths'
  BY <1>1, <1>2, <1>3, <1>8 DEF Paths
<1>14. Progress'
  BY <1>12 DEF Progress
<1>15. ~overlapped' => file' # NoFile /\ data'[file'] = Specs(snap[g])
  BY <1>1, <1>2, <1>3, <1>7, <1>10 DEF Progress
<1>16. Tracks'
  <2> SUFFICES ASSUME ~Pending', ~overlapped' PROVE Agrees(Saved)'
    BY <1>12 DEF Tracks
  <2>1. ~Pending
    BY <1>2, <1>8 DEF Pending
  <2>2. Agrees(snap[g])
    BY <1>1, <1>7, <2>1 DEF Tracks
  <2>3. Saved' = snap[g]
    BY <1>15, ContentsFacts DEF Saved
  <2> QED BY <1>2, <2>2, <2>3 DEF Agrees
<1>17. CompleteUnlessOverlapped'
  BY <1>15, ContentsFacts DEF CompleteUnlessOverlapped, FileComplete
<1> QED BY <1>11, <1>12, <1>13, <1>14, <1>16, <1>17 DEF SFInv

(* A persist that fails leaves the state file as it was: a lone one has only the
   temporary file open. *)
LEMMA PersistFailsKeeps ==
    ASSUME SFInv, NEW g \in Goroutines, PersistFails(g)
    PROVE  SFInv'
<1>1. /\ SFTypeOK /\ Solitude /\ Paths /\ Progress /\ Tracks
      /\ CompleteUnlessOverlapped
  BY DEF SFInv
<1>2. /\ InPersist(g) /\ pc' = [pc EXCEPT ![g] = "idle"]
      /\ snap' = [snap EXCEPT ![g] = {}] /\ fd' = [fd EXCEPT ![g] = NoFile]
      /\ lone' = lone \ {g} /\ unsaved' = Models
      /\ UNCHANGED <<want, unstarted, tmp, file, crashes, overlapped>>
  BY DEF PersistFails
<1>3. data' = data \/ (pc[g] = "write" /\ data' = [data EXCEPT ![fd[g]] = Mixed])
  BY DEF PersistFails
<1>4. /\ pc'[g] = "idle" /\ \A h \in Goroutines : h # g => pc'[h] = pc[h] /\ fd'[h] = fd[h]
      /\ pc' \in [Goroutines -> {"idle", "launch", "snapshot", "open", "write", "rename"}]
      /\ snap' \in [Goroutines -> SUBSET Models]
      /\ fd' \in [Goroutines -> Inodes \cup {NoFile}]
  BY <1>1, <1>2 DEF SFTypeOK
<1>5. data' \in [Inodes -> Contents]
  BY <1>1, <1>3, ContentsFacts DEF SFTypeOK
<1>6. SFTypeOK'
  BY <1>1, <1>2, <1>4, <1>5 DEF SFTypeOK
<1>7. lone' = {} /\ Solitude'
  BY <1>1, <1>2, SolitudeAfter
<1>8. Paths'
  BY <1>1, <1>2, <1>4 DEF Paths
<1>9. Progress'
  BY <1>7 DEF Progress
<1>10. Tracks'
  <2>1. Saved' \in SUBSET Models
    <3>1. file' # NoFile => data'[file'] \in Contents
      BY <1>6 DEF SFTypeOK
    <3>2. \A d \in Contents : d.names \in SUBSET Models
      BY DEF Contents, Specs, Truncated, Mixed
    <3> QED BY <3>1, <3>2 DEF Saved
  <2>2. Agrees(Saved)'
    BY <1>1, <1>2, <2>1 DEF Agrees, SFTypeOK
  <2> QED BY <1>7, <2>2 DEF Tracks
<1>11. CompleteUnlessOverlapped'
  <2> SUFFICES ASSUME ~overlapped', file' # NoFile PROVE (data[file].ok)'
    BY DEF CompleteUnlessOverlapped, FileComplete
  <2>1. g \in lone /\ file \in Inodes /\ data[file].ok
    BY <1>1, <1>2 DEF Solitude, SFTypeOK, CompleteUnlessOverlapped, FileComplete
  <2>2. pc[g] = "write" => fd[g] \in Inodes /\ fd[g] # file
    BY <1>1, <2>1, StateFileAssumption DEF Progress, Paths
  <2>3. data'[file] = data[file]
    BY <1>1, <1>3, <2>1, <2>2 DEF SFTypeOK
  <2> QED BY <1>2, <2>1, <2>3
<1> QED BY <1>6, <1>7, <1>8, <1>9, <1>10, <1>11 DEF SFInv

(* A crash leaves the directory as it is, and whatever the file names Restore
   has still to start. *)
LEMMA CrashKeeps ==
    ASSUME SFInv, Crash
    PROVE  SFInv'
<1>1. /\ SFTypeOK /\ Solitude /\ Paths /\ Progress /\ Tracks
      /\ CompleteUnlessOverlapped
  BY DEF SFInv
<1>2. /\ crashes < MaxCrashes /\ crashes' = crashes + 1 /\ want' = {} /\ unsaved' = {}
      /\ unstarted' = (IF file # NoFile /\ data[file].ok THEN data[file].names ELSE {})
      /\ pc' = [g \in Goroutines |-> "idle"]
      /\ snap' = [g \in Goroutines |-> {}]
      /\ fd' = [g \in Goroutines |-> NoFile]
      /\ lone' = {}
      /\ UNCHANGED <<data, tmp, file, overlapped>>
  BY DEF Crash
<1>3. file # NoFile => data[file] \in Contents
  BY <1>1 DEF SFTypeOK
<1>4. file # NoFile /\ data[file].ok => data[file].names \in SUBSET Models
  BY <1>3, OkIsSpecs
<1>5. unstarted' \in SUBSET Models
  BY <1>2, <1>4
<1>6. crashes' \in 0..MaxCrashes
  BY <1>1, <1>2, StateFileAssumption DEF SFTypeOK
<1>7. SFTypeOK'
  BY <1>1, <1>2, <1>5, <1>6 DEF SFTypeOK
<1>8. Solitude' /\ Paths' /\ Progress'
  BY <1>1, <1>2 DEF Solitude, Paths, Progress, InPersist
<1>9. CompleteUnlessOverlapped'
  BY <1>1, <1>2 DEF CompleteUnlessOverlapped, FileComplete
<1>10. Tracks'
  <2>1. ~overlapped' => Saved' = unstarted'
    BY <1>1, <1>2 DEF CompleteUnlessOverlapped, FileComplete, Saved
  <2> QED BY <1>2, <2>1 DEF Tracks, Agrees
<1> QED BY <1>7, <1>8, <1>9, <1>10 DEF SFInv

LEMMA SFNextInv == SFInv /\ [SFNext]_sfvars => SFInv'
<1> SUFFICES ASSUME SFInv, [SFNext]_sfvars PROVE SFInv'
  OBVIOUS
<1>1. /\ want \in SUBSET Models /\ unstarted \in SUBSET Models /\ unsaved \in SUBSET Models
      /\ Restorer \in Goroutines /\ Writers \subseteq Goroutines
      /\ \A g \in Goroutines : pc[g] = "idle" => pc = [pc EXCEPT ![g] = "idle"]
  BY DEF SFInv, SFTypeOK, Goroutines
<1>2. ASSUME NEW g \in Writers, NEW n \in Models, AddModel(g, n) \/ DropModel(g, n)
      PROVE  SFInv'
  <2>1. g \in Goroutines /\ want \cup {n} \in SUBSET Models /\ want \ {n} \in SUBSET Models
        /\ unsaved \cup {n} \in SUBSET Models
    BY <1>1
  <2>2. CASE AddModel(g, n)
    <3>1. /\ pc[g] = "idle" /\ pc' = [pc EXCEPT ![g] = "launch"] /\ ~InPersist(g)
          /\ want' = want \cup {n} /\ unsaved' = unsaved \cup {n}
          /\ UNCHANGED <<unstarted, snap, fd, data, tmp, file, crashes, lone, overlapped>>
      BY <2>2 DEF AddModel, InPersist
    <3>2. /\ unsaved \cup unstarted \subseteq unsaved' \cup unstarted'
          /\ want' \ (unsaved' \cup unstarted') = want \ (unsaved' \cup unstarted')
      BY <3>1
    <3> QED BY <1>1, <2>1, <3>1, <3>2, OutsideKeeps
  <2>3. CASE DropModel(g, n)
    <3>1. /\ pc' = [pc EXCEPT ![g] = "snapshot"] /\ ~InPersist(g) /\ want' = want \ {n}
          /\ UNCHANGED <<unstarted, snap, fd, data, tmp, file, crashes, lone, overlapped, unsaved>>
      BY <2>3 DEF DropModel, history, InPersist
    <3> QED BY <1>1, <2>1, <3>1, OutsideKeeps
  <2> QED BY <1>2, <2>2, <2>3
<1>3. ASSUME NEW g \in Writers, Refresh(g) PROVE SFInv'
  <2>1. /\ g \in Goroutines /\ pc' = [pc EXCEPT ![g] = "snapshot"] /\ ~InPersist(g)
        /\ UNCHANGED <<want, unstarted, snap, fd, data, tmp, file, crashes, lone, overlapped, unsaved>>
    BY <1>1, <1>3 DEF Refresh, history, InPersist
  <2> QED BY <1>1, <2>1, OutsideKeeps
<1>4. ASSUME NEW g \in Goroutines, LaunchFails(g) PROVE SFInv'
  <2>1. /\ pc[g] # "snapshot" /\ pc' = [pc EXCEPT ![g] = "idle"] /\ ~InPersist(g)
        /\ UNCHANGED <<want, unstarted, snap, fd, data, tmp, file, crashes, lone, overlapped, unsaved>>
    BY <1>4 DEF LaunchFails, history, InPersist
  <2> QED BY <1>1, <2>1, OutsideKeeps
<1>5. ASSUME NEW g \in Goroutines, Persist(g) PROVE SFInv'
  BY <1>5, TakeSnapshotKeeps, OpenTmpKeeps, WriteTmpKeeps, RenameKeeps, PersistFailsKeeps
     DEF Persist
<1>6. ASSUME NEW n \in Models, RestoreNext(n) \/ RestoreRefused(n) PROVE SFInv'
  <2>1. /\ want \cup {n} \in SUBSET Models /\ unsaved \cup {n} \in SUBSET Models
        /\ unstarted \ {n} \in SUBSET Models
    BY <1>1
  <2>2. /\ pc[Restorer] = "idle" /\ ~InPersist(Restorer)
        /\ \/ pc' = [pc EXCEPT ![Restorer] = "launch"] /\ want' = want \cup {n}
           \/ pc' = [pc EXCEPT ![Restorer] = "idle"] /\ want' = want
        /\ unstarted' = unstarted \ {n} /\ unsaved' = unsaved \cup {n}
        /\ UNCHANGED <<snap, fd, data, tmp, file, crashes, lone, overlapped>>
    BY <1>1, <1>6 DEF RestoreNext, RestoreRefused, InPersist
  <2>3. /\ unsaved \cup unstarted \subseteq unsaved' \cup unstarted'
        /\ want' \ (unsaved' \cup unstarted') = want \ (unsaved' \cup unstarted')
    BY <2>2
  <2> QED BY <1>1, <2>1, <2>2, <2>3, OutsideKeeps
<1>7. CASE Crash
  BY <1>7, CrashKeeps
<1>8. CASE UNCHANGED sfvars
  <2>1. UNCHANGED <<want, unstarted, pc, snap, fd, data, tmp, file, crashes, lone, overlapped, unsaved>>
    BY <1>8 DEF sfvars
  <2> QED BY <2>1 DEF SFInv, SFTypeOK, Solitude, InPersist, Paths, Progress, Tracks, Agrees, Pending,
                      Saved, CompleteUnlessOverlapped, FileComplete
<1> QED BY <1>2, <1>3, <1>4, <1>5, <1>6, <1>7, <1>8 DEF SFNext

(* A persist that no other overlaps has the directory to itself, whatever a
   crash or earlier overlaps have left in it. *)
THEOREM SFInvariant == SFSpec => []SFInv
<1>1. SFInit => SFInv
  BY SFInitInv
<1>2. SFInv /\ [SFNext]_sfvars => SFInv'
  BY SFNextInv
<1> QED BY <1>1, <1>2, PTL DEF SFSpec

(* The variables of StateFile keep their types. *)
THEOREM SFTypeCorrect == SFSpec => []SFTypeOK
<1>1. SFInv => SFTypeOK
  BY DEF SFInv
<1> QED BY <1>1, SFInvariant, PTL

(* persist writes a temporary file and renames it: unless two persists have
   overlapped since the last that ran alone, instances.json can be parsed at
   every moment, however many crashes there were. *)
THEOREM FileParses == SFSpec => []CompleteUnlessOverlapped
<1>1. SFInv => CompleteUnlessOverlapped
  BY DEF SFInv
<1> QED BY <1>1, SFInvariant, PTL

(* ... and when nothing is under way it names exactly the desired models, which
   the next Restore starts, but for names whose Start failed, or whose persist
   met an error, since the last snapshot. *)
THEOREM FileIsCurrent == SFSpec => []CurrentUnlessOverlapped
<1>1. SFInv => CurrentUnlessOverlapped
  <2> SUFFICES ASSUME SFInv, ~overlapped, Quiescent PROVE FileCurrent
    BY DEF CurrentUnlessOverlapped
  <2>1. ~Pending /\ unstarted = {} /\ \A g \in Goroutines : ~InPersist(g)
    BY DEF Quiescent, Pending, InPersist
  <2>2. Agrees(Saved)
    BY <2>1 DEF SFInv, Tracks
  <2> QED BY <2>1, <2>2 DEF Agrees, FileCurrent
<1> QED BY <1>1, SFInvariant, PTL

=============================================================================
