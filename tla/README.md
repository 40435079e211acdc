# llmfast: models, checks and proofs

llmfast is a gateway in front of self-hosted inference engines, and an agent on
each GPU machine that starts and watches those engines. This directory holds
TLA+ models of its stateful parts and of its planner, the TLC runs that check them on small
instances and the TLAPS proofs that hold for every instance. `PROJECT.json`
maps each definition to the source lines it models and lists the runs, the
mutants (one plausible bug per property, which TLC must catch), the findings and
the hazards.

## 1. The system

Two programs and what they share:

| Part | Source | State | Operations |
|---|---|---|---|
| Engine supervisor | `internal/agent/supervisor.go` | `instances` map, an `Instance` per start (state, desired, stopping, cmd, exited, restarts), engine processes | Start, launch, waitForReady, reap, Stop, Remove, StopAll, Restore |
| Agent state file | same, `persist`/`Restore` | `instances.json`, `instances.json.tmp` | snapshot, write, rename; read at boot |
| Agent API | `internal/agent/server.go` | none of its own | install, stop, remove, info, logs, cache |
| Backend pool | `internal/upstream/pool.go` | static and dynamic `Backend` objects (limit, in-flight counter, health), three routing tables | Acquire, Release, SyncNode, DropNode, probe |
| Node manager | `internal/gateway/nodes.go` | status per node (reachable, last seen) | poll, install/stop/remove calls to the agent |
| Inference proxy | `internal/gateway/proxy.go`, `sse.go` | one lease, one stream and one keep-alive goroutine per request | serveInference, relayStream, relayJSON, finishStream |
| Request log | `internal/store/store.go`, `stats.go`, `usage.go` | a channel, a batch, SQLite tables, hourly and daily rollups | Log, writeLoop, insertBatch, Close, Rollup, Purge |
| Keys, limits | `internal/gateway/auth.go`, `internal/store/keys.go` | key cache, rate limiter's windows | lookup, put, purge, allow, sweep |
| Accounts | `internal/gateway/adminauth.go`, `account.go`, `internal/store/users.go` | admin users, users, sessions | setup, login, change password, delete, create key |
| Provisioning, catalog | `internal/gateway/provision.go`, `catalog.go`, `internal/config/write.go` | model files, configuration in memory, catalog snapshot | install, publish, uninstall, reload |
| Planner | `internal/modelspec`, `internal/agent/engine.go` | none of its own; a page on the operator's screen | Fetch, PlanFor, inspect, install, BuildCommand |
| Pricing, documents, benchmark | `internal/modeldoc`, `economics.go`, `benchmark.go` | none | renderings and arithmetic |

How they interact. The agent's HTTP handlers call the supervisor concurrently;
each launch leaves two goroutines behind that call back into it. The gateway's
poller asks every agent for its instances, and mirrors the ready ones into the
pool while requests are acquiring and releasing slots there. A request passes
through the key cache and the rate limiter, takes a slot, is relayed, and ends
in the request log. The admin interface changes the configuration, the catalog
and, through the node manager, the agents.

What is hard here: goroutines that act on an instance after it has been
replaced, stopped or restarted; values captured under a lock and used after it
(`cmd` and `exited` in `stop`, `stopping` in `reap`, the snapshot in `persist`);
the lock-free admission counter under limits that move; routing objects replaced
under the leases on them; files written by several goroutines through one
temporary path; crashes between system calls; a client, an engine and a
keep-alive goroutine acting on one response; handlers that run several SQL
statements with no transaction around them; pages and answers that are old when
they are used. `PROJECT.json` lists each hazard
at its line.

## 2. Modules

| Module | What it is |
|---|---|
| `Supervisor` | the supervisor, the engines and the agent's main goroutine |
| `StateFile` | persist and Restore, a system call at a time, with crashes |
| `Admission` | abstract specification of admission: a semaphore that does not queue |
| `Pool` | the backend pool; implements `Admission` |
| `NodeManager` | polls, grace period and status of the nodes, over `Pool` |
| `Proxy` | one inference request: handler, client, engine, keep-alive goroutine |
| `RequestLog` | the request log, its writer, the rollups and the purge |
| `Keys` | the key cache, revocation, the rate limiter |
| `Accounts` | setup, sign-in, sessions, passwords, deletion, key quota |
| `Provisioning` | model files, configuration in memory, catalog, engines |
| `Planner` | checkpoint and host to plan, page, request and engine command |
| `FleetProofs` | proofs about `Pool` and `NodeManager`: invariants, that the one implements `Admission` and the other `Pool` |
| `AgentProofs` | proofs about `Supervisor` and `StateFile` |
| `ProxyProofs`, `RequestLogProofs`, `KeysProofs`, `AccountsProofs`, `ProvisioningProofs`, `PlannerProofs` | the inductive invariant of each of these modules, and its theorems |
| `MC*` | symmetry sets and constant functions for TLC |

### Supervisor

`inst` holds the `Instance` objects, `instances` the map, `proc` the operating
system's view of each launched process, `reap` and `waiter` the program counters
of the two goroutines of each launch, `op` what each API handler (and main) is
executing, `disk` the names in the state file, `phase` and `todo` main's progress.

A step is what one goroutine does between two points where another can run: a
critical section of `s.mu` or `in.mu`, a wait, a system call. So `Start` is
`StartInsert` (up to the unlock of `s.mu`) then `StartLaunch` or
`StartLaunchFails`; `stop` is `StopLookup`, `StopMark` (under `in.mu`: set
`stopping`, capture `cmd` and `exited`), possibly `StopKill`, `StopFinish`, and
for `Remove` also `RemoveDelete`; `reap` is `ReapExit`, then `ReapStopped`, or
`ReapGiveUp`, or `ReapRestart` followed after the backoff by `ReapRelaunch` or
`ReapRelaunchFails`; `waitForReady` is any number of polls ending in
`ProbeQuits`, `ProbeAnswered` then `ProbeApply`, or `ProbeExpires`.

The channel `in.exited` is replaced at each restart; `gen` numbers the channels
an instance has had and `closed` says whether the current one is closed. A
process and its record in `in.cmd` are created in one step: a stop that falls
between `cmd.Start` and the assignment sees the same instance as one that falls
before the launch. Time is abstract: a grace period, a backoff or a readiness
deadline may end at any moment. SIGTERM is not a step of its own, since an
engine may exit at any moment, signalled or not. `persist` is taken whole with
the step it ends; `StateFile` takes it apart.

### StateFile

Each writer changes the desired set and persists: snapshot, open and truncate
the temporary file, write it, rename it. A Start whose launch fails leaves the
model desired and does not persist; a Start of Restore may also be refused; each
system call of persist may fail, which ends it. Files are inodes, so a descriptor
follows a rename. `Crash` may come between any two steps; it is the restart too
(Restore reads the file). Two history variables record whether persists have
overlapped (the guarantees differ), a third, `unsaved`, the names the file may
not have because a Start or a persist failed since the last snapshot.

### Pool and Admission

`Acquire` is taken apart into its atomic accesses: one candidate of the scan per
step, the load of the counter, the comparison with the limit, the swap. Each
`Backend` is an object with an identity: a poll that finds the same key and URL
keeps the object and rewrites its limit, any other report makes a fresh one, and
an object is reused by the model only when no table and no request refers to it.
Weights are compared by cross-multiplication. The history variable `room` holds,
for each request, the candidates that have been healthy and below their limit
at every moment since the request read the tables, and `lowered` those of them whose
limit a poll lowered, between the request's load and its comparison, to the count it
had loaded: the one race in which Acquire refuses a replica that had room all along.

`Admission` is the promise: a request is quoted a limit and granted a slot only
while fewer requests hold one than it was quoted. `Pool` implements it under the
mapping that reads the holders from the leases, not from the counter.

### NodeManager

It EXTENDS `Pool`: a poll's two halves are `PollAnswers` (status under the
manager's lock) and `PollSyncs` (the pool's `SyncNode` with the entries made of
that answer), or `PollFails` and, past the grace period, `PollDrops`. `PollAll`
starts a round only when every poll of the last one has ended, as `wg.Wait` has
it. `silent` is the time since the node was last seen, `info` its last answer,
`engine` what it really runs, which the environment changes at will. `Serve` lets
the pool's requests and probes go on in between.

### Proxy

`h` holds the handler's locals and program counter, `client` whether the client is
there, has left, or has been noticed to have left (the context is cancelled),
`upstream` the call to the engine, `sw` the SSE writer with its sticky error, `ka`
the keep-alive goroutine, `got` what the client's connection took, `log` the
records. Frames are told apart as `relayStream` does: output, usage, `[DONE]`,
anything else. A step is a read, a write or flush under the writer's lock, or one
of the deferred calls, so a hang-up, a timeout, a failure of the engine or a
keep-alive write can come between any two. `Deliver` is the pair of steps that wait
for the client to read, the write of a frame and that of a forwarded body: the server
sets no write deadline, so neither the timeout nor anything else of the gateway's
ends such a write while the client stays connected. What the key check, the limiter and the
pool answer is a choice, since `Keys` and `Pool` model them. One request suffices:
requests share nothing else.

### RequestLog

`queue` is the channel, `batch` what `writeLoop` holds, `table` the raw rows,
`hourly` and `daily` the rollup tables, `job` the progress of the boot rollup and
of the periodic loop, `phase` the process (serving, draining after a signal,
closing once the channel is closed, closed). A step is one channel operation or
one SQL statement (the store writes through one connection), so a `Rollup` is
`RollHourly` then `RollDaily`, and the purge tick a rollup followed by `Purge`;
rows may arrive, the clock may advance and the other job may run between them.
An aggregate is the set of rows it counts: sums, averages and percentiles are
functions of that set. `INSERT OR REPLACE` replaces exactly the buckets that have
a selected row, which is what `Aggregate` says. `dropped`, `failed` and `late`
hold the records the code gives up (full channel, failed transaction, handler
that outlived `Close`); `purged` and `counted` are history variables. One model,
one key: rows of different models never share a bucket.

### Keys

`row` is a key's row, `cache` the cached lookups with their age, `window` the rate
limiter's windows. A lookup is `PresentHit`, or `PresentMiss` (read of the
database) followed by `Put`; a revocation is `ChangeRow` followed by `Purge`. The
four interleave freely; `Lag` bounds the time between a read and its entry, and is
what the age of an answer is bounded by besides the lifetime. `Sweep` drops the
windows that have ended. The history variables `valid`, `doubt` and `raced` state what
an answer may be based on; `passed[k][t]` is the number of requests of key `k` that went
through in the last `t + 1` ticks, up to a window's time.

### Accounts

Each action is one SQL statement, or one password check, of a handler: no handler
has a transaction. Any of them can fail (`StatementFails`): its context is the
request's, so it ends when the client hangs up or the handler's own timeout passes,
and what the handler did before stays. Passwords are version numbers. `setups`,
`unread`, `crossed`, `unevicted` and `met` record that the races and failures the code
leaves open have happened, so that the properties can say exactly what holds around
them. Foreign keys are enforced (`PRAGMA foreign_keys=ON` on the one connection that
writes): a deletion takes the sessions along. The keys table has none, so the keys of
a deleted account stay. `Register` with kind `flag` is `llmfast -add-admin`, which
needs no administrator and resets the password of an account that exists.

### Provisioning

`file` and `tmp` are the model directory, with files as what is in them (a model, a
partial document, nothing); `cfg` and `catalog` are swapped one after the other
under `reloadMu`; `engines` is what the agents of the nodes were given to run and
still have. An operation is a request (`Begin`), the agent's answer (`Start`,
`StartFails`), the file written a system call at a time (`Find`, `Create`, `Write`,
`Rename`) or deleted (`Locate`, `Unlink`), any of which can fail (`DiskFails`), and a
reload (`Lock`, one `LoadFile` per file, `Invalid` or the two swaps). Only the reload is
under a lock. `mixed` holds the files two operations were on at the same time.

An agent refuses a model that is starting or ready on its node and takes one that it
does not have, that failed or that was stopped, by `adminNodeStop` for one; that state
changes without the gateway (it is `Supervisor`'s), so `Start` and `StartFails` are both
possible at any time. So a model can be installed a second time, on the same node or
on another, over an entry that is visible; `ready` holds the models that were published
since the last install that went through. `VisibleHasEngine` speaks of an engine that
an agent was given and that no uninstall removed: that it is up is not promised by
anything here, and a stopped or failed engine stays visible in the catalog (its routes
go, which is `NodeManager`'s).

### Planner

Pure operators for `Fetch`'s reading of `config.json` (`LanguageConfig`,
`AttentionLayout`, `Schemes`), for `PlanFor` (tensor parallelism, precision,
weights, cache, context, sequences, alternatives) and for the command lines, and
three actions around them: a host changes (`Rehost`), the operator inspects
(`Inspect`), the page shown is installed (`Install`), which may be an old page and
may meet a HuggingFace that does not answer. `cmd` is the command launched last and is cleared by the next
inspection or change. Memory is in MiB, parameters in Mi, contexts in Ki tokens,
bytes per parameter in hundredths. The quotients are floors, as in the code, but of
these units: the result is the code's where a token's cache is a multiple of 1 KiB and
no odd number of Ki tokens is halved, and else rounded more coarsely. Cards have some
memory (`perGPUVRAM` takes a minimum of 0 for "not set yet"; the agent reports no card
whose memory it could not read). `Install` asks for a plan that fits, which is the page's
doing (its button is disabled), and for a context, which is `adminInstall`'s. Where the
code ranges over a Go map, the model takes any order.

## 3. What the runs check

| Run | Shows | Bounds, and why they are enough |
|---|---|---|
| `supervisor_races` | one engine per instance and never unwatched; the restart budget; a stop's wait covers its target; a stop that catches an engine is final | 1 name, 2 instances, 3 launches, 2 callers, 1 restart: a start, a crash, a restart, a stop of either launch, a removal and a second start of the name while the goroutines of the first are still there |
| `supervisor_live` | a stop that catches an engine returns, for good; a stale ready is repaired | 2 names, 1 port (so that a start is refused), 2 instances, 2 launches, 1 caller |
| `state_file` | the file is complete and current while persists do not overlap, with failed launches, failed system calls and 2 crashes | 2 names, 2 writers and Restore, 3 inodes (file, temporary, an open orphan; a writer that needs a fourth waits, the proofs do without the bound) |
| `pool_safety` | counters equal leases; static limits hold; a rejection is justified; refinement of `Admission` | 3 requests (with 2 no refusal meets a lowered limit), a static slot, an engine whose limit is 1 (unset) or 2, two ports, 2 objects |
| `nodes` | routing tables agree and mirror the last report within the grace period; a lost engine leaves the routes, a ready one is served | 2 nodes with an engine each, one limited below its engine, grace of 1 tick: one node can be slow, silent or gone while the other answers |
| `proxy` | no upstream call outlives the lease; the client sees a prefix of the stream without gaps; the status fits what happened; what was delivered is charged for; one record per request; a hang-up frees the slot, and so does the timeout unless the client stays and does not read; the keep-alive goroutine ends, with the same exception | 1 request, streams of up to 3 lines, so that output, usage and `[DONE]` come in every order, cut at every point |
| `request_log` | every record has one fate and none is stranded at shutdown; an accepted record leaves memory; recent buckets never lose a row | 2 records, channel of 1, batches of up to 2, an hour of 1 time unit, a day of 3, look-back 2, retention 3, clock up to 4: a full channel, a bucket cut by the cutoff, a purge and a restart |
| `request_log_rollups_are_kept` | the finding of section 4 | the same |
| `keys` | how old the answer of the cache can be; a revocation no lookup races with takes effect at once; at most twice the limit in any window's time | 1 key, 1 token that is none, 2 requests, 2 operators, cache of 1 entry, lifetime and lag of 1 tick, windows of 2 ticks, limit 2: an expiry, an overflow of the cache and a window boundary each fall between any two steps |
| `accounts` | administrators are lost, or made by setup, only in the races named; a password change whose second statement was executed evicts every older session but one signed in across it, those an earlier change failed to evict included; the quota is exceeded only by concurrent or failed counts | 2 accounts, 2 handlers, quota 1, 3 keys and a failed count for one account, 2 password changes of the other |
| `provisioning` | catalog, configuration and directory agree when nothing is in progress; files are complete unless two operations met on them; a visible model was published since its last complete install, and a node was given an engine for it that no uninstall removed | 2 ids (one declared in config.yaml), 2 files, 2 nodes, 2 operations: an install over a visible entry on either node, an uninstall that names the wrong node. `VIEW` leaves out temporary files nobody has chosen, and the engines and publications of models that the properties exempt: no guard reads them, and an exemption is for good |
| `planner` | a plan fits the memory it reserves; a plan runs on every card of the host; the command's flags are those the checkpoint calls for, also from an old page or for another host, unless an old page meets a checkpoint that cannot be read again; more memory never makes a plan worse | 11 checkpoints (dense, quantized in five ways, hybrid, nested, MLA with experts, local) on 29 hosts and 3 contexts, chosen at the code's case boundaries |

Every property has a mutant in `PROJECT.json`: the definition of a mapped action
changed the way a plausible bug would, defined just before it, which makes TLC
report that property. The type invariants are proved (section 5) and not listed in the
runs; the inductive invariants were checked by TLC on the same instances before they
were proved.

Fairness. Supervisor: the agent's goroutines run when they can, which Go's
scheduler gives them, and the kernel carries out a SIGKILL. Nothing is assumed
of API callers, of an engine that was not killed, or of the two-hour deadline.
Request log: the writer goroutine runs when it has a record, a batch or a closed
channel (its ticker fires every interval); nothing is assumed of handlers, jobs,
signals or the clock. Node manager: the ticker ticks, the clock runs, a poll ends
(the client's timeout is 20 s); that a poll ever succeeds is not assumed. Proxy: the
handler's own steps are taken, a broken connection is noticed by the server, and the
keep-alive goroutine sooner or later chooses the closed channel (strong fairness:
its select has a second case that is ready from time to time); nothing is assumed of
the engine or of a client that is there: a write to it, the relay's or the
keep-alive's, need not return (there is no WriteTimeout), and is only taken to end
once the client has left.
The other modules state safety properties only and assume nothing.

Deadlock is not checked in the supervisor's runs (the agent exits, and calls are
finite in number) nor in the proxy's (the request ends); it is in all others.

## 4. Where code and comments disagree

`RollupsAreKept` has a run and a finding: the rollup before a purge selects rows past
the cutoff only, so it replaces the bucket the cutoff falls into by a partial one, and
the purge then deletes the rows that could restore it. The minutely rollup cuts the
bucket its look-back falls into in the same way; that one heals at the next boot or
pre-purge rollup, as long as the rows are there.

The following statements are kept as definitions marked "Violated", each with the
line it quotes. Adding one to the named cfg as an INVARIANT (`StopReturns`, `TimeoutFreesSlot` and `RevokedNow` as
PROPERTY) makes TLC print the trace.

| Definition | cfg | What happens |
|---|---|---|
| `Supervisor.StoppedMeansDown` | `SupervisorRaces` | a Stop between the unlock in Start and its launch finds no process; the launch then clears `stopping` and the engine runs; a Remove there leaves an engine no entry of the map refers to |
| `Supervisor.StopReturns` | `SupervisorLive` | a stop during the restart backoff signals the dead process and waits for the channel of the launch to come; StopAll at shutdown hangs the same way |
| `StateFile.NeverTruncated` | `StateFile` | overlapping persists share the temporary file; they can also leave an older snapshot than the last one taken |
| `StateFile.DesiredIsSaved` | `StateFile` | a Start whose launch fails leaves its instance desired and returns without a persist: the file lacks it until somebody else persists |
| `StateFile.RestoreKeepsTheRest` | `StateFile` | each Start of Restore persists the map of the moment, so a crash meanwhile forgets the instances not started yet |
| `Pool.NeverOverlooked` | `PoolSafety` | a request loads 1 of 2, the slot is given back and a poll lowers the limit to 1 before it compares: it is refused although the replica had room at every moment |
| `Pool.EngineWithinLimit` | `PoolSafety`, with `Limits = {0, 1}` | a node dropped and reported again gets fresh counters while the old leases run on |
| `Proxy.HangUpIsNotOurs` | `Proxy` | a hang-up that cancels the read of a non-streaming body is logged as the upstream's 502 |
| `Proxy.TimeoutFreesSlot` | `Proxy` | the request's deadline ends the upstream call but no write, and there is no WriteTimeout: a client that stays connected and stops reading keeps its slot past the timeout |
| `Provisioning.UninstallIsFinal` | `Provisioning`, without its `VIEW` line (the definition asks for engines that the view leaves out) | a publish that read the entry before an uninstall writes it back after it |
| `Keys.RevokedNow` | `Keys` | a request that read the row before a revocation enters it after the purge |
| `Accounts.LastAdminStays` | `Accounts` | two deletions count two administrators and remove one each |
| `Accounts.ChangeAlwaysEvicts` | `Accounts` | the request ends, or times out, between the update and the deletion of the sessions: the password is new, the answer is an error, and whoever was signed in stays so |
| `Planner.StalePageIsHarmless` | `Planner` | HuggingFace does not answer the install, which then goes by an old page: prefix caching on a hybrid model, a scheme the checkpoint names itself |
| `Planner.OnlyRealSchemes` | `Planner` | on a P40 an unquantized checkpoint is planned in fp32, and `buildVLLM` leaves out `bf16` and `fp16` only: the command carries `--quantization fp32` |
| `Planner.LocalReadAlike` | `Planner` | `fetchLocal` asks the wrapper, not the language model's part, for the attention layout |

Smaller disagreements met while modelling, none of them with a property:

* `relayStream` goes on reading after `[DONE]`, so lines behind it are relayed too;
  a keep-alive write that has begun may end after the handler has returned.
* `adminInstall` ignores the stage of the request: an install is always hidden.
* Planner: a plan that fits grants one sequence even where its window does not fit
  the cache; two Blackwell cards are in `isBlackwell` and not in
  `gpuHasFP8`, and are planned as Ampere; a compressed-tensors checkpoint with
  groups of different widths is read by whichever group the map yields first;
  `downloadBytes` ignores a known checkpoint size; a CPU plan whose weights do not
  fit keeps four sequences; a fifth GPU can lower the tensor-parallel size.
* The readiness deadline leaves the engine of a failed instance running (and
  watched), and an answer of a crashed launch can mark the next one ready, until
  the reaper corrects it (`ReadyIsRepaired`).

## 5. What is proved

### The supervisor (`AgentProofs`)

For any sets of names, instances, processes, callers and
ports and any restart budget:

* `TypeCorrect`, `OneEngine`, `StopWaits`: `Spec => []TypeOK`,
  `[]OneEnginePerInstance`, `[]StopOutlivesItsTarget`;
* `BudgetHolds`: `[]RestartBudget`;
* `StopFinal`: `Spec => StopIsFinal`.

None of the invariants is inductive alone. `IInv` adds: an absent instance is
referred to by nothing (`AbsentUnused`); a process belongs to an instance that
exists, and `in.cmd` to its instance (`ProcessesOwned`); a reaper that is still
active belongs to the process of `in.cmd`, and one past its wait to a dead one
(`ReapersUnique`), so a relaunch never finds a live engine; a Start about to
launch is the only one for an instance with no process yet (`LaunchesUnique`);
a live engine's channel is open (`ChannelOpen`), so a stop that sees it closed
has outlived it; and a stop that waits has a process and a channel number that
exist (`StopTargets`). The proof has one lemma per action, over three frame
lemmas (a step that only sets a state, one of a caller, one of a prober).

`BudgetHolds` needs one more invariant. The property counts launches and the code
restarts, so `Budget` relates the two: an instance has had at most one launch more than
it has counted restarts, and while a reaper backs off, having counted the restart it has
yet to make, no more launches than restarts.

### The fleet (`FleetProofs`)

The pool, for any fleet, limits, weights and finite number of requests:

* `TypeCorrect`, `CountersExact`, `StaticLimit`: `[]TypeOK`, `[]SlotsMatchLeases`,
  `[]StaticWithinLimit`;
* `Justified`: `[]RejectionJustified`;
* `Routes`: `[]RoutingConsistent`;
* `Refinement`: `Spec => Semaphore!Spec`.

The counters are not inductive alone. `IInv` adds: a request that tries or holds a
backend has one (`TargetsExist`); configured limits do not move and bound their
counters (`StaticFixed`); a request about to swap holds a count below the limit it
compared with (`QuotesHonest`), which is why an unchanged counter makes the swap
safe. Steps inside Acquire share one frame lemma (`NoSlotMoves`), probes and polls
another (`TablesMove`); a poll's fresh object has no lease because no request
refers to it. `Justified` needs a second invariant, `RoomTracked`: what each
program point of Acquire has ruled out among the candidates that had room all
along and no limit lowered under the request. `Routes` needs only the types: `SyncTables` and `DropTables` say what a poll
and a drop leave registered, for the node and for the others, and a fresh object is
none that a table refers to, so that no two keys share one. In `Refinement` a
comparison that succeeds is the abstract quote, the swap the grant or the
withdrawal, a poll a change of limits. The assumption on the constants is
`PoolAssumption`: limits are positive for configured backends and natural for
reported ones, and requests are finitely many.

The node manager, for any fleet, grace period and limits (`NodeAssumption`: the
limits of nodes and engines are limits a poll can report):

* `DrivesPool`: `NMSpec => Spec`, the manager's steps are the pool's, so that every
  theorem about the pool holds with the manager on top; it rests on the types and on
  `EntriesReport`, what a poll makes of an answer is a report the pool expects;
* `NodeRoutes`: `NMSpec => []RoutingConsistent`, from the two;
* `Mirrors`: `NMSpec => []MirrorsReport`. The inductive invariant restates it about the
  registered object of each key (`Mirrored`) and adds that a drop is only under way
  when the node has been silent for too long (`DropsAreLate`): without it a drop
  could hit a node that has just answered.

### The state file (`AgentProofs`)

For any names, writers, inodes and number of crashes (`StateFileAssumption`):

* `SFTypeCorrect`; `FileParses`: `[]CompleteUnlessOverlapped`; `FileIsCurrent`:
  `[]CurrentUnlessOverlapped`.

A crash makes the file on disk the starting point of everything, so
`CompleteUnlessOverlapped` is part of the inductive invariant, `SFInv`, itself. It adds:
a persist that is alone really is, and as long as none have overlapped every persist is
(`Solitude`); the temporary file is never the state file and a writer has an inode open
(`Paths`); the file a lone persist writes is the temporary one, and what it renames is
its complete snapshot (`Progress`); and while no change waits for its persist, that
snapshot, or the file if no persist is under way, agrees with what is wanted but for the
names in `unsaved` and those Restore has still to start (`Tracks`). A persist that was
overlapped has none of these, which is where the comment in the code goes wrong
(section 4).

### The proxy (`ProxyProofs`)

For any requests and streams of any bounded length (`MaxFrames` natural):

* `TypeCorrect`; `UpstreamLeased`: `[]UpstreamWithinLease`; `OneRecord`: `[]LoggedOnce`;
  `StatusFits`: `[]StatusFitsOutcome`; `PrefixDelivered`: `[]NoGaps`; `ChargeDelivered`:
  `[]ChargedForDelivered`.

`IInv` says of each request what the handler holds at each program point (`Holds`), what
it has logged (`Records`), that the cause and the status in hand are those of the events
so far (`Blamed`: in particular, a write fails only for a client that left), how the
tokens read and the tokens delivered differ by the frame in hand (`Charged`), and that
the writer's sticky error is the only reason why a frame that was read is not delivered
(`Delivered`, `InHand`). Lemmas about appending a frame, counting tokens and the place of
a frame among those shown carry the arithmetic; frame lemmas cover the client, the clock
and the keep-alive goroutine, whose steps touch few of these.

### The request log (`RequestLogProofs`)

For any records, channel and batch sizes, bucket lengths, look-back and retention
(`RequestLogAssumption`: lengths positive, and the look-back within the retention, as
the two hours and the retention in days are):

* `TypeCorrect`; `FateIsOne`: `[]OneFate`; `BucketsGrow`: `Spec => RecentBucketsGrow`.

`IInv` holds the fates apart pair by pair (`Disjoint`) and has the writer end empty-handed
(`NothingLeft`); for the buckets: they count rows that are or were in the table, of
their own span (`BucketsHonest`); a job that is under way started with a window that
still covers the look-back, and the one before a purge with one that covers the
retention (`WindowsCover`), however long it has been waiting; and what was purged is
past the retention (`PurgedOld`). So a rollup that recomputes a bucket within the
look-back sees every row that bucket has counted.

### Keys and limits (`KeysProofs`)

For any keys, tokens, requests, operators, lifetimes and limits (`KeysAssumption`: the
window and the limit are positive, and the value that stands for a missing entry is no
entry):

* `TypeCorrect`; `BurstHolds`: `[]BurstBounded`; `RecentAnswers`:
  `Spec => AnswersAreRecent`; `RevokedThen`: `Spec => RevokedAtOnce`.

For the answers, `IInv` relates what is read and not yet entered (`ReadsRecent`,
`RevokedReads`) and what is in the cache (`EntriesRecent`, `RevokedEntries`) to the last
moment it was true (`Dated`): an entry is younger than its content by at most the lag of
a lookup, and one that outlived a revocation is either a race the model has recorded or
has its purge still to come. For the limiter the bound on a window's time says nothing of
the step that comes next, so `Windows` states it for every number of ticks: as far back as
the current window reaches, what went through is what the window counted; further
back, at most another limit's worth.

### Accounts (`AccountsProofs`)

For any accounts, handlers, quota and password changes (`AccountsAssumption`: both sets
are finite and there is a handler, without which `Cardinality(Procs) - 1` has no meaning):

* `TypeCorrect`; `AdminRemains`: `[]AdminsCounted`; `OldSessionsGo`:
  `[]PasswordChangeEvicts`; `QuotaHolds`: `[]QuotaNearlyKept`.

`OldSessionsGo` is about changes whose second statement was executed; after one that
failed the account is in `unevicted` until the next one succeeds, which then evicts
everybody. `IInv` adds what a handler between two statements may rely on: the password it holds is
the account's unless a change crossed it (`PasswordHeld`); a deletion that counted two
administrators still finds two, and the setup that succeeded was the last one pending,
until two of them meet (`CountsHold`); and the quota counts the keys to come of the
handlers that are past their count (`QuotaWithPending`), an argument on cardinalities.

### Provisioning (`ProvisioningProofs`)

For any ids, files, nodes, operations and any naming of files (`ProvisioningAssumption`: what
stands for "none" is none of the values it is told from):

* `TypeCorrect`; `FilesComplete`: `[]CompleteFiles`; `CatalogFollows`:
  `[]CatalogCurrent`; `EngineBehindCatalog`: `[]VisibleHasEngine`.

`IInv` says what an operation knows at each stage and that a reload is under way in
exactly the operation that holds `reloadMu` (`Staged`); that a document is in the file its
id names (`Placed`); that a file no two operations met on has one at most, which writes a
complete document of its own (`Exclusive`, `Writes`). `CatalogCurrent` speaks of quiet
states only; `Current` is what makes it inductive: as long as nobody is about to reload,
what the reload under way has read so far is still what is there, and with none under way
the catalog is the directory. `VisibleHasEngine` needs the same of every copy of a
document, on disk, in memory, in the catalog and in a reload under way (`Backing`), and
that an uninstall has cleared them all, one after the other, before it removes the engine,
and an install over an existing entry has hidden them all before it is complete
(`Leaves`).

### The planner (`PlannerProofs`)

For any checkpoints, hosts and contexts asked for (`PlannerAssumption`: sizes are natural
numbers, 0 where they are missing, a card has some memory, and the value that stands for "none" is no name of a
format):

* `Invariant`: `[]IInv`; `PlansFit`: `[]WithinMemory`; `CardsRunIt`: `[]RunsOnEveryCard`;
  `CommandFollowsCheckpoint`: `[]FlagsFollowCheckpoint`; `MemoryHelps`:
  `Spec => MoreMemoryNeverHurts`.

The state is small and the data is not, so most of the module is lemmas about operators.
`IInv` says that the page is the inspection of this checkpoint for a host there was
(`Shown`) and has `FlagsFollowCheckpoint`, which speaks of the step of an install and so is its own
strengthening; the other properties then follow from what `Inspected` computes.

* Trimming is a recursion, and the library's induction theorems take the predicate as a
  parameter, which the provers cannot instantiate. It is done by least elements instead:
  `LeastElement` (from well-foundedness of the naturals) turns each induction into the
  first number at which a claim fails. `HalvesExist` shows that the function `Trim` chooses
  exists, `TrimStep` unfolds it, `TrimBounds` keeps the result between 1 and the context
  asked for, `TrimGrows` makes it monotone in the room.
* `Packed`: what fits by the code's two divisions fits by multiplication. With
  `UsableIs` (90% of the smallest card times the tensor-parallel size is at most that of any
  card) and `CardPlanIs` (a plan without blockers is one that has capacity) it gives
  `PlansFit`.
* `CardPlanGrows` and `HostPlanGrows` compare the plans of two hosts step by step: same
  parallelism, same format, no less room, so no shorter a context (`TrimGrows`) and, at
  the same context, no fewer requests. `MemoryHelps` compares any two pages, not only those
  a step apart.
* `ReadAlike`: whichever group of a compressed-tensors checkpoint the map order yields,
  every reading agrees on the layout and on whether the checkpoint is quantized, which is all
  the command takes from it. It is where an install corrected from a second reading could
  have contradicted the page.

### Only model-checked

Liveness (`CaughtStopSucceeds`, `StoppedForGood`, `ReadyIsRepaired`, `AcceptedIsWritten`,
`CancelFreesSlot`, `KeepAliveEnds`, `LostEngineLeaves`, `ReadyEngineServed`): fairness and
ENABLED are out of TLAPS's reach. The definitions marked "Violated" are
false, so nothing is proved of them.

## 6. Plan

Done: all modules of the first plan; a proof of every safety property that a run checks,
state invariants, action properties and the refinement. Left: the login limiter
(`SetAccountDisabled` has no caller and is left out).

## 7. Not modelled

Formatting, logging, HTML, SQL text and the queries of the dashboard, HTTP transport
tuning; parsing of YAML, model metadata and hardware files; speed estimates, prices
and warnings of the planner and the heuristics that recognise a quantized repository
by its name; the freetoken engine and docker command lines; the benchmark's load
generator, whose workers share a slice of results under a mutex and nothing else; floating-point economics;
the provider document; the weight cache's delete; failures of the disk other than a
crash; the web interface and the mock engine.
