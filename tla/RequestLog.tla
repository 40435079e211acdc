------------------------------ MODULE RequestLog ------------------------------
(***************************************************************************)
(* The gateway's request log (internal/store/store.go, stats.go) and the   *)
(* background jobs on it (internal/gateway/server.go).                     *)
(*                                                                         *)
(* Handlers put a record of each finished request on a bounded channel;    *)
(* one writer goroutine batches them into the requests table.  A boot job  *)
(* and a periodic loop aggregate the table into hourly and daily buckets,  *)
(* and the loop purges raw rows past the retention window.  At shutdown    *)
(* the channel is closed while handlers may still be running; the gateway  *)
(* is then started again on the same database.                             *)
(*                                                                         *)
(* An aggregate is modelled by the set of rows it counts, for one model.   *)
(* Each SQL statement is a step: there is one connection for writes.       *)
(***************************************************************************)
EXTENDS Integers, FiniteSets

CONSTANTS
    Records,    \* request records
    ChanCap,    \* capacity of the channel (8192 in the code)
    MaxBatch,   \* rows per transaction (256)
    HourLen,    \* the two bucket sizes, in units of time
    DayLen,
    LookBack,   \* how far back the minutely rollup goes (two hours)
    Retention,  \* age at which raw rows are purged
    MaxTime     \* bound: the clock stops here

ASSUME RequestLogAssumption ==
    /\ ChanCap \in Nat \ {0} /\ MaxBatch \in Nat \ {0}
    /\ HourLen \in Nat \ {0} /\ DayLen \in Nat \ {0}
    /\ LookBack \in Nat /\ Retention \in Nat /\ LookBack <= Retention
    /\ MaxTime \in Nat
    /\ IsFiniteSet(Records)

VARIABLES
    now,      \* the clock
    phase,    \* serving, draining (signal received), closing (channel closed), closed
    ts,       \* start time of each request, -1 before
    queue,    \* records in the channel
    batch,    \* records the writer holds
    table,    \* rows of requests
    hourly,   \* stats_hourly: the rows each bucket counts
    daily,    \* stats_daily
    job,      \* the boot job and the loop: what they execute
    dropped,  \* records refused by a full channel (s.dropped)
    failed,   \* records of batches whose transaction failed
    late,     \* records of handlers that outlived the channel
    purged,   \* history: rows deleted by Purge
    counted   \* history: rows that have been in a daily bucket

vars == <<now, phase, ts, queue, batch, table, hourly, daily, job,
          dropped, failed, late, purged, counted>>

log == <<ts, queue, batch, dropped, failed, late>>
stats == <<hourly, daily, counted>>

Time == 0..MaxTime
Jobs == {"boot", "loop"}

(* (ts/1000/size)*size *)
Bucket(t, size) == (t \div size) * size

Quiet == [pc |-> "idle", kind |-> "none", since |-> 0]

Rollup(kind, since) == [pc |-> "hourly", kind |-> kind, since |-> since]

Init ==
    /\ now = 0 /\ phase = "serving"
    /\ ts = [r \in Records |-> -1]
    /\ queue = {} /\ batch = {} /\ table = {}
    /\ hourly = [b \in Time |-> {}] /\ daily = [b \in Time |-> {}]
    /\ job = [boot |-> Rollup("boot", -Retention), loop |-> Quiet]
    /\ dropped = {} /\ failed = {} /\ late = {}
    /\ purged = {} /\ counted = {}

Logged == queue \cup batch \cup table \cup purged \cup dropped \cup failed \cup late

Running(r) == ts[r] >= 0 /\ r \notin Logged

-----------------------------------------------------------------------------
(* Requests *)

Begin(r) ==
    /\ phase = "serving" /\ ts[r] = -1
    /\ ts' = [ts EXCEPT ![r] = now]
    /\ UNCHANGED <<now, phase, queue, batch, table, stats, job, dropped, failed, late, purged>>

(* Log never blocks.  On a closed channel the send panics; the handler's
   recovery swallows it. *)
Log(r) ==
    /\ Running(r)
    /\ \/ /\ phase \in {"serving", "draining"} /\ Cardinality(queue) < ChanCap
          /\ queue' = queue \cup {r}
          /\ UNCHANGED <<dropped, late>>
       \/ /\ phase \in {"serving", "draining"} /\ Cardinality(queue) >= ChanCap
          /\ dropped' = dropped \cup {r}
          /\ UNCHANGED <<queue, late>>
       \/ /\ phase \in {"closing", "closed"}
          /\ late' = late \cup {r}
          /\ UNCHANGED <<queue, dropped>>
    /\ UNCHANGED <<now, phase, ts, batch, table, stats, job, failed, purged>>

-----------------------------------------------------------------------------
(* The writer *)

(* One record into the batch; a full batch is flushed before the next. *)
Receive(r) ==
    /\ r \in queue /\ Cardinality(batch) < MaxBatch
    /\ queue' = queue \ {r}
    /\ batch' = batch \cup {r}
    /\ UNCHANGED <<now, phase, ts, table, stats, job, dropped, failed, late, purged>>

(* A mutant: the batch is not emptied. *)
FlushKeeps ==
    /\ batch # {}
    /\ table' = table \cup batch
    /\ UNCHANGED <<now, phase, ts, queue, batch, stats, job, dropped, failed, late, purged>>

(* The batch is full, the tick has come or the channel is closed and empty. *)
Flush ==
    /\ batch # {}
    /\ table' = table \cup batch
    /\ batch' = {}
    /\ UNCHANGED <<now, phase, ts, queue, stats, job, dropped, failed, late, purged>>

FlushFails ==
    /\ batch # {}
    /\ failed' = failed \cup batch
    /\ batch' = {}
    /\ UNCHANGED <<now, phase, ts, queue, table, stats, job, dropped, late, purged>>

WriterEnds ==
    /\ phase = "closing" /\ queue = {} /\ batch = {}
    /\ phase' = "closed"
    /\ UNCHANGED <<now, log, table, stats, job, purged>>

(* A mutant: only full batches are written. *)
WriterOnFull ==
    \/ \E r \in Records : Receive(r)
    \/ Cardinality(batch) >= MaxBatch /\ (Flush \/ FlushFails)
    \/ WriterEnds

Writer == (\E r \in Records : Receive(r)) \/ Flush \/ FlushFails \/ WriterEnds

-----------------------------------------------------------------------------
(* Rollup and Purge *)

(* INSERT OR REPLACE of the buckets that have a row at or after since. *)
Aggregate(t, size, since) ==
    [b \in Time |->
        LET src == {r \in table : ts[r] >= since /\ Bucket(ts[r], size) = b}
        IN  IF src = {} THEN t[b] ELSE src]

(* A mutant: the minutely pass starts at the current hour less one. *)
MinuteRollupShort ==
    /\ phase = "serving" /\ job.loop.pc = "idle"
    /\ job' = [job EXCEPT !.loop = Rollup("minute", now - HourLen)]
    /\ UNCHANGED <<now, phase, log, table, stats, purged>>

MinuteRollup ==
    /\ phase = "serving" /\ job.loop.pc = "idle"
    /\ job' = [job EXCEPT !.loop = Rollup("minute", now - LookBack)]
    /\ UNCHANGED <<now, phase, log, table, stats, purged>>

PurgeTick ==
    /\ phase = "serving" /\ job.loop.pc = "idle"
    /\ job' = [job EXCEPT !.loop = Rollup("purge", now - Retention)]
    /\ UNCHANGED <<now, phase, log, table, stats, purged>>

RollHourly(j) ==
    /\ job[j].pc = "hourly"
    /\ hourly' = Aggregate(hourly, HourLen, job[j].since)
    /\ job' = [job EXCEPT ![j].pc = "daily"]
    /\ UNCHANGED <<now, phase, log, table, daily, counted, purged>>

RollDaily(j) ==
    /\ job[j].pc = "daily"
    /\ daily' = Aggregate(daily, DayLen, job[j].since)
    /\ counted' = counted \cup {r \in table : ts[r] >= job[j].since}
    /\ job' = [job EXCEPT ![j] = IF @.kind = "purge" THEN [@ EXCEPT !.pc = "purge"] ELSE Quiet]
    /\ UNCHANGED <<now, phase, log, table, hourly, purged>>

Purge ==
    /\ job.loop.pc = "purge"
    /\ LET old == {r \in table : ts[r] < job.loop.since} IN
        /\ table' = table \ old
        /\ purged' = purged \cup old
    /\ job' = [job EXCEPT !.loop = Quiet]
    /\ UNCHANGED <<now, phase, log, stats>>

(* A statement fails, or its context is cancelled: the rest is skipped. *)
JobFails(j) ==
    /\ job[j].pc # "idle"
    /\ job' = [job EXCEPT ![j] = Quiet]
    /\ UNCHANGED <<now, phase, log, table, stats, purged>>

-----------------------------------------------------------------------------
(* The process *)

Advance ==
    /\ now < MaxTime
    /\ now' = now + 1
    /\ UNCHANGED <<phase, log, table, stats, job, purged>>

(* A signal: no new requests, and the jobs' context is cancelled. *)
Signal ==
    /\ phase = "serving"
    /\ phase' = "draining"
    /\ job' = [j \in Jobs |-> Quiet]
    /\ UNCHANGED <<now, log, table, stats, purged>>

(* The handlers have ended or the grace period is over: Close. *)
Close ==
    /\ phase = "draining"
    /\ phase' = "closing"
    /\ UNCHANGED <<now, log, table, stats, job, purged>>

(* The process has exited, and with it any handler still running. *)
Restart ==
    /\ phase = "closed"
    /\ phase' = "serving"
    /\ late' = late \cup {r \in Records : Running(r)}
    /\ job' = [job EXCEPT !.boot = Rollup("boot", now - Retention)]
    /\ UNCHANGED <<now, ts, queue, batch, table, stats, dropped, failed, purged>>

Next ==
    \/ \E r \in Records : Begin(r) \/ Log(r)
    \/ Writer
    \/ MinuteRollup \/ PurgeTick \/ Purge
    \/ \E j \in Jobs : RollHourly(j) \/ RollDaily(j) \/ JobFails(j)
    \/ Advance \/ Signal \/ Close \/ Restart

Spec == Init /\ [][Next]_vars

(* The writer goroutine runs when it can; its ticker fires. *)
FairSpec == Spec /\ WF_vars(Writer)

-----------------------------------------------------------------------------
(* Correctness *)

TypeOK ==
    /\ now \in Time
    /\ phase \in {"serving", "draining", "closing", "closed"}
    /\ ts \in [Records -> Time \cup {-1}]
    /\ queue \subseteq Records /\ Cardinality(queue) <= ChanCap
    /\ batch \subseteq Records /\ Cardinality(batch) <= MaxBatch
    /\ table \subseteq Records /\ purged \subseteq Records /\ counted \subseteq Records
    /\ hourly \in [Time -> SUBSET Records] /\ daily \in [Time -> SUBSET Records]
    /\ job \in [Jobs -> [pc : {"idle", "hourly", "daily", "purge"},
                         kind : {"none", "boot", "minute", "purge"}, since : Int]]
    /\ dropped \subseteq Records /\ failed \subseteq Records /\ late \subseteq Records

(* Every record has one fate: waiting, stored (or purged since), or one of the
   three recorded losses.  None is stored twice, and once the writer has ended
   none is left behind in the channel or in its batch. *)
Fates == <<queue, batch, table, purged, dropped, failed, late>>

OneFate ==
    /\ \A k, l \in DOMAIN Fates : k # l => Fates[k] \cap Fates[l] = {}
    /\ phase = "closed" => queue \cup batch = {}

(* A trickle of traffic is not stranded in memory: a record that was accepted
   leaves the channel and the batch, also when the channel is closed. *)
AcceptedIsWritten ==
    \A r \in Records : r \in queue ~> r \notin queue \cup batch

(* While a bucket lies within the look-back of the minutely rollup it never
   loses a row it has counted, whichever of the boot rollup, the minutely one
   and the one before a purge recomputes it, and however late. *)
RecentBucketsGrow ==
    [][\A b \in Time : b >= now - LookBack =>
          hourly[b] \subseteq hourly'[b] /\ daily[b] \subseteq daily'[b]]_vars

-----------------------------------------------------------------------------
(* "Purge drops raw request rows past the retention window.  Rollups are kept."
   (stats.go, line 94): a row that has been counted in a daily bucket is still
   counted there once it is purged.  Violated: the rollup before the purge
   recomputes the bucket the cutoff falls into from the rows past the cutoff
   only, and the purge then deletes the others. *)
RollupsAreKept ==
    \A r \in purged \cap counted : r \in daily[Bucket(ts[r], DayLen)]

=============================================================================
