--------------------------- MODULE RequestLogProofs ---------------------------
(***************************************************************************)
(* Proofs about RequestLog, for any records, any capacities of channel and *)
(* batch, any bucket sizes, and any look-back within any retention.        *)
(***************************************************************************)
EXTENDS RequestLog, TLAPS, FiniteSetTheorems

(* The seven fates exclude each other, pair by pair. *)
Disjoint ==
    /\ queue \cap (batch \cup table \cup purged \cup dropped \cup failed \cup late) = {}
    /\ batch \cap (table \cup purged \cup dropped \cup failed \cup late) = {}
    /\ table \cap (purged \cup dropped \cup failed \cup late) = {}
    /\ purged \cap (dropped \cup failed \cup late) = {}
    /\ dropped \cap (failed \cup late) = {}
    /\ failed \cap late = {}

(* Once the writer has ended nothing is left for it. *)
NothingLeft == phase = "closed" => queue = {} /\ batch = {}

(* Only a request that has begun is logged. *)
LoggedBegan == \A r \in Logged : ts[r] >= 0

(* A bucket counts rows that were stored, of its own span of time. *)
BucketsHonest ==
    \A b \in Time :
        /\ \A r \in hourly[b] : r \in table \cup purged /\ Bucket(ts[r], HourLen) = b
        /\ \A r \in daily[b] : r \in table \cup purged /\ Bucket(ts[r], DayLen) = b

(* A rollup, however late it runs, was started with a window that covers the
   look-back, and the one before a purge with a window that covers what stays. *)
WindowsCover ==
    \A j \in Jobs :
        /\ job[j].pc # "idle" => job[j].since <= now - LookBack
        /\ job[j].kind = "purge" => job[j].since <= now - Retention
        /\ job[j].pc = "purge" => job[j].kind = "purge"

(* What was purged is past the retention, for good. *)
PurgedOld == \A r \in purged : ts[r] < now - Retention

IInv ==
    /\ TypeOK
    /\ Disjoint
    /\ NothingLeft
    /\ LoggedBegan
    /\ BucketsHonest
    /\ WindowsCover
    /\ PurgedOld

-----------------------------------------------------------------------------
(* The operators *)

(* A bucket starts no later than the times it stands for. *)
LEMMA BucketFloor ==
    ASSUME NEW t \in Nat, NEW size \in Nat \ {0}
    PROVE  Bucket(t, size) \in Int /\ Bucket(t, size) <= t
<1>1. /\ t \div size \in Int /\ t % size \in Int
      /\ t = size * (t \div size) + (t % size) /\ 0 <= t % size
  OBVIOUS
<1>2. size * (t \div size) = (t \div size) * size
  BY <1>1
<1> QED BY <1>1, <1>2 DEF Bucket

(* Fates lists the seven sets, so that its entries exclude each other exactly
   when the sets do. *)
LEMMA FatesDisjoint ==
    ASSUME Disjoint
    PROVE  \A k, l \in DOMAIN Fates : k # l => Fates[k] \cap Fates[l] = {}
<1>1. DOMAIN Fates = 1..7
  BY DEF Fates
<1>2. /\ Fates[1] = queue /\ Fates[2] = batch /\ Fates[3] = table /\ Fates[4] = purged
      /\ Fates[5] = dropped /\ Fates[6] = failed /\ Fates[7] = late
  BY DEF Fates
<1>3. \A k \in 1..7 : k = 1 \/ k = 2 \/ k = 3 \/ k = 4 \/ k = 5 \/ k = 6 \/ k = 7
  OBVIOUS
<1> QED BY <1>1, <1>2, <1>3 DEF Disjoint

(* An aggregate is a table of sets of rows; a bucket that it changes counts
   the stored rows of its span from the start of the window. *)
LEMMA AggregateEntry ==
    ASSUME NEW t \in [Time -> SUBSET Records], NEW size, NEW since, table \subseteq Records
    PROVE  /\ Aggregate(t, size, since) \in [Time -> SUBSET Records]
           /\ \A b \in Time :
                 \/ Aggregate(t, size, since)[b] = t[b]
                 \/ Aggregate(t, size, since)[b] =
                       {r \in table : ts[r] >= since /\ Bucket(ts[r], size) = b}
<1> DEFINE Src(b) == {r \in table : ts[r] >= since /\ Bucket(ts[r], size) = b}
<1>1. Aggregate(t, size, since) = [b \in Time |-> IF Src(b) = {} THEN t[b] ELSE Src(b)]
  BY DEF Aggregate
<1>2. \A b \in Time : Src(b) \in SUBSET Records
  OBVIOUS
<1> HIDE DEF Src
<1>3. /\ Aggregate(t, size, since) \in [Time -> SUBSET Records]
      /\ \A b \in Time : \/ Aggregate(t, size, since)[b] = t[b]
                           \/ Aggregate(t, size, since)[b] = Src(b)
  BY <1>1, <1>2
<1> QED BY <1>3 DEF Src

(* A record more, a record less. *)
LEMMA OneMoreOrLess ==
    ASSUME NEW S, IsFiniteSet(S), NEW x
    PROVE  /\ Cardinality(S) \in Nat
           /\ Cardinality(S \cup {x}) \in Nat /\ Cardinality(S \cup {x}) <= Cardinality(S) + 1
           /\ Cardinality(S \ {x}) \in Nat /\ Cardinality(S \ {x}) <= Cardinality(S)
<1>1. Cardinality(S) \in Nat
  BY FS_CardinalityType
<1>2. /\ IsFiniteSet(S \cup {x})
      /\ Cardinality(S \cup {x}) = IF x \in S THEN Cardinality(S) ELSE Cardinality(S) + 1
  BY FS_AddElement
<1>3. /\ IsFiniteSet(S \ {x})
      /\ Cardinality(S \ {x}) = IF x \in S THEN Cardinality(S) - 1 ELSE Cardinality(S)
  BY FS_RemoveElement
<1>4. Cardinality(S \ {x}) \in Nat
  BY <1>3, FS_CardinalityType
<1> QED BY <1>1, <1>2, <1>3, <1>4

(* The records of the two jobs. *)
LEMMA JobTypes == ASSUME TypeOK PROVE
    /\ now \in Nat
    /\ \A r \in Records : ts[r] \in Int /\ (ts[r] >= 0 => ts[r] \in Nat)
    /\ \A j \in Jobs : job[j].since \in Int /\ job[j].pc \in {"idle", "hourly", "daily", "purge"}
                       /\ job[j].kind \in {"none", "boot", "minute", "purge"}
    /\ "boot" \in Jobs /\ "loop" \in Jobs
BY RequestLogAssumption DEF TypeOK, Time, Jobs

(* Every step keeps the types. *)
LEMMA TypeStep == IInv /\ [Next]_vars => TypeOK'
<1> SUFFICES ASSUME IInv, [Next]_vars PROVE TypeOK'
  OBVIOUS
<1>1. CASE UNCHANGED vars
  BY <1>1 DEF IInv, TypeOK, vars, log, stats
<1>2. ASSUME NEW r \in Records, Begin(r) PROVE TypeOK'
  BY <1>2, RequestLogAssumption, JobTypes DEF IInv, TypeOK, Begin, log, stats, Rollup, Quiet, Jobs, Time
<1>3. ASSUME NEW r \in Records, Log(r) PROVE TypeOK'
  <2>1. IsFiniteSet(queue) /\ IsFiniteSet(batch)
    BY FS_Subset, RequestLogAssumption DEF IInv, TypeOK
  <2>2. Cardinality(queue) \in Nat /\ Cardinality(queue \cup {r}) \in Nat
        /\ Cardinality(queue \cup {r}) <= Cardinality(queue) + 1
    BY <2>1, OneMoreOrLess
  <2>3. Cardinality(queue) < ChanCap => Cardinality(queue \cup {r}) <= ChanCap
    BY <2>2, RequestLogAssumption
  <2>4. queue' = queue \/ (Cardinality(queue) < ChanCap /\ queue' = queue \cup {r})
    BY <1>3 DEF Log
  <2>5. queue' \subseteq Records /\ Cardinality(queue') <= ChanCap
    BY <2>3, <2>4 DEF IInv, TypeOK
  <2>6. dropped' \subseteq Records /\ late' \subseteq Records
    BY <1>3 DEF IInv, TypeOK, Log
  <2> QED BY <1>3, <2>5, <2>6 DEF IInv, TypeOK, Log, stats
<1>4. ASSUME NEW r \in Records, Receive(r) PROVE TypeOK'
  <2>1. IsFiniteSet(queue) /\ IsFiniteSet(batch)
    BY FS_Subset, RequestLogAssumption DEF IInv, TypeOK
  <2>2. Cardinality(batch) \in Nat /\ Cardinality(batch \cup {r}) \in Nat
        /\ Cardinality(batch \cup {r}) <= Cardinality(batch) + 1
    BY <2>1, OneMoreOrLess
  <2>3. Cardinality(batch \cup {r}) <= MaxBatch
    BY <1>4, <2>2, RequestLogAssumption DEF Receive
  <2>4. /\ Cardinality(queue) \in Nat /\ Cardinality(queue \ {r}) \in Nat
        /\ Cardinality(queue \ {r}) <= Cardinality(queue)
    BY <2>1, OneMoreOrLess
  <2>5. Cardinality(queue \ {r}) <= ChanCap
    BY <2>4, RequestLogAssumption DEF IInv, TypeOK
  <2> QED BY <1>4, <2>3, <2>5 DEF IInv, TypeOK, Receive, stats
<1>5. CASE Flush
  <2>1. Cardinality({}) = 0 /\ 0 <= MaxBatch
    BY FS_EmptySet, RequestLogAssumption
  <2> QED BY <1>5, <2>1 DEF IInv, TypeOK, Flush, stats
<1>6. CASE FlushFails
  <2>1. Cardinality({}) = 0 /\ 0 <= MaxBatch
    BY FS_EmptySet, RequestLogAssumption
  <2> QED BY <1>6, <2>1 DEF IInv, TypeOK, FlushFails, stats
<1>7. CASE WriterEnds
  BY <1>7, RequestLogAssumption, JobTypes DEF IInv, TypeOK, WriterEnds, log, stats, Rollup, Quiet, Jobs, Time
<1>8. CASE MinuteRollup
  <2>1. job' \in [Jobs -> [pc : {"idle", "hourly", "daily", "purge"},
                         kind : {"none", "boot", "minute", "purge"}, since : Int]]
    <3>1. now - LookBack \in Int
      BY JobTypes, RequestLogAssumption DEF IInv
    <3> QED BY <1>8, <3>1 DEF IInv, TypeOK, MinuteRollup, Rollup, Quiet, Jobs
  <2> QED BY <1>8, <2>1 DEF IInv, TypeOK, MinuteRollup, log, stats
<1>9. CASE PurgeTick
  <2>1. job' \in [Jobs -> [pc : {"idle", "hourly", "daily", "purge"},
                         kind : {"none", "boot", "minute", "purge"}, since : Int]]
    <3>1. now - Retention \in Int
      BY JobTypes, RequestLogAssumption DEF IInv
    <3> QED BY <1>9, <3>1 DEF IInv, TypeOK, PurgeTick, Rollup, Quiet, Jobs
  <2> QED BY <1>9, <2>1 DEF IInv, TypeOK, PurgeTick, log, stats
<1>10. CASE Purge
  <2>1. job' \in [Jobs -> [pc : {"idle", "hourly", "daily", "purge"},
                         kind : {"none", "boot", "minute", "purge"}, since : Int]]
    BY <1>10 DEF IInv, TypeOK, Purge, Quiet, Jobs
  <2>2. table' \subseteq Records /\ purged' \subseteq Records
    BY <1>10 DEF IInv, TypeOK, Purge
  <2> QED BY <1>10, <2>1, <2>2 DEF IInv, TypeOK, Purge, log, stats
<1>11. ASSUME NEW j \in Jobs, RollHourly(j) PROVE TypeOK'
  <2>1. hourly' \in [Time -> SUBSET Records]
    BY <1>11, AggregateEntry DEF IInv, TypeOK, RollHourly
  <2> QED BY <1>11, <2>1 DEF IInv, TypeOK, RollHourly, log, stats
<1>12. ASSUME NEW j \in Jobs, RollDaily(j) PROVE TypeOK'
  <2>1. daily' \in [Time -> SUBSET Records]
    BY <1>12, AggregateEntry DEF IInv, TypeOK, RollDaily
  <2>2. counted' \subseteq Records
    BY <1>12 DEF IInv, TypeOK, RollDaily
  <2>3. [job[j] EXCEPT !.pc = "purge"] \in [pc : {"idle", "hourly", "daily", "purge"},
                         kind : {"none", "boot", "minute", "purge"}, since : Int]
    BY DEF IInv, TypeOK
  <2>4. job' \in [Jobs -> [pc : {"idle", "hourly", "daily", "purge"},
                         kind : {"none", "boot", "minute", "purge"}, since : Int]]
    BY <1>12, <2>3 DEF IInv, TypeOK, RollDaily, Quiet
  <2> QED BY <1>12, <2>1, <2>2, <2>4 DEF IInv, TypeOK, RollDaily, log, stats
<1>13. ASSUME NEW j \in Jobs, JobFails(j) PROVE TypeOK'
  BY <1>13, RequestLogAssumption, JobTypes DEF IInv, TypeOK, JobFails, log, stats, Rollup, Quiet, Jobs, Time
<1>14. CASE Advance
  BY <1>14, RequestLogAssumption, JobTypes DEF IInv, TypeOK, Advance, log, stats, Rollup, Quiet, Jobs, Time
<1>15. CASE Signal
  BY <1>15, RequestLogAssumption, JobTypes DEF IInv, TypeOK, Signal, log, stats, Rollup, Quiet, Jobs, Time
<1>16. CASE Close
  BY <1>16, RequestLogAssumption, JobTypes DEF IInv, TypeOK, Close, log, stats, Rollup, Quiet, Jobs, Time
<1>17. CASE Restart
  <2>1. job' \in [Jobs -> [pc : {"idle", "hourly", "daily", "purge"},
                         kind : {"none", "boot", "minute", "purge"}, since : Int]]
    <3>1. now - Retention \in Int
      BY JobTypes, RequestLogAssumption DEF IInv
    <3> QED BY <1>17, <3>1 DEF IInv, TypeOK, Restart, Rollup, Quiet, Jobs
  <2>2. late' \subseteq Records
    BY <1>17 DEF IInv, TypeOK, Restart
  <2> QED BY <1>17, <2>1, <2>2 DEF IInv, TypeOK, Restart, stats
<1> QED
  BY <1>1, <1>2, <1>3, <1>4, <1>5, <1>6, <1>7, <1>8, <1>9, <1>10, <1>11, <1>12, <1>13, <1>14, <1>15, <1>16, <1>17 DEF Next, Writer

(* No step gives a record a second fate: what it adds to one set it takes from
   another, or it is a record no set holds. *)
LEMMA DisjointStep == IInv /\ [Next]_vars => Disjoint'
<1> SUFFICES ASSUME IInv, [Next]_vars PROVE Disjoint'
  OBVIOUS
<1>1. CASE UNCHANGED vars
  BY <1>1 DEF IInv, Disjoint, vars
<1>2. ASSUME NEW r \in Records, Begin(r) PROVE Disjoint'
  BY <1>2 DEF IInv, Disjoint, Begin, log
<1>3. ASSUME NEW r \in Records, Log(r) PROVE Disjoint'
  BY <1>3 DEF IInv, Disjoint, Log, Running, Logged
<1>4. ASSUME NEW r \in Records, Receive(r) PROVE Disjoint'
  BY <1>4 DEF IInv, Disjoint, Receive, log
<1>5. CASE Flush
  BY <1>5 DEF IInv, Disjoint, Flush, log
<1>6. CASE FlushFails
  BY <1>6 DEF IInv, Disjoint, FlushFails, log
<1>7. CASE WriterEnds
  BY <1>7 DEF IInv, Disjoint, WriterEnds, log
<1>8. CASE MinuteRollup
  BY <1>8 DEF IInv, Disjoint, MinuteRollup, log
<1>9. CASE PurgeTick
  BY <1>9 DEF IInv, Disjoint, PurgeTick, log
<1>10. CASE Purge
  BY <1>10 DEF IInv, Disjoint, Purge, log
<1>11. ASSUME NEW j \in Jobs, RollHourly(j) PROVE Disjoint'
  BY <1>11 DEF IInv, Disjoint, RollHourly, log
<1>12. ASSUME NEW j \in Jobs, RollDaily(j) PROVE Disjoint'
  BY <1>12 DEF IInv, Disjoint, RollDaily, log
<1>13. ASSUME NEW j \in Jobs, JobFails(j) PROVE Disjoint'
  BY <1>13 DEF IInv, Disjoint, JobFails, log
<1>14. CASE Advance
  BY <1>14 DEF IInv, Disjoint, Advance, log
<1>15. CASE Signal
  BY <1>15 DEF IInv, Disjoint, Signal, log
<1>16. CASE Close
  BY <1>16 DEF IInv, Disjoint, Close, log
<1>17. CASE Restart
  BY <1>17 DEF IInv, Disjoint, Restart, Running, Logged
<1> QED
  BY <1>1, <1>2, <1>3, <1>4, <1>5, <1>6, <1>7, <1>8, <1>9, <1>10, <1>11, <1>12, <1>13, <1>14, <1>15, <1>16, <1>17 DEF Next, Writer

(* Nothing enters the channel once it is closed. *)
LEMMA NothingLeftStep == IInv /\ [Next]_vars => NothingLeft'
<1> SUFFICES ASSUME IInv, [Next]_vars PROVE NothingLeft'
  OBVIOUS
<1>1. CASE UNCHANGED vars
  BY <1>1 DEF IInv, NothingLeft, vars
<1>2. ASSUME NEW r \in Records, Begin(r) PROVE NothingLeft'
  BY <1>2 DEF IInv, NothingLeft, Begin, log
<1>3. ASSUME NEW r \in Records, Log(r) PROVE NothingLeft'
  BY <1>3 DEF IInv, NothingLeft, Log, log
<1>4. ASSUME NEW r \in Records, Receive(r) PROVE NothingLeft'
  BY <1>4 DEF IInv, NothingLeft, Receive, log
<1>5. CASE Flush
  BY <1>5 DEF IInv, NothingLeft, Flush, log
<1>6. CASE FlushFails
  BY <1>6 DEF IInv, NothingLeft, FlushFails, log
<1>7. CASE WriterEnds
  BY <1>7 DEF IInv, NothingLeft, WriterEnds, log
<1>8. CASE MinuteRollup
  BY <1>8 DEF IInv, NothingLeft, MinuteRollup, log
<1>9. CASE PurgeTick
  BY <1>9 DEF IInv, NothingLeft, PurgeTick, log
<1>10. CASE Purge
  BY <1>10 DEF IInv, NothingLeft, Purge, log
<1>11. ASSUME NEW j \in Jobs, RollHourly(j) PROVE NothingLeft'
  BY <1>11 DEF IInv, NothingLeft, RollHourly, log
<1>12. ASSUME NEW j \in Jobs, RollDaily(j) PROVE NothingLeft'
  BY <1>12 DEF IInv, NothingLeft, RollDaily, log
<1>13. ASSUME NEW j \in Jobs, JobFails(j) PROVE NothingLeft'
  BY <1>13 DEF IInv, NothingLeft, JobFails, log
<1>14. CASE Advance
  BY <1>14 DEF IInv, NothingLeft, Advance, log
<1>15. CASE Signal
  BY <1>15 DEF IInv, NothingLeft, Signal, log
<1>16. CASE Close
  BY <1>16 DEF IInv, NothingLeft, Close, log
<1>17. CASE Restart
  BY <1>17 DEF IInv, NothingLeft, Restart, log
<1> QED
  BY <1>1, <1>2, <1>3, <1>4, <1>5, <1>6, <1>7, <1>8, <1>9, <1>10, <1>11, <1>12, <1>13, <1>14, <1>15, <1>16, <1>17 DEF Next, Writer

(* A record is made for a request that has begun. *)
LEMMA LoggedBeganStep == IInv /\ [Next]_vars => LoggedBegan'
<1> SUFFICES ASSUME IInv, [Next]_vars PROVE LoggedBegan'
  OBVIOUS
<1>1. CASE UNCHANGED vars
  BY <1>1 DEF IInv, LoggedBegan, Logged, vars
<1>2. ASSUME NEW r \in Records, Begin(r) PROVE LoggedBegan'
  BY <1>2, JobTypes DEF IInv, TypeOK, LoggedBegan, Begin, Logged, Time
<1>3. ASSUME NEW r \in Records, Log(r) PROVE LoggedBegan'
  BY <1>3 DEF IInv, LoggedBegan, Log, Logged, Running
<1>4. ASSUME NEW r \in Records, Receive(r) PROVE LoggedBegan'
  BY <1>4 DEF IInv, LoggedBegan, Logged, Receive, log
<1>5. CASE Flush
  BY <1>5 DEF IInv, LoggedBegan, Logged, Flush, log
<1>6. CASE FlushFails
  BY <1>6 DEF IInv, LoggedBegan, Logged, FlushFails, log
<1>7. CASE WriterEnds
  BY <1>7 DEF IInv, LoggedBegan, Logged, WriterEnds, log
<1>8. CASE MinuteRollup
  BY <1>8 DEF IInv, LoggedBegan, Logged, MinuteRollup, log
<1>9. CASE PurgeTick
  BY <1>9 DEF IInv, LoggedBegan, Logged, PurgeTick, log
<1>10. CASE Purge
  BY <1>10 DEF IInv, LoggedBegan, Logged, Purge, log
<1>11. ASSUME NEW j \in Jobs, RollHourly(j) PROVE LoggedBegan'
  BY <1>11 DEF IInv, LoggedBegan, Logged, RollHourly, log
<1>12. ASSUME NEW j \in Jobs, RollDaily(j) PROVE LoggedBegan'
  BY <1>12 DEF IInv, LoggedBegan, Logged, RollDaily, log
<1>13. ASSUME NEW j \in Jobs, JobFails(j) PROVE LoggedBegan'
  BY <1>13 DEF IInv, LoggedBegan, Logged, JobFails, log
<1>14. CASE Advance
  BY <1>14 DEF IInv, LoggedBegan, Logged, Advance, log
<1>15. CASE Signal
  BY <1>15 DEF IInv, LoggedBegan, Logged, Signal, log
<1>16. CASE Close
  BY <1>16 DEF IInv, LoggedBegan, Logged, Close, log
<1>17. CASE Restart
  BY <1>17 DEF IInv, LoggedBegan, Restart, Logged, Running
<1> QED
  BY <1>1, <1>2, <1>3, <1>4, <1>5, <1>6, <1>7, <1>8, <1>9, <1>10, <1>11, <1>12, <1>13, <1>14, <1>15, <1>16, <1>17 DEF Next, Writer

(* A rollup counts what is in the table, and what leaves the table is purged. *)
LEMMA BucketsHonestStep == IInv /\ [Next]_vars => BucketsHonest'
<1> SUFFICES ASSUME IInv, [Next]_vars PROVE BucketsHonest'
  OBVIOUS
<1>1. CASE UNCHANGED vars
  BY <1>1 DEF IInv, BucketsHonest, vars
<1>2. ASSUME NEW r \in Records, Begin(r) PROVE BucketsHonest'
  <2>1. \A x \in table \cup purged : ts'[x] = ts[x]
    BY <1>2 DEF IInv, TypeOK, LoggedBegan, Begin, Logged
  <2> QED BY <1>2, <2>1 DEF IInv, BucketsHonest, Begin, stats
<1>3. ASSUME NEW r \in Records, Log(r) PROVE BucketsHonest'
  BY <1>3 DEF IInv, BucketsHonest, Log, log, stats
<1>4. ASSUME NEW r \in Records, Receive(r) PROVE BucketsHonest'
  BY <1>4 DEF IInv, BucketsHonest, Receive, log, stats
<1>5. CASE Flush
  BY <1>5 DEF IInv, BucketsHonest, Flush, log, stats
<1>6. CASE FlushFails
  BY <1>6 DEF IInv, BucketsHonest, FlushFails, log, stats
<1>7. CASE WriterEnds
  BY <1>7 DEF IInv, BucketsHonest, WriterEnds, log, stats
<1>8. CASE MinuteRollup
  BY <1>8 DEF IInv, BucketsHonest, MinuteRollup, log, stats
<1>9. CASE PurgeTick
  BY <1>9 DEF IInv, BucketsHonest, PurgeTick, log, stats
<1>10. CASE Purge
  BY <1>10 DEF IInv, BucketsHonest, Purge, log, stats
<1>11. ASSUME NEW j \in Jobs, RollHourly(j) PROVE BucketsHonest'
  <2>1. hourly \in [Time -> SUBSET Records] /\ table \subseteq Records
    BY DEF IInv, TypeOK
  <2>2. \A b \in Time : \/ hourly'[b] = hourly[b]
                         \/ hourly'[b] = {r \in table : ts[r] >= job[j].since /\ Bucket(ts[r], HourLen) = b}
    BY <1>11, <2>1, AggregateEntry DEF RollHourly
  <2> QED BY <1>11, <2>2 DEF IInv, BucketsHonest, RollHourly, log
<1>12. ASSUME NEW j \in Jobs, RollDaily(j) PROVE BucketsHonest'
  <2>1. daily \in [Time -> SUBSET Records] /\ table \subseteq Records
    BY DEF IInv, TypeOK
  <2>2. \A b \in Time : \/ daily'[b] = daily[b]
                         \/ daily'[b] = {r \in table : ts[r] >= job[j].since /\ Bucket(ts[r], DayLen) = b}
    BY <1>12, <2>1, AggregateEntry DEF RollDaily
  <2> QED BY <1>12, <2>2 DEF IInv, BucketsHonest, RollDaily, log
<1>13. ASSUME NEW j \in Jobs, JobFails(j) PROVE BucketsHonest'
  BY <1>13 DEF IInv, BucketsHonest, JobFails, log, stats
<1>14. CASE Advance
  BY <1>14 DEF IInv, BucketsHonest, Advance, log, stats
<1>15. CASE Signal
  BY <1>15 DEF IInv, BucketsHonest, Signal, log, stats
<1>16. CASE Close
  BY <1>16 DEF IInv, BucketsHonest, Close, log, stats
<1>17. CASE Restart
  BY <1>17 DEF IInv, BucketsHonest, Restart, log, stats
<1> QED
  BY <1>1, <1>2, <1>3, <1>4, <1>5, <1>6, <1>7, <1>8, <1>9, <1>10, <1>11, <1>12, <1>13, <1>14, <1>15, <1>16, <1>17 DEF Next, Writer

(* A window starts at a fixed distance from the clock, which only advances. *)
LEMMA WindowsCoverStep == IInv /\ [Next]_vars => WindowsCover'
<1> SUFFICES ASSUME IInv, [Next]_vars PROVE WindowsCover'
  OBVIOUS
<1>1. CASE UNCHANGED vars
  BY <1>1 DEF IInv, WindowsCover, vars
<1>2. ASSUME NEW r \in Records, Begin(r) PROVE WindowsCover'
  BY <1>2, JobTypes, RequestLogAssumption DEF IInv, TypeOK, WindowsCover, Begin, Rollup, Quiet, Jobs
<1>3. ASSUME NEW r \in Records, Log(r) PROVE WindowsCover'
  BY <1>3, JobTypes, RequestLogAssumption DEF IInv, TypeOK, WindowsCover, Log, Rollup, Quiet, Jobs
<1>4. ASSUME NEW r \in Records, Receive(r) PROVE WindowsCover'
  BY <1>4, JobTypes, RequestLogAssumption DEF IInv, TypeOK, WindowsCover, Receive, Rollup, Quiet, Jobs
<1>5. CASE Flush
  BY <1>5, JobTypes, RequestLogAssumption DEF IInv, TypeOK, WindowsCover, Flush, Rollup, Quiet, Jobs
<1>6. CASE FlushFails
  BY <1>6, JobTypes, RequestLogAssumption DEF IInv, TypeOK, WindowsCover, FlushFails, Rollup, Quiet, Jobs
<1>7. CASE WriterEnds
  BY <1>7, JobTypes, RequestLogAssumption DEF IInv, TypeOK, WindowsCover, WriterEnds, Rollup, Quiet, Jobs
<1>8. CASE MinuteRollup
  BY <1>8, JobTypes, RequestLogAssumption DEF IInv, TypeOK, WindowsCover, MinuteRollup, Rollup, Quiet, Jobs
<1>9. CASE PurgeTick
  BY <1>9, JobTypes, RequestLogAssumption DEF IInv, TypeOK, WindowsCover, PurgeTick, Rollup, Quiet, Jobs
<1>10. CASE Purge
  BY <1>10, JobTypes, RequestLogAssumption DEF IInv, TypeOK, WindowsCover, Purge, Rollup, Quiet, Jobs
<1>11. ASSUME NEW j \in Jobs, RollHourly(j) PROVE WindowsCover'
  BY <1>11, JobTypes, RequestLogAssumption DEF IInv, TypeOK, WindowsCover, RollHourly, Rollup, Quiet, Jobs
<1>12. ASSUME NEW j \in Jobs, RollDaily(j) PROVE WindowsCover'
  <2>1. \A k \in Jobs \ {j} : job'[k] = job[k]
    BY <1>12 DEF IInv, TypeOK, RollDaily
  <2>2. \/ job'[j] = Quiet
        \/ job[j].kind = "purge" /\ job'[j] = [job[j] EXCEPT !.pc = "purge"]
    BY <1>12 DEF IInv, TypeOK, RollDaily
  <2>3. job'[j].pc # "idle" => job'[j].pc = "purge" /\ job'[j].kind = "purge" /\ job'[j].since = job[j].since
    BY <2>2 DEF IInv, TypeOK, Quiet
  <2>4. job'[j].kind = "purge" => job'[j].since = job[j].since /\ job[j].kind = "purge"
    BY <2>2 DEF IInv, TypeOK, Quiet
  <2>5. now' = now /\ job[j].pc = "daily"
    BY <1>12 DEF RollDaily
  <2> QED BY <2>1, <2>3, <2>4, <2>5 DEF IInv, WindowsCover
<1>13. ASSUME NEW j \in Jobs, JobFails(j) PROVE WindowsCover'
  BY <1>13, JobTypes, RequestLogAssumption DEF IInv, TypeOK, WindowsCover, JobFails, Rollup, Quiet, Jobs
<1>14. CASE Advance
  BY <1>14, JobTypes, RequestLogAssumption DEF IInv, TypeOK, WindowsCover, Advance, Rollup, Quiet, Jobs
<1>15. CASE Signal
  BY <1>15, JobTypes, RequestLogAssumption DEF IInv, TypeOK, WindowsCover, Signal, Rollup, Quiet, Jobs
<1>16. CASE Close
  BY <1>16, JobTypes, RequestLogAssumption DEF IInv, TypeOK, WindowsCover, Close, Rollup, Quiet, Jobs
<1>17. CASE Restart
  BY <1>17, JobTypes, RequestLogAssumption DEF IInv, TypeOK, WindowsCover, Restart, Rollup, Quiet, Jobs
<1> QED
  BY <1>1, <1>2, <1>3, <1>4, <1>5, <1>6, <1>7, <1>8, <1>9, <1>10, <1>11, <1>12, <1>13, <1>14, <1>15, <1>16, <1>17 DEF Next, Writer

(* Purge deletes what is before its window, and no request's time changes. *)
LEMMA PurgedOldStep == IInv /\ [Next]_vars => PurgedOld'
<1> SUFFICES ASSUME IInv, [Next]_vars PROVE PurgedOld'
  OBVIOUS
<1>1. CASE UNCHANGED vars
  BY <1>1 DEF IInv, PurgedOld, vars
<1>2. ASSUME NEW r \in Records, Begin(r) PROVE PurgedOld'
  <2>1. \A x \in purged : ts'[x] = ts[x]
    BY <1>2 DEF IInv, TypeOK, LoggedBegan, Begin, Logged
  <2> QED BY <1>2, <2>1 DEF IInv, PurgedOld, Begin
<1>3. ASSUME NEW r \in Records, Log(r) PROVE PurgedOld'
  BY <1>3 DEF IInv, PurgedOld, Log, log
<1>4. ASSUME NEW r \in Records, Receive(r) PROVE PurgedOld'
  BY <1>4 DEF IInv, PurgedOld, Receive, log
<1>5. CASE Flush
  BY <1>5 DEF IInv, PurgedOld, Flush, log
<1>6. CASE FlushFails
  BY <1>6 DEF IInv, PurgedOld, FlushFails, log
<1>7. CASE WriterEnds
  BY <1>7 DEF IInv, PurgedOld, WriterEnds, log
<1>8. CASE MinuteRollup
  BY <1>8 DEF IInv, PurgedOld, MinuteRollup, log
<1>9. CASE PurgeTick
  BY <1>9 DEF IInv, PurgedOld, PurgeTick, log
<1>10. CASE Purge
  <2>1. job["loop"].since <= now - Retention /\ job["loop"].since \in Int /\ now \in Int
    BY <1>10, JobTypes DEF IInv, WindowsCover, Purge
  <2>2. \A x \in purged' : x \in purged \/ (x \in table /\ ts[x] < job["loop"].since)
    BY <1>10 DEF Purge
  <2>3. \A x \in table : ts[x] \in Int
    BY JobTypes DEF IInv, TypeOK
  <2> QED BY <1>10, <2>1, <2>2, <2>3, RequestLogAssumption DEF IInv, PurgedOld, Purge, log
<1>11. ASSUME NEW j \in Jobs, RollHourly(j) PROVE PurgedOld'
  BY <1>11 DEF IInv, PurgedOld, RollHourly, log
<1>12. ASSUME NEW j \in Jobs, RollDaily(j) PROVE PurgedOld'
  BY <1>12 DEF IInv, PurgedOld, RollDaily, log
<1>13. ASSUME NEW j \in Jobs, JobFails(j) PROVE PurgedOld'
  BY <1>13 DEF IInv, PurgedOld, JobFails, log
<1>14. CASE Advance
  BY <1>14, JobTypes, RequestLogAssumption DEF IInv, TypeOK, PurgedOld, Advance, log
<1>15. CASE Signal
  BY <1>15 DEF IInv, PurgedOld, Signal, log
<1>16. CASE Close
  BY <1>16 DEF IInv, PurgedOld, Close, log
<1>17. CASE Restart
  BY <1>17 DEF IInv, PurgedOld, Restart, log
<1> QED
  BY <1>1, <1>2, <1>3, <1>4, <1>5, <1>6, <1>7, <1>8, <1>9, <1>10, <1>11, <1>12, <1>13, <1>14, <1>15, <1>16, <1>17 DEF Next, Writer

-----------------------------------------------------------------------------
(* Theorems *)

(* The invariant holds at the start, on an empty database. *)
LEMMA InitInv == Init => IInv
<1> SUFFICES ASSUME Init PROVE IInv
  OBVIOUS
<1>1. IsFiniteSet({}) /\ Cardinality({}) = 0
  BY FS_EmptySet
<1>2. TypeOK
  BY <1>1, RequestLogAssumption DEF Init, TypeOK, Rollup, Quiet, Jobs, Time
<1>3. WindowsCover
  BY RequestLogAssumption DEF Init, WindowsCover, Rollup, Quiet, Jobs
<1> QED BY <1>2, <1>3 DEF Init, IInv, Disjoint, NothingLeft, LoggedBegan, Logged, BucketsHonest, PurgedOld

(* IInv is an invariant of the log, its writer, its jobs and the process. *)
THEOREM Invariant == Spec => []IInv
<1>1. IInv /\ [Next]_vars => IInv'
  BY TypeStep, DisjointStep, NothingLeftStep, LoggedBeganStep, BucketsHonestStep,
     WindowsCoverStep, PurgedOldStep DEF IInv
<1> QED BY <1>1, InitInv, PTL DEF Spec

(* The channel and the batch never hold more than their capacities, and every
   variable keeps its type. *)
THEOREM TypeCorrect == Spec => []TypeOK
<1>1. IInv => TypeOK
  BY DEF IInv
<1> QED BY <1>1, Invariant, PTL

(* However many handlers log, whether the channel is full, a transaction fails
   or the process is stopped with handlers running: no record is stored twice,
   none is both stored and counted as lost, and the writer ends with nothing in
   the channel or in its batch. *)
THEOREM FateIsOne == Spec => []OneFate
<1>1. IInv => OneFate
  <2> SUFFICES ASSUME IInv PROVE OneFate
    OBVIOUS
  <2>1. \A k, l \in DOMAIN Fates : k # l => Fates[k] \cap Fates[l] = {}
    BY FatesDisjoint DEF IInv
  <2>2. phase = "closed" => queue \cup batch = {}
    BY DEF IInv, NothingLeft
  <2> QED BY <2>1, <2>2 DEF OneFate
<1> QED BY <1>1, Invariant, PTL

(* A row of a bucket within the look-back is one that any rollup counts: it is
   not purged, and no rollup under way started its window after it. *)
LEMMA RecentIsCounted ==
    ASSUME IInv, NEW j \in Jobs, job[j].pc # "idle",
           NEW b \in Time, b >= now - LookBack, NEW r \in table \cup purged,
           NEW size \in Nat \ {0}, Bucket(ts[r], size) = b
    PROVE  r \in table /\ ts[r] >= job[j].since
<1>1. r \in Records /\ ts[r] \in Nat
  <2>1. r \in Records /\ ts[r] >= 0
    BY DEF IInv, TypeOK, LoggedBegan, Logged
  <2> QED BY <2>1, JobTypes DEF IInv
<1>2. ts[r] >= b /\ b \in Int
  BY <1>1, BucketFloor DEF Time
<1>3. now \in Int /\ job[j].since \in Int /\ job[j].since <= now - LookBack
  BY JobTypes DEF IInv, WindowsCover
<1>4. ts[r] >= now - LookBack
  BY <1>1, <1>2, <1>3, RequestLogAssumption
<1>5. r \notin purged
  BY <1>1, <1>3, <1>4, RequestLogAssumption DEF IInv, PurgedOld
<1> QED BY <1>1, <1>3, <1>4, <1>5, RequestLogAssumption

(* Whichever of the boot rollup, the minutely one and the one before a purge
   recomputes a bucket within the look-back, at whatever time after it was
   started and whatever was purged meanwhile, the bucket keeps every row it
   has counted. *)
THEOREM BucketsGrow == Spec => RecentBucketsGrow
<1>1. IInv /\ [Next]_vars =>
        \A b \in Time : b >= now - LookBack =>
            hourly[b] \subseteq hourly'[b] /\ daily[b] \subseteq daily'[b]
  <2> SUFFICES ASSUME IInv, [Next]_vars, NEW b \in Time, b >= now - LookBack
               PROVE  hourly[b] \subseteq hourly'[b] /\ daily[b] \subseteq daily'[b]
    OBVIOUS
  <2>1. ASSUME NEW j \in Jobs, RollHourly(j)
        PROVE  hourly[b] \subseteq hourly'[b] /\ daily[b] \subseteq daily'[b]
    <3>1. hourly \in [Time -> SUBSET Records] /\ table \subseteq Records
      BY DEF IInv, TypeOK
    <3>2. \/ hourly'[b] = hourly[b]
          \/ hourly'[b] = {r \in table : ts[r] >= job[j].since /\ Bucket(ts[r], HourLen) = b}
      BY <2>1, <3>1, AggregateEntry DEF RollHourly
    <3>3. \A r \in hourly[b] : r \in table /\ ts[r] >= job[j].since /\ Bucket(ts[r], HourLen) = b
      <4> TAKE r \in hourly[b]
      <4>1. r \in table \cup purged /\ Bucket(ts[r], HourLen) = b
        BY DEF IInv, BucketsHonest
      <4> QED BY <2>1, <4>1, RecentIsCounted, RequestLogAssumption DEF RollHourly
    <3> QED BY <2>1, <3>2, <3>3 DEF RollHourly
  <2>2. ASSUME NEW j \in Jobs, RollDaily(j)
        PROVE  hourly[b] \subseteq hourly'[b] /\ daily[b] \subseteq daily'[b]
    <3>1. daily \in [Time -> SUBSET Records] /\ table \subseteq Records
      BY DEF IInv, TypeOK
    <3>2. \/ daily'[b] = daily[b]
          \/ daily'[b] = {r \in table : ts[r] >= job[j].since /\ Bucket(ts[r], DayLen) = b}
      BY <2>2, <3>1, AggregateEntry DEF RollDaily
    <3>3. \A r \in daily[b] : r \in table /\ ts[r] >= job[j].since /\ Bucket(ts[r], DayLen) = b
      <4> TAKE r \in daily[b]
      <4>1. r \in table \cup purged /\ Bucket(ts[r], DayLen) = b
        BY DEF IInv, BucketsHonest
      <4> QED BY <2>2, <4>1, RecentIsCounted, RequestLogAssumption DEF RollDaily
    <3> QED BY <2>2, <3>2, <3>3 DEF RollDaily
  <2>3. CASE UNCHANGED <<hourly, daily>>
    BY <2>3
  <2>4. \/ UNCHANGED <<hourly, daily>>
        \/ \E j \in Jobs : RollHourly(j) \/ RollDaily(j)
    BY DEF Next, Writer, vars, stats, Begin, Log, Receive, Flush, FlushFails, WriterEnds,
           MinuteRollup, PurgeTick, Purge, JobFails, Advance, Signal, Close, Restart
  <2> QED BY <2>1, <2>2, <2>3, <2>4
<1> QED BY <1>1, Invariant, PTL DEF Spec, RecentBucketsGrow

=============================================================================
