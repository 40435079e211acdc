------------------------------ MODULE FleetProofs ------------------------------
(***************************************************************************)
(* Proofs about the fleet, for any nodes, any limits, weights and grace    *)
(* period, and any finite number of concurrent requests.  First Pool, the  *)
(* routing and the lease accounting; then NodeManager, which drives the    *)
(* pool by the pool's own steps, so that the pool's invariant is the first *)
(* part of its own and what the pool routes to is what the nodes reported. *)
(***************************************************************************)
EXTENDS NodeManager, TLAPS, FiniteSetTheorems

(* A request that is trying a backend, or holds a lease, has one. *)
TargetsExist ==
    \A r \in Requests :
        req[r].pc \in {"load", "check", "swap", "leased"} => req[r].b \in Backends

(* The limit of a configured backend never changes, and its counter does not
   exceed it. *)
StaticFixed ==
    \A s \in Statics : backend[s].cap = StaticCap[s] /\ backend[s].inflight <= StaticCap[s]

(* A request about to swap loaded a count below the limit it compared with. *)
QuoteHonest(q) ==
    q.pc = "swap" => /\ q.cur < q.lim
                     /\ q.b \in Statics => q.lim = StaticCap[q.b]

QuotesHonest == \A r \in Requests : QuoteHonest(req[r])

IInv ==
    /\ TypeOK
    /\ TargetsExist
    /\ SlotsMatchLeases
    /\ StaticFixed
    /\ QuotesHonest

-----------------------------------------------------------------------------
(* The types of single records and fields. *)
LEMMA Types == ASSUME TypeOK PROVE
    /\ \A b \in Backends : /\ backend[b] \in Backend
                           /\ backend[b].cap \in Nat /\ backend[b].inflight \in Nat
                           /\ backend[b].weight \in Nat /\ backend[b].healthy \in BOOLEAN
    /\ \A r \in Requests : /\ req[r] \in Request
                           /\ req[r].cands \in SUBSET Backends /\ req[r].todo \in SUBSET Backends
                           /\ req[r].cur \in Nat /\ req[r].b \in Backends \cup {None}
                           /\ req[r].lim \in Nat
                           /\ req[r].best \in Backends \cup {None}
                           /\ room[r] \in SUBSET Backends /\ lowered[r] \in SUBSET Backends
    /\ \A m \in Models : index[m] \in SUBSET Objs
BY DEF TypeOK, Backend, Request

(* What Acquire answers is a request, with its outcome and its lease. *)
LEMMA AnsweredType ==
    ASSUME NEW pc \in {"leased", "released", "nobackend", "nocapacity"},
           NEW b \in Backends \cup {None}
    PROVE  /\ Answered(pc, b) \in Request /\ Answered(pc, b).pc = pc /\ Answered(pc, b).b = b
           /\ Answered(pc, b).cands = {}
BY DEF Answered, NewRequest, Request

(* The leases on a backend are finitely many. *)
LEMMA LeasesFinite == ASSUME NEW b PROVE IsFiniteSet(Leases(b))
<1>1. Leases(b) \subseteq Requests
  BY DEF Leases
<1> QED BY <1>1, FS_Subset, PoolAssumption

(* The history variables keep their types. *)
LEMMA RoomType ==
    ASSUME TypeOK, Watch, req' \in [Requests -> Request]
    PROVE  room' \in [Requests -> SUBSET Backends] /\ lowered' \in [Requests -> SUBSET Backends]
<1>1. \A r \in Requests : req'[r].cands \in SUBSET Backends /\ room[r] \in SUBSET Backends
  BY DEF TypeOK, Request
<1> QED BY <1>1 DEF Watch

(* Frame: a step of one request inside Acquire that neither takes nor gives
   back a slot. *)
LEMMA NoSlotMoves ==
    ASSUME IInv, NEW r \in Requests, NEW q \in Request,
           req' = [req EXCEPT ![r] = q],
           req[r].pc # "leased", q.pc # "leased",
           q.pc \in {"load", "check", "swap"} => q.b \in Backends,
           QuoteHonest(q),
           UNCHANGED <<backend, dynamic, nodeKeys, index>>, Watch
    PROVE  IInv'
<1>1. TypeOK'
  <2>1. req' \in [Requests -> Request]
    BY DEF IInv, TypeOK
  <2> QED BY <2>1, RoomType DEF IInv, TypeOK
<1>2. TargetsExist'
  BY DEF IInv, TypeOK, TargetsExist, Request
<1>3. SlotsMatchLeases'
  <2>1. \A b \in Backends : Leases(b)' = Leases(b)
    BY DEF IInv, TypeOK, Leases
  <2> QED BY <2>1 DEF IInv, SlotsMatchLeases
<1>4. StaticFixed' /\ QuotesHonest'
  BY DEF IInv, TypeOK, StaticFixed, QuotesHonest, QuoteHonest
<1> QED BY <1>1, <1>2, <1>3, <1>4 DEF IInv

-----------------------------------------------------------------------------
(* The initial state: no lease is out. *)
LEMMA InitIInv == Init => IInv
<1> SUFFICES ASSUME Init PROVE IInv
  OBVIOUS
<1>1. NewRequest \in Request /\ NewRequest.pc = "new"
  BY DEF NewRequest, Request
<1>2. \A b \in Backends : backend[b] \in Backend /\ backend[b].inflight = 0
  <2>1. Blank \in Backend /\ Blank.inflight = 0
    BY DEF Blank, Backend
  <2>2. ASSUME NEW s \in Statics
        PROVE  /\ backend[s] = [url |-> <<s, None>>, cap |-> StaticCap[s], weight |-> Weight[s],
                                inflight |-> 0, healthy |-> TRUE]
               /\ StaticCap[s] \in Nat /\ Weight[s] \in Nat
    BY PoolAssumption DEF Init, Backends
  <2>3. ASSUME NEW s \in Statics PROVE backend[s] \in Backend /\ backend[s].inflight = 0
    <3>1. <<s, None>> \in (Statics \cup Nodes \cup {None}) \X (Ports \cup {None})
      OBVIOUS
    <3>2. [url |-> <<s, None>>, cap |-> StaticCap[s], weight |-> Weight[s],
           inflight |-> 0, healthy |-> TRUE] \in Backend
      BY <2>2, <3>1 DEF Backend
    <3> QED BY <2>2, <3>2
  <2> QED BY <2>1, <2>3 DEF Init, Backends
<1>3. TypeOK
  BY <1>1, <1>2 DEF Init, TypeOK
<1>4. \A b \in Backends : Leases(b) = {}
  BY <1>1 DEF Init, Leases
<1>5. SlotsMatchLeases
  BY <1>2, <1>4, FS_EmptySet DEF SlotsMatchLeases
<1>6. StaticFixed
  BY PoolAssumption DEF Init, StaticFixed, Backends
<1>7. TargetsExist /\ QuotesHonest
  BY <1>1 DEF Init, TargetsExist, QuotesHonest, QuoteHonest
<1> QED BY <1>3, <1>5, <1>6, <1>7 DEF IInv

(* Acquire up to the choice of a backend. *)
LEMMA BeginStep ==
    ASSUME IInv, NEW r \in Requests, NEW m \in Models, AcquireBegin(r, m) PROVE IInv'
<1> DEFINE c == StaticFor(m) \cup index[m]
           q == IF c = {} THEN Answered("nobackend", None)
                ELSE [req[r] EXCEPT !.pc = "scan", !.cands = c, !.todo = c]
<1>1. c \in SUBSET Backends
  BY Types DEF IInv, StaticFor, Backends
<1>2. q \in Request /\ q.pc \in {"scan", "nobackend"}
  <2>1. Answered("nobackend", None) \in Request /\ Answered("nobackend", None).pc = "nobackend"
    BY AnsweredType
  <2>2. [req[r] EXCEPT !.pc = "scan", !.cands = c, !.todo = c] \in Request
    BY <1>1, Types DEF IInv, Request
  <2>3. [req[r] EXCEPT !.pc = "scan", !.cands = c, !.todo = c].pc = "scan"
    BY Types DEF IInv, Request
  <2> QED BY <2>1, <2>2, <2>3
<1>3. req' = [req EXCEPT ![r] = q] /\ req[r].pc = "new" /\ Watch
      /\ UNCHANGED <<backend, dynamic, nodeKeys, index>>
  BY DEF AcquireBegin
<1> HIDE DEF q
<1> QED BY <1>2, <1>3, NoSlotMoves DEF QuoteHonest

(* The scan keeps a request inside Acquire. *)
LEMMA ScanStep ==
    ASSUME IInv, NEW r \in Requests, Scan(r) PROVE IInv'
<1>1. PICK b \in req[r].todo :
        req' = [req EXCEPT ![r] =
            IF backend[b].healthy /\ Lighter(b, req[r])
              THEN [req[r] EXCEPT !.todo = req[r].todo \ {b}, !.best = b,
                                  !.load = <<backend[b].inflight, backend[b].weight>>]
              ELSE [req[r] EXCEPT !.todo = req[r].todo \ {b}]]
  BY DEF Scan, Foremost
<1> DEFINE q1 == [req[r] EXCEPT !.todo = req[r].todo \ {b}, !.best = b,
                                !.load = <<backend[b].inflight, backend[b].weight>>]
           q2 == [req[r] EXCEPT !.todo = req[r].todo \ {b}]
           q == IF backend[b].healthy /\ Lighter(b, req[r]) THEN q1 ELSE q2
<1>2. req[r].pc = "scan" /\ Watch /\ UNCHANGED <<backend, dynamic, nodeKeys, index>>
  BY DEF Scan
<1>3. /\ req[r] \in Request /\ req[r].todo \ {b} \in SUBSET Backends /\ b \in Backends
      /\ <<backend[b].inflight, backend[b].weight>> \in Nat \X Nat
  BY Types DEF IInv
<1>4. q1 \in Request /\ q2 \in Request
  BY <1>3 DEF Request
<1>5. q1.pc = "scan" /\ q2.pc = "scan"
  BY <1>2, <1>3 DEF Request
<1>7. q \in Request /\ q.pc = "scan"
  BY <1>4, <1>5
<1>6. req' = [req EXCEPT ![r] = q]
  BY <1>1
<1> HIDE DEF q
<1> QED BY <1>2, <1>7, <1>6, NoSlotMoves DEF QuoteHonest

(* The end of the scan: a refusal, or the best candidate is tried first. *)
LEMMA ScanDoneStep ==
    ASSUME IInv, NEW r \in Requests, ScanDone(r) PROVE IInv'
<1> DEFINE q1 == [NewRequest EXCEPT !.pc = "load", !.b = req[r].best,
                                    !.cands = req[r].cands, !.todo = req[r].cands]
           q == IF req[r].best = None THEN Answered("nobackend", None) ELSE q1
<1>1. req[r].pc = "scan" /\ Watch /\ UNCHANGED <<backend, dynamic, nodeKeys, index>>
      /\ req' = [req EXCEPT ![r] = q]
  BY Types DEF IInv, TypeOK, ScanDone
<1>2. req[r].best # None => q1 \in Request /\ q1.pc = "load" /\ q1.b \in Backends
  BY Types DEF IInv, NewRequest, Request
<1>3. q \in Request /\ q.pc \in {"load", "nobackend"} /\ (q.pc = "load" => q.b \in Backends)
  BY <1>2, AnsweredType
<1> HIDE DEF q
<1> QED BY <1>1, <1>3, NoSlotMoves DEF QuoteHonest

(* The load of the counter. *)
LEMMA LoadStep ==
    ASSUME IInv, NEW r \in Requests, AcquireLoad(r) PROVE IInv'
<1> DEFINE q == [req[r] EXCEPT !.pc = "check", !.cur = backend[req[r].b].inflight]
<1>1. req[r].pc = "load" /\ Watch /\ UNCHANGED <<backend, dynamic, nodeKeys, index>>
      /\ req' = [req EXCEPT ![r] = q] /\ req[r].b \in Backends
  BY DEF IInv, TypeOK, TargetsExist, AcquireLoad
<1>2. req[r] \in Request /\ backend[req[r].b].inflight \in Nat
  BY <1>1, Types DEF IInv
<1>3. q \in Request
  BY <1>2 DEF Request
<1>4. q.pc = "check" /\ q.b \in Backends
  BY <1>1, <1>2 DEF Request
<1> HIDE DEF q
<1> QED BY <1>1, <1>3, <1>4, NoSlotMoves DEF QuoteHonest

(* The comparison fails: the request falls through. *)
LEMMA FullStep ==
    ASSUME IInv, NEW r \in Requests, AcquireFull(r) PROVE IInv'
<1> DEFINE q == [req[r] EXCEPT !.pc = "fall", !.b = None, !.cur = 0]
<1>1. req[r].pc = "check" /\ Watch /\ UNCHANGED <<backend, dynamic, nodeKeys, index>>
      /\ req' = [req EXCEPT ![r] = q]
  BY DEF IInv, TypeOK, AcquireFull
<1>2. q \in Request /\ q.pc = "fall"
  <2>1. req[r] \in Request
    BY Types DEF IInv
  <2>2. q \in Request
    BY <2>1 DEF Request
  <2>3. q.pc = "fall"
    BY <2>1 DEF Request
  <2> QED BY <2>2, <2>3
<1> HIDE DEF q
<1> QED BY <1>1, <1>2, NoSlotMoves DEF QuoteHonest

(* The comparison succeeds: the count is below the limit of the moment. *)
LEMMA BelowStep ==
    ASSUME IInv, NEW r \in Requests, AcquireBelow(r) PROVE IInv'
<1> DEFINE q == [req[r] EXCEPT !.pc = "swap", !.lim = backend[req[r].b].cap]
<1>1. req[r].pc = "check" /\ Watch /\ UNCHANGED <<backend, dynamic, nodeKeys, index>>
      /\ req' = [req EXCEPT ![r] = q] /\ req[r].b \in Backends
      /\ req[r].cur < backend[req[r].b].cap
  BY DEF IInv, TypeOK, TargetsExist, AcquireBelow
<1>2. q \in Request /\ q.pc = "swap" /\ q.b = req[r].b /\ q.cur < q.lim
      /\ q.lim = backend[req[r].b].cap
  <2>1. req[r] \in Request /\ backend[req[r].b].cap \in Nat
    BY <1>1, Types DEF IInv
  <2>2. q \in Request
    BY <2>1 DEF Request
  <2>3. q.pc = "swap" /\ q.b = req[r].b /\ q.cur = req[r].cur /\ q.lim = backend[req[r].b].cap
    BY <2>1 DEF Request
  <2> QED BY <1>1, <2>2, <2>3
<1>3. QuoteHonest(q)
  BY <1>1, <1>2 DEF IInv, StaticFixed, QuoteHonest
<1> HIDE DEF q
<1> QED BY <1>1, <1>2, <1>3, NoSlotMoves

(* The next candidate of the fall-through. *)
LEMMA NextStep ==
    ASSUME IInv, NEW r \in Requests, AcquireNext(r) PROVE IInv'
<1>1. PICK b \in req[r].todo :
        req' = [req EXCEPT ![r].todo = @ \ {b},
                           ![r].pc = IF backend[b].healthy THEN "load" ELSE "fall",
                           ![r].b  = IF backend[b].healthy THEN b ELSE None]
  BY DEF AcquireNext, Foremost
<1> DEFINE q == [req[r] EXCEPT !.todo = @ \ {b},
                               !.pc = IF backend[b].healthy THEN "load" ELSE "fall",
                               !.b  = IF backend[b].healthy THEN b ELSE None]
<1>2. req[r].pc = "fall" /\ Watch /\ UNCHANGED <<backend, dynamic, nodeKeys, index>>
      /\ req' = [req EXCEPT ![r] = q] /\ b \in Backends
  BY <1>1, Types DEF IInv, TypeOK, AcquireNext
<1>3. q \in Request /\ q.pc \in {"load", "fall"} /\ (q.pc = "load" => q.b \in Backends)
  <2> DEFINE pc == IF backend[b].healthy THEN "load" ELSE "fall"
             b1 == IF backend[b].healthy THEN b ELSE None
  <2>1. /\ req[r] \in Request /\ req[r].todo \ {b} \in SUBSET Backends
        /\ pc \in {"load", "fall"} /\ b1 \in Backends \cup {None}
        /\ pc = "load" => b1 \in Backends
    BY <1>2, Types DEF IInv
  <2>2. q = [req[r] EXCEPT !.todo = req[r].todo \ {b}, !.pc = pc, !.b = b1]
    BY <2>1 DEF Request
  <2> HIDE DEF pc, b1, q
  <2>3. q \in Request
    BY <2>1, <2>2 DEF Request
  <2>4. q.pc = pc /\ q.b = b1
    BY <2>1, <2>2 DEF Request
  <2> QED BY <2>1, <2>3, <2>4
<1> HIDE DEF q
<1> QED BY <1>2, <1>3, NoSlotMoves DEF QuoteHonest

(* Every candidate has been tried. *)
LEMMA RejectedStep ==
    ASSUME IInv, NEW r \in Requests, AcquireRejected(r) PROVE IInv'
BY AnsweredType, NoSlotMoves DEF AcquireRejected, QuoteHonest

-----------------------------------------------------------------------------
(* Frame: the counter of one backend is set. *)
LEMMA SetInflight ==
    ASSUME TypeOK, NEW b \in Backends, NEW n \in Nat,
           backend' = [backend EXCEPT ![b].inflight = n]
    PROVE  /\ backend' \in [Backends -> Backend]
           /\ backend'[b].inflight = n
           /\ \A x \in Backends : /\ backend'[x].cap = backend[x].cap
                                  /\ x # b => backend'[x].inflight = backend[x].inflight
<1>1. backend \in [Backends -> Backend] /\ backend[b] \in Backend
  BY DEF TypeOK
<1>2. [backend[b] EXCEPT !.inflight = n] \in Backend
  BY <1>1 DEF Backend
<1>3. backend' = [backend EXCEPT ![b] = [backend[b] EXCEPT !.inflight = n]]
  BY <1>1
<1>4. /\ [backend[b] EXCEPT !.inflight = n].inflight = n
      /\ [backend[b] EXCEPT !.inflight = n].cap = backend[b].cap
  BY <1>1 DEF Backend
<1> QED BY <1>1, <1>2, <1>3, <1>4

(* The swap: a slot is taken only at the count that was compared. *)
LEMMA SwapStep ==
    ASSUME IInv, NEW r \in Requests, AcquireSwap(r) PROVE IInv'
<1>0. PICK b \in Backends : b = req[r].b
  BY DEF IInv, TargetsExist, AcquireSwap
<1>1. /\ req[r].pc = "swap" /\ b = req[r].b /\ req[r] \in Request /\ Watch
      /\ req[r].cur \in Nat /\ req[r].lim \in Nat /\ UNCHANGED <<dynamic, nodeKeys, index>>
      /\ req[r].cur < req[r].lim
      /\ b \in Statics => req[r].lim = StaticCap[b]
  BY <1>0, Types DEF IInv, TargetsExist, QuotesHonest, QuoteHonest, AcquireSwap
<1>2. CASE backend[b].inflight = req[r].cur
  <2> DEFINE q == Answered("leased", b)
  <2>1. /\ backend' = [backend EXCEPT ![b].inflight = req[r].cur + 1]
        /\ req' = [req EXCEPT ![r] = q]
    BY <1>0, <1>2 DEF AcquireSwap
  <2>2. q \in Request /\ q.pc = "leased" /\ q.b = b
    BY <1>1, AnsweredType
  <2> HIDE DEF q
  <2>3. /\ backend' \in [Backends -> Backend]
        /\ backend'[b].inflight = req[r].cur + 1
        /\ \A x \in Backends : /\ backend'[x].cap = backend[x].cap
                               /\ x # b => backend'[x].inflight = backend[x].inflight
    <3>1. req[r].cur + 1 \in Nat
      BY <1>1
    <3> QED BY <2>1, <3>1, SetInflight DEF IInv
  <2>4. req \in [Requests -> Request] /\ req' \in [Requests -> Request]
    BY <2>1, <2>2 DEF IInv, TypeOK
  <2>5. TypeOK'
    BY <1>1, <2>3, <2>4, RoomType DEF IInv, TypeOK
  <2>6. TargetsExist' /\ QuotesHonest'
    BY <1>1, <2>1, <2>2, <2>4 DEF IInv, TargetsExist, QuotesHonest, QuoteHonest
  <2>7. Leases(b)' = Leases(b) \cup {r} /\ r \notin Leases(b)
    BY <1>1, <2>1, <2>2, <2>4 DEF Leases
  <2>8. \A x \in Backends : x # b => Leases(x)' = Leases(x)
    BY <1>1, <2>1, <2>2, <2>4 DEF Leases
  <2>9. Cardinality(Leases(b)') = Cardinality(Leases(b)) + 1
    BY <2>7, LeasesFinite, FS_AddElement
  <2>10. SlotsMatchLeases'
    <3>1. ASSUME NEW x \in Backends PROVE backend'[x].inflight = Cardinality(Leases(x)')
      <4>1. backend[x].inflight = Cardinality(Leases(x))
        BY DEF IInv, SlotsMatchLeases
      <4> QED BY <1>2, <2>3, <2>8, <2>9, <4>1
    <3> QED BY <3>1 DEF SlotsMatchLeases
  <2>11. StaticFixed'
    <3>1. ASSUME NEW s \in Statics
          PROVE  backend'[s].cap = StaticCap[s] /\ backend'[s].inflight <= StaticCap[s]
      <4>1. s \in Backends /\ backend[s].cap = StaticCap[s] /\ backend[s].inflight <= StaticCap[s]
        BY DEF IInv, StaticFixed, Backends
      <4>2. CASE s = b
        BY <1>1, <2>3, <4>1, <4>2
      <4>3. CASE s # b
        BY <2>3, <4>1, <4>3
      <4> QED BY <4>2, <4>3
    <3> QED BY <3>1 DEF StaticFixed
  <2> QED BY <2>5, <2>6, <2>10, <2>11 DEF IInv
<1>3. CASE backend[b].inflight # req[r].cur
  <2> DEFINE q == [req[r] EXCEPT !.pc = "load", !.cur = 0, !.lim = 0]
  <2>1. req' = [req EXCEPT ![r] = q] /\ UNCHANGED backend
    BY <1>0, <1>3 DEF IInv, TypeOK, AcquireSwap
  <2>2. q \in Request
    BY <1>1 DEF Request
  <2>3. q.pc = "load" /\ q.b \in Backends
    BY <1>1 DEF Request
  <2> HIDE DEF q
  <2> QED BY <1>1, <2>1, <2>2, <2>3, NoSlotMoves DEF QuoteHonest
<1> QED BY <1>2, <1>3

(* The release gives one slot back, of a backend that has one out. *)
LEMMA ReleaseStep ==
    ASSUME IInv, NEW r \in Requests, Release(r) PROVE IInv'
<1>0. PICK b \in Backends : b = req[r].b
  BY DEF IInv, TargetsExist, Release
<1> DEFINE q == Answered("released", None)
           n == backend[b].inflight - 1
<1>1. /\ req[r].pc = "leased" /\ b = req[r].b /\ Watch
      /\ UNCHANGED <<dynamic, nodeKeys, index>> /\ req' = [req EXCEPT ![r] = q]
      /\ req \in [Requests -> Request] /\ backend \in [Backends -> Backend]
      /\ backend[b].inflight \in Nat
      /\ backend[b].inflight = Cardinality(Leases(b))
  BY <1>0, Types DEF IInv, TypeOK, SlotsMatchLeases, Release
<1>2. q \in Request /\ q.pc = "released" /\ q.b = None
  BY AnsweredType
<1> HIDE DEF q
<1>3. r \in Leases(b) /\ Leases(b)' = Leases(b) \ {r}
  BY <1>1, <1>2 DEF Leases
<1>4. \A x \in Backends : x # b => Leases(x)' = Leases(x)
  BY <1>1, <1>2 DEF Leases
<1>5. Cardinality(Leases(b)') = Cardinality(Leases(b)) - 1
  BY <1>3, LeasesFinite, FS_RemoveElement
<1>6. n \in Nat
  <2>1. IsFiniteSet(Leases(b)')
    BY <1>3, LeasesFinite, FS_RemoveElement
  <2> QED BY <1>1, <1>5, <2>1, FS_CardinalityType
<1>7. backend' = [backend EXCEPT ![b].inflight = n]
  BY <1>1 DEF Release
<1>8. n = backend[b].inflight - 1
  OBVIOUS
<1> HIDE DEF n
<1>9. /\ backend' \in [Backends -> Backend]
      /\ backend'[b].inflight = n
      /\ \A x \in Backends : /\ backend'[x].cap = backend[x].cap
                             /\ x # b => backend'[x].inflight = backend[x].inflight
  BY <1>1, <1>6, <1>7, SetInflight DEF IInv
<1>10. req' \in [Requests -> Request]
  BY <1>1, <1>2
<1>11. TypeOK'
  BY <1>1, <1>9, <1>10, RoomType DEF IInv, TypeOK
<1>12. TargetsExist' /\ QuotesHonest'
  BY <1>1, <1>2 DEF IInv, TargetsExist, QuotesHonest, QuoteHonest
<1>13. SlotsMatchLeases'
  <2>1. ASSUME NEW x \in Backends PROVE backend'[x].inflight = Cardinality(Leases(x)')
    <3>1. backend[x].inflight = Cardinality(Leases(x))
      BY DEF IInv, SlotsMatchLeases
    <3> QED BY <1>4, <1>5, <1>8, <1>9, <3>1
  <2> QED BY <2>1 DEF SlotsMatchLeases
<1>14. ASSUME NEW s \in Statics
       PROVE  backend'[s].cap = StaticCap[s] /\ backend'[s].inflight <= StaticCap[s]
  <2>1. /\ s \in Backends /\ backend[s].cap = StaticCap[s] /\ backend[s].inflight <= StaticCap[s]
        /\ StaticCap[s] \in Nat
    BY PoolAssumption DEF IInv, StaticFixed, Backends
  <2> QED BY <1>1, <1>8, <1>9, <2>1
<1> QED BY <1>11, <1>12, <1>13, <1>14 DEF IInv, StaticFixed

-----------------------------------------------------------------------------
(* Frame: no request moves, every lease keeps the count of its backend, and
   configured backends keep their limit. *)
LEMMA TablesMove ==
    ASSUME IInv, Watch, UNCHANGED req,
           backend' \in [Backends -> Backend],
           dynamic' \in [Nodes \X Models -> Objs \cup {None}],
           nodeKeys' \in [Nodes -> SUBSET Models],
           index' \in [Models -> SUBSET Objs],
           \A b \in Backends :
               \/ backend'[b].inflight = backend[b].inflight
               \/ /\ b \notin Statics /\ backend'[b].inflight = 0
                  /\ \A r \in Requests : req[r].b # b,
           \A s \in Statics : backend'[s].cap = backend[s].cap
    PROVE  IInv'
<1>1. TypeOK'
  BY RoomType DEF IInv, TypeOK
<1>2. TargetsExist' /\ QuotesHonest'
  BY DEF IInv, TargetsExist, QuotesHonest, QuoteHonest
<1>3. ASSUME NEW b \in Backends PROVE backend'[b].inflight = Cardinality(Leases(b)')
  <2>1. Leases(b)' = Leases(b) /\ backend[b].inflight = Cardinality(Leases(b))
    BY DEF IInv, SlotsMatchLeases, Leases
  <2>2. CASE \A r \in Requests : req[r].b # b
    <3>1. Leases(b) = {}
      BY <2>2 DEF Leases
    <3> QED BY <2>1, <3>1, FS_EmptySet
  <2> QED BY <2>1, <2>2
<1>4. StaticFixed'
  BY DEF IInv, StaticFixed, Backends
<1> QED BY <1>1, <1>2, <1>3, <1>4 DEF IInv, SlotsMatchLeases

(* A probe changes the health of a backend only. *)
LEMMA ProbeStep ==
    ASSUME IInv, NEW s \in Statics, Probe(s) PROVE IInv'
<1>1. s \in Backends /\ backend \in [Backends -> Backend] /\ backend[s] \in Backend
  BY DEF IInv, TypeOK, Backends
<1> DEFINE w == [backend[s] EXCEPT !.healthy = ~backend[s].healthy]
<1>2. backend' = [backend EXCEPT ![s] = w]
  BY <1>1 DEF Probe
<1>3. w \in Backend
  BY <1>1 DEF Backend
<1>4. w.inflight = backend[s].inflight /\ w.cap = backend[s].cap
  BY <1>1 DEF Backend
<1> HIDE DEF w
<1>5. /\ backend' \in [Backends -> Backend]
      /\ \A b \in Backends : /\ backend'[b].inflight = backend[b].inflight
                             /\ backend'[b].cap = backend[b].cap
  BY <1>1, <1>2, <1>3, <1>4
<1>6. /\ Watch /\ UNCHANGED <<dynamic, nodeKeys, index, req>> /\ Statics \subseteq Backends
      /\ dynamic \in [Nodes \X Models -> Objs \cup {None}]
      /\ nodeKeys \in [Nodes -> SUBSET Models] /\ index \in [Models -> SUBSET Objs]
  BY DEF Probe, Backends, IInv, TypeOK
<1> QED BY <1>5, <1>6, TablesMove

(* The rebuilt index holds dynamic objects. *)
LEMMA IndexType ==
    ASSUME NEW dyn \in [Nodes \X Models -> Objs \cup {None}],
           NEW keys \in [Nodes -> SUBSET Models]
    PROVE  Index(dyn, keys) \in [Models -> SUBSET Objs]
<1>1. ASSUME NEW m \in Models
      PROVE  {dyn[<<n, m>>] : n \in {k \in Nodes : m \in keys[k]}} \ {None} \in SUBSET Objs
  OBVIOUS
<1> QED BY <1>1 DEF Index

(* A node is dropped: objects and counters stay. *)
LEMMA DropStep ==
    ASSUME IInv, NEW n \in Nodes, DropNode(n) PROVE IInv'
<1>1. /\ dynamic \in [Nodes \X Models -> Objs \cup {None}]
      /\ nodeKeys \in [Nodes -> SUBSET Models]
      /\ backend \in [Backends -> Backend]
      /\ Watch /\ UNCHANGED <<backend, req>>
  BY DEF IInv, TypeOK, DropNode
<1>2. dynamic' \in [Nodes \X Models -> Objs \cup {None}]
  BY <1>1 DEF DropNode
<1>3. nodeKeys' \in [Nodes -> SUBSET Models]
  BY <1>1 DEF DropNode
<1>4. index' \in [Models -> SUBSET Objs]
  BY <1>2, <1>3, IndexType DEF DropNode
<1> QED BY <1>1, <1>2, <1>3, <1>4, TablesMove

(* A poll: kept objects keep their counter, and a fresh one is an object no
   request refers to. *)
LEMMA SyncStep ==
    ASSUME IInv, NEW n \in Nodes, NEW e \in Reports, SyncNode(n, e) PROVE IInv'
<1>1. PICK fresh \in [DOMAIN e \ Kept(n, e) -> Objs \ Referenced] :
        backend' = Updated(n, e, fresh) /\ dynamic' = Registered(n, e, fresh)
  BY DEF SyncNode
<1>2. /\ backend \in [Backends -> Backend]
      /\ dynamic \in [Nodes \X Models -> Objs \cup {None}]
      /\ nodeKeys \in [Nodes -> SUBSET Models]
  BY DEF IInv, TypeOK
<1>15. /\ nodeKeys' = [nodeKeys EXCEPT ![n] = DOMAIN e]
      /\ index' = Index(dynamic', nodeKeys')
      /\ UNCHANGED req /\ Watch
  BY DEF SyncNode
<1>3. PICK M \in SUBSET Models : e \in [M -> [port : Ports, limit : Limits]]
  BY DEF Reports
<1>4. \A m \in DOMAIN e : /\ m \in Models /\ e[m].port \in Ports
                          /\ AtLeastOne(e[m].limit) \in Nat
  <2>1. \A m \in M : e[m].port \in Ports /\ e[m].limit \in Nat
    BY <1>3, PoolAssumption
  <2> QED BY <1>3, <2>1 DEF AtLeastOne
<1>5. \A m \in Kept(n, e) : m \in DOMAIN e /\ dynamic[<<n, m>>] \in Objs
  BY <1>2, <1>4 DEF Kept
<1>6. \A m \in DOMAIN fresh : m \in DOMAIN e /\ fresh[m] \in Objs /\ fresh[m] \notin Referenced
  OBVIOUS
<1>7. \A r \in Requests : req[r].b \in Referenced
  BY DEF Referenced
<1>8. Weight[n] \in Nat /\ Statics \cap Objs = {}
  BY PoolAssumption
<1>9. ASSUME NEW b \in Backends
      PROVE  /\ backend'[b] \in Backend
             /\ \/ backend'[b].inflight = backend[b].inflight
                \/ /\ b \notin Statics /\ backend'[b].inflight = 0
                   /\ \A r \in Requests : req[r].b # b
             /\ b \in Statics => backend'[b].cap = backend[b].cap
  <2>1. CASE \E m \in Kept(n, e) : b = dynamic[<<n, m>>]
    <3>1. PICK m \in Kept(n, e) : backend'[b] = [backend[b] EXCEPT !.cap = AtLeastOne(e[m].limit)]
      BY <1>1, <2>1 DEF Updated
    <3>2. AtLeastOne(e[m].limit) \in Nat /\ b \notin Statics /\ backend[b] \in Backend
      BY <1>2, <1>4, <1>5, <1>8, <2>1
    <3>3. backend'[b] \in Backend
      BY <3>1, <3>2 DEF Backend
    <3>4. backend'[b].inflight = backend[b].inflight
      BY <3>1, <3>2 DEF Backend
    <3> QED BY <3>2, <3>3, <3>4
  <2>2. CASE /\ ~ \E m \in Kept(n, e) : b = dynamic[<<n, m>>]
             /\ \E m \in DOMAIN fresh : b = fresh[m]
    <3>1. PICK m \in DOMAIN fresh :
            backend'[b] = [url |-> <<n, e[m].port>>, cap |-> AtLeastOne(e[m].limit),
                           weight |-> Weight[n], inflight |-> 0, healthy |-> TRUE]
      BY <1>1, <2>2 DEF Updated
    <3>2. /\ AtLeastOne(e[m].limit) \in Nat /\ b \notin Statics /\ e[m].port \in Ports
          /\ b \notin Referenced
      BY <1>4, <1>6, <1>8, <2>2
    <3>3. backend'[b] \in Backend
      BY <1>8, <3>1, <3>2 DEF Backend
    <3> QED BY <1>7, <3>1, <3>2, <3>3
  <2>3. CASE /\ ~ \E m \in Kept(n, e) : b = dynamic[<<n, m>>]
             /\ ~ \E m \in DOMAIN fresh : b = fresh[m]
    <3>1. backend'[b] = backend[b]
      BY <1>1, <2>3 DEF Updated
    <3> QED BY <1>2, <3>1
  <2> QED BY <2>1, <2>2, <2>3
<1>10. backend' \in [Backends -> Backend]
  <2>1. backend' = [b \in Backends |-> backend'[b]]
    BY <1>1 DEF Updated
  <2> QED BY <1>9, <2>1
<1>11. dynamic' \in [Nodes \X Models -> Objs \cup {None}]
  <2>1. ASSUME NEW k \in Nodes \X Models PROVE dynamic'[k] \in Objs \cup {None}
    BY <1>1, <1>2, <1>6 DEF Registered
  <2>2. dynamic' = [k \in Nodes \X Models |-> dynamic'[k]]
    BY <1>1 DEF Registered
  <2> QED BY <2>1, <2>2
<1>12. nodeKeys' \in [Nodes -> SUBSET Models]
  BY <1>15, <1>2, <1>3
<1>13. index' \in [Models -> SUBSET Objs]
  BY <1>15, <1>11, <1>12, IndexType
<1>14. Statics \subseteq Backends
  BY DEF Backends
<1> QED BY <1>15, <1>9, <1>10, <1>11, <1>12, <1>13, <1>14, TablesMove

-----------------------------------------------------------------------------
(* IInv is inductive. *)
THEOREM Inductive == Spec => []IInv
<1>1. IInv /\ [Next]_vars => IInv'
  <2> SUFFICES ASSUME IInv, [Next]_vars PROVE IInv'
    OBVIOUS
  <2>1. ASSUME NEW r \in Requests, AcquireStep(r) PROVE IInv'
    BY <2>1, BeginStep, ScanStep, ScanDoneStep, LoadStep, FullStep, BelowStep, SwapStep,
       NextStep, RejectedStep DEF AcquireStep
  <2>2. CASE UNCHANGED vars
    BY <2>2 DEF vars, IInv, TypeOK, TargetsExist, SlotsMatchLeases, Leases, StaticFixed,
                QuotesHonest
  <2> QED BY <2>1, <2>2, ReleaseStep, ProbeStep, DropStep, SyncStep DEF Next, Traffic
<1> QED BY <1>1, InitIInv, PTL DEF Spec

(* Every variable of the pool keeps its type, for any fleet. *)
THEOREM TypeCorrect == Spec => []TypeOK
<1>1. IInv => TypeOK
  BY DEF IInv
<1> QED BY <1>1, Inductive, PTL

(* The in-flight counter of every backend is the number of leases on it, however
   requests, probes and polls interleave: Acquire's load, compare and swap and
   the deferred Release leak no slot and lend none twice. *)
THEOREM CountersExact == Spec => []SlotsMatchLeases
<1>1. IInv => SlotsMatchLeases
  BY DEF IInv
<1> QED BY <1>1, Inductive, PTL

(* No configured backend carries more requests than its max_concurrency, for
   any number of concurrent Acquire calls. *)
THEOREM StaticLimit == Spec => []StaticWithinLimit
<1>1. IInv => StaticWithinLimit
  BY DEF IInv, SlotsMatchLeases, StaticFixed, StaticWithinLimit, Backends
<1> QED BY <1>1, Inductive, PTL

-----------------------------------------------------------------------------
(* What Acquire has established, at each of its steps, of the candidates that
   had room throughout and no limit lowered under it: they are candidates; the
   ones it has passed over are not among them; a count it has loaded from one of
   them is below the limit. *)
Sure(r) == room[r] \ lowered[r]

RoomOK(r) ==
    /\ \A b \in Sure(r) : HasRoom(backend, b)
    /\ req[r].pc = "scan" => Sure(r) \subseteq req[r].cands
    /\ req[r].pc = "scan" /\ req[r].best = None => Sure(r) \subseteq req[r].todo
    /\ req[r].pc \in {"load", "check", "swap"} => Sure(r) \subseteq req[r].todo \cup {req[r].b}
    /\ req[r].pc = "fall" => Sure(r) \subseteq req[r].todo
    /\ req[r].pc = "check" /\ req[r].b \in Sure(r) => req[r].cur < backend[req[r].b].cap
    /\ req[r].pc \in {"nobackend", "nocapacity"} => Sure(r) = {}

RoomTracked == \A r \in Requests : RoomOK(r)

(* What a step does to the history variables. *)
LEMMA Shrinks ==
    ASSUME Watch, NEW r \in Requests
    PROVE  /\ req[r].pc = "new" => Sure(r)' \subseteq req'[r].cands
           /\ req[r].pc # "new" => Sure(r)' \subseteq Sure(r)
           /\ \A b \in Sure(r)' : HasRoom(backend', b) /\ ~LimitFallsUnder(r, b)
           /\ req'[r].pc \in {"leased", "released"} => Sure(r)' = {}
BY DEF Watch, Sure

(* Frame: a request that does not move keeps what it has established. *)
LEMMA RoomFrame ==
    ASSUME TypeOK, TypeOK', Watch, NEW r \in Requests, RoomOK(r), req'[r] = req[r]
    PROVE  RoomOK(r)'
<1>1. /\ req[r].pc = "new" => Sure(r)' \subseteq req[r].cands
      /\ req[r].pc # "new" => Sure(r)' \subseteq Sure(r)
      /\ \A b \in Sure(r)' : HasRoom(backend', b) /\ ~LimitFallsUnder(r, b)
  BY Shrinks
<1>2. ASSUME req[r].pc = "check", req[r].b \in Sure(r)'
      PROVE  req[r].cur < backend'[req[r].b].cap
  <2>0. req[r].b \in Sure(r) /\ Sure(r) \subseteq Backends
    BY <1>1, <1>2, Types DEF Sure
  <2>1. req[r].b \in Sure(r) /\ req[r].b \in Backends /\ req[r].cur < backend[req[r].b].cap
    BY <1>2, <2>0 DEF RoomOK
  <2>2. /\ req[r].cur \in Nat /\ backend[req[r].b].cap \in Nat
        /\ backend'[req[r].b].cap \in Nat
    BY <2>1, Types DEF TypeOK, Backend
  <2>3. ~(backend'[req[r].b].cap < backend[req[r].b].cap /\ backend'[req[r].b].cap <= req[r].cur)
    BY <1>1, <1>2 DEF LimitFallsUnder
  <2> QED BY <2>1, <2>2, <2>3
<1>3. (\A b \in Sure(r) : HasRoom(backend, b))'
  BY <1>1 DEF HasRoom
<1> QED BY <1>1, <1>2, <1>3 DEF RoomOK

(* A step of Acquire, or the release, keeps what the request has established. *)
LEMMA RoomAcquire ==
    ASSUME IInv, IInv', NEW r \in Requests, RoomOK(r), AcquireStep(r) \/ Release(r)
    PROVE  RoomOK(r)'
<1>1. Watch
  BY DEF AcquireStep, AcquireBegin, Scan, ScanDone, AcquireLoad, AcquireFull, AcquireBelow,
         AcquireSwap, AcquireNext, AcquireRejected, Release
<1>2. /\ req[r].pc = "new" => Sure(r)' \subseteq req'[r].cands
      /\ req[r].pc # "new" => Sure(r)' \subseteq Sure(r)
      /\ \A b \in Sure(r)' : HasRoom(backend', b) /\ ~LimitFallsUnder(r, b)
      /\ req'[r].pc \in {"leased", "released"} => Sure(r)' = {}
  BY <1>1, Shrinks
<1>3. (\A b \in Sure(r) : HasRoom(backend, b))'
  BY <1>2 DEF HasRoom
<1>4. /\ req \in [Requests -> Request] /\ req[r] \in Request /\ None \notin Backends
      /\ req[r].todo \in SUBSET Backends
  BY PoolAssumption, Types DEF IInv, TypeOK, Backends
<1>5. ASSUME NEW m \in Models, AcquireBegin(r, m) PROVE RoomOK(r)'
  <2> DEFINE c == StaticFor(m) \cup index[m]
             q == [req[r] EXCEPT !.pc = "scan", !.cands = c, !.todo = c]
  <2>1. req[r].pc = "new" /\ Sure(r)' \subseteq req'[r].cands
    BY <1>2, <1>5 DEF AcquireBegin
  <2>2. CASE c = {}
    <3>1. req'[r].pc = "nobackend" /\ req'[r].cands = {}
      BY <1>4, <1>5, <2>2, AnsweredType DEF AcquireBegin
    <3> QED BY <1>3, <2>1, <3>1 DEF RoomOK
  <2>3. CASE c # {}
    <3>1. req'[r] = q
      BY <1>4, <1>5, <2>3 DEF AcquireBegin
    <3>2. q.pc = "scan" /\ q.cands = c /\ q.todo = c
      BY <1>4 DEF Request
    <3> HIDE DEF q
    <3> QED BY <1>3, <2>1, <3>1, <3>2 DEF RoomOK
  <2> QED BY <2>2, <2>3
<1>6. ASSUME Scan(r) PROVE RoomOK(r)'
  <2>1. PICK b \in req[r].todo :
          req'[r] = IF backend[b].healthy /\ Lighter(b, req[r])
              THEN [req[r] EXCEPT !.todo = req[r].todo \ {b}, !.best = b,
                                  !.load = <<backend[b].inflight, backend[b].weight>>]
              ELSE [req[r] EXCEPT !.todo = req[r].todo \ {b}]
    BY <1>4, <1>6 DEF Scan, Foremost
  <2>2. req[r].pc = "scan" /\ UNCHANGED backend /\ b \in Backends /\ Sure(r)' \subseteq Sure(r)
    BY <1>2, <1>4, <1>6 DEF Scan
  <2>3. /\ req'[r].pc = "scan" /\ req'[r].cands = req[r].cands
        /\ req'[r].todo = req[r].todo \ {b}
        /\ req'[r].best = IF backend[b].healthy /\ Lighter(b, req[r]) THEN b ELSE req[r].best
    BY <1>4, <2>1, <2>2 DEF Request
  <2>4. ASSUME req'[r].best = None PROVE Sure(r)' \subseteq req'[r].todo
    <3>1. req[r].best = None /\ ~backend[b].healthy
      BY <1>4, <2>2, <2>3, <2>4 DEF Lighter
    <3>2. b \notin Sure(r)'
      BY <1>2, <2>2, <3>1 DEF HasRoom
    <3> QED BY <2>2, <2>3, <3>1, <3>2 DEF RoomOK
  <2> QED BY <1>3, <2>2, <2>3, <2>4 DEF RoomOK
<1>7. ASSUME ScanDone(r) PROVE RoomOK(r)'
  <2>1. req[r].pc = "scan" /\ req[r].todo = {} /\ Sure(r)' \subseteq Sure(r)
    BY <1>2, <1>7 DEF ScanDone
  <2>2. CASE req[r].best = None
    <3>1. req'[r].pc = "nobackend"
      BY <1>4, <1>7, <2>2, AnsweredType DEF ScanDone
    <3>2. Sure(r)' = {}
      BY <2>1, <2>2 DEF RoomOK
    <3> QED BY <1>3, <3>1, <3>2 DEF RoomOK
  <2>3. CASE req[r].best # None
    <3>1. req'[r] = [NewRequest EXCEPT !.pc = "load", !.b = req[r].best,
                                       !.cands = req[r].cands, !.todo = req[r].cands]
      BY <1>4, <1>7, <2>3 DEF ScanDone
    <3>2. req'[r].pc = "load" /\ req'[r].todo = req[r].cands
      BY <3>1 DEF NewRequest
    <3> QED BY <1>3, <2>1, <3>2 DEF RoomOK
  <2> QED BY <2>2, <2>3
<1>8. ASSUME AcquireLoad(r) PROVE RoomOK(r)'
  <2>1. /\ req[r].pc = "load" /\ UNCHANGED backend /\ Sure(r)' \subseteq Sure(r)
        /\ req'[r] = [req[r] EXCEPT !.pc = "check", !.cur = backend[req[r].b].inflight]
    BY <1>2, <1>4, <1>8 DEF AcquireLoad
  <2>2. /\ req'[r].pc = "check" /\ req'[r].cur = backend[req[r].b].inflight
        /\ req'[r].b = req[r].b /\ req'[r].todo = req[r].todo
    BY <1>4, <2>1 DEF Request
  <2>3. req[r].b \in Sure(r)' => backend[req[r].b].inflight < backend[req[r].b].cap
    BY <1>2, <2>1 DEF HasRoom
  <2> QED BY <1>3, <2>1, <2>2, <2>3 DEF RoomOK
<1>9. ASSUME AcquireFull(r) PROVE RoomOK(r)'
  <2>1. /\ req[r].pc = "check" /\ req[r].cur >= backend[req[r].b].cap
        /\ Sure(r)' \subseteq Sure(r)
        /\ req'[r] = [req[r] EXCEPT !.pc = "fall", !.b = None, !.cur = 0]
    BY <1>2, <1>4, <1>9 DEF AcquireFull
  <2>2. req'[r].pc = "fall" /\ req'[r].todo = req[r].todo
    BY <1>4, <2>1 DEF Request
  <2>3. req[r].b \notin Sure(r)
    <3>1. req[r].b \in Backends
      BY <2>1 DEF IInv, TargetsExist
    <3>2. req[r].cur \in Nat /\ backend[req[r].b].cap \in Nat
      BY <3>1, Types DEF IInv
    <3> QED BY <2>1, <3>2 DEF RoomOK
  <2> QED BY <1>3, <2>1, <2>2, <2>3 DEF RoomOK
<1>10. ASSUME AcquireBelow(r) PROVE RoomOK(r)'
  <2>1. /\ req[r].pc = "check" /\ Sure(r)' \subseteq Sure(r)
        /\ req'[r] = [req[r] EXCEPT !.pc = "swap", !.lim = backend[req[r].b].cap]
    BY <1>2, <1>4, <1>10 DEF AcquireBelow
  <2>2. req'[r].pc = "swap" /\ req'[r].todo = req[r].todo /\ req'[r].b = req[r].b
    BY <1>4, <2>1 DEF Request
  <2> QED BY <1>3, <2>1, <2>2 DEF RoomOK
<1>11. ASSUME AcquireSwap(r) PROVE RoomOK(r)'
  <2>1. req[r].pc = "swap" /\ Sure(r)' \subseteq Sure(r) /\ req[r].b \in Backends
    BY <1>2, <1>11 DEF AcquireSwap, IInv, TargetsExist
  <2>2. CASE backend[req[r].b].inflight = req[r].cur
    <3>1. req'[r].pc = "leased"
      BY <1>4, <1>11, <2>1, <2>2, AnsweredType DEF AcquireSwap
    <3> QED BY <1>2, <1>3, <3>1 DEF RoomOK
  <2>3. CASE backend[req[r].b].inflight # req[r].cur
    <3>1. req'[r] = [req[r] EXCEPT !.pc = "load", !.cur = 0, !.lim = 0]
      BY <1>4, <1>11, <2>3 DEF AcquireSwap
    <3>2. req'[r].pc = "load" /\ req'[r].todo = req[r].todo /\ req'[r].b = req[r].b
      BY <1>4, <3>1 DEF Request
    <3> QED BY <1>3, <2>1, <3>2 DEF RoomOK
  <2> QED BY <2>2, <2>3
<1>12. ASSUME AcquireNext(r) PROVE RoomOK(r)'
  <2>1. PICK b \in req[r].todo :
          req' = [req EXCEPT ![r].todo = @ \ {b},
                             ![r].pc = IF backend[b].healthy THEN "load" ELSE "fall",
                             ![r].b  = IF backend[b].healthy THEN b ELSE None]
    BY <1>12 DEF AcquireNext, Foremost
  <2>2. req[r].pc = "fall" /\ UNCHANGED backend /\ Sure(r)' \subseteq Sure(r)
    BY <1>2, <1>12 DEF AcquireNext
  <2>3. /\ req'[r].pc = IF backend[b].healthy THEN "load" ELSE "fall"
        /\ req'[r].todo = req[r].todo \ {b}
        /\ req'[r].b = IF backend[b].healthy THEN b ELSE None
    BY <1>4, <2>1 DEF Request
  <2>4. ~backend[b].healthy => b \notin Sure(r)'
    BY <1>2, <2>2 DEF HasRoom
  <2> QED BY <1>3, <2>2, <2>3, <2>4 DEF RoomOK
<1>13. ASSUME AcquireRejected(r) PROVE RoomOK(r)'
  <2>1. req'[r].pc = "nocapacity"
    BY <1>4, <1>13, AnsweredType DEF AcquireRejected
  <2>2. Sure(r)' = {}
    BY <1>2, <1>13 DEF AcquireRejected, RoomOK
  <2> QED BY <1>3, <2>1, <2>2 DEF RoomOK
<1>14. ASSUME Release(r) PROVE RoomOK(r)'
  <2>1. req'[r].pc = "released"
    BY <1>4, <1>14, AnsweredType DEF Release
  <2> QED BY <1>2, <1>3, <2>1 DEF RoomOK
<1> QED BY <1>5, <1>6, <1>7, <1>8, <1>9, <1>10, <1>11, <1>12, <1>13, <1>14 DEF AcquireStep

(* Every step keeps what every request has established. *)
LEMMA RoomNext ==
    ASSUME IInv, IInv', RoomTracked, [Next]_vars PROVE RoomTracked'
<1>1. TypeOK /\ TypeOK' /\ req \in [Requests -> Request]
  BY DEF IInv, TypeOK
<1>2. ASSUME NEW r \in Requests, AcquireStep(r) \/ Release(r) PROVE RoomTracked'
  <2>1. RoomOK(r)'
    BY <1>2, RoomAcquire DEF RoomTracked
  <2>2. Watch /\ \A x \in Requests : x # r => req'[x] = req[x]
    BY <1>1, <1>2 DEF AcquireStep, AcquireBegin, Scan, ScanDone, AcquireLoad, AcquireFull,
         AcquireBelow, AcquireSwap, AcquireNext, AcquireRejected, Release
  <2>3. ASSUME NEW x \in Requests, x # r PROVE RoomOK(x)'
    BY <1>1, <2>2, <2>3, RoomFrame DEF RoomTracked
  <2> QED BY <2>1, <2>3 DEF RoomTracked
<1>3. ASSUME Watch, UNCHANGED req PROVE RoomTracked'
  <2>1. ASSUME NEW x \in Requests PROVE RoomOK(x)'
    BY <1>1, <1>3, RoomFrame DEF RoomTracked
  <2> QED BY <2>1 DEF RoomTracked
<1>4. CASE UNCHANGED vars
  BY <1>4 DEF vars, RoomTracked, RoomOK, HasRoom, Sure
<1>5. ASSUME NEW s \in Statics, Probe(s) PROVE RoomTracked'
  BY <1>3, <1>5 DEF Probe
<1>6. ASSUME NEW n \in Nodes, DropNode(n) PROVE RoomTracked'
  BY <1>3, <1>6 DEF DropNode
<1>7. ASSUME NEW n \in Nodes, NEW e \in Reports, SyncNode(n, e) PROVE RoomTracked'
  BY <1>3, <1>7 DEF SyncNode
<1> QED BY <1>2, <1>4, <1>5, <1>6, <1>7 DEF Next, Traffic

(* Acquire refuses a request only if every candidate it saw was full or down at
   some moment of the call, or had its limit lowered to the count the request was
   about to compare with it, however many requests, probes and polls ran
   meanwhile. *)
THEOREM Justified == Spec => []RejectionJustified
<1>1. Init => RoomTracked
  <2>1. Init => \A r \in Requests : Sure(r) = {} /\ req[r].pc = "new"
    BY DEF Init, NewRequest, Sure
  <2> QED BY <2>1 DEF RoomTracked, RoomOK
<1>2. IInv /\ IInv' /\ RoomTracked /\ [Next]_vars => RoomTracked'
  BY RoomNext
<1>3. RoomTracked => RejectionJustified
  BY DEF RoomTracked, RoomOK, Sure, RejectionJustified
<1> QED BY <1>1, <1>2, <1>3, Inductive, PTL DEF Spec

-----------------------------------------------------------------------------
(* The refinement.  The abstract variables, as Pool's mapping defines them. *)
Holders == [b \in Backends |-> Leases(b)]
Limit == [b \in Backends |-> backend[b].cap]
QuoteOf(q) == IF q.pc = "swap" THEN <<q.b, q.lim>> ELSE <<None, 0>>
Quotes == [r \in Requests |-> QuoteOf(req[r])]
Granted == {r \in Requests : req[r].pc \in {"leased", "released"}}

(* Frame: a step of a request that is about to swap neither before nor after,
   and neither takes nor gives back a slot, is not seen by the semaphore. *)
LEMMA Unseen ==
    ASSUME TypeOK, TypeOK', NEW r \in Requests, NEW q, req' = [req EXCEPT ![r] = q],
           UNCHANGED backend,
           req[r].pc \notin {"swap", "leased", "released"},
           q.pc \notin {"swap", "leased", "released"}
    PROVE  UNCHANGED <<Holders, Limit, Quotes, Granted>>
<1>1. req \in [Requests -> Request] /\ req'[r] = q /\ \A x \in Requests : x # r => req'[x] = req[x]
  BY DEF TypeOK
<1>2. Holders' = Holders
  BY <1>1 DEF Holders, Leases
<1>3. Quotes' = Quotes
  BY <1>1 DEF Quotes, QuoteOf
<1>4. Granted' = Granted
  BY <1>1 DEF Granted
<1>5. Limit' = Limit
  BY DEF Limit
<1> QED BY <1>2, <1>3, <1>4, <1>5

(* The steps of the semaphore, in those terms. *)
LEMMA SemQuote ==
    ASSUME NEW r \in Requests, NEW b \in Backends, r \notin Granted,
           Quotes' = [Quotes EXCEPT ![r] = <<b, Limit[b]>>],
           UNCHANGED <<Holders, Limit, Granted>>
    PROVE  Semaphore!Next
<1>1. Semaphore!Quote(r, b)
  BY DEF Semaphore!Quote, Holders, Limit, Quotes, QuoteOf, Granted
<1> QED BY <1>1 DEF Semaphore!Next

(* A quote is withdrawn. *)
LEMMA SemWithdraw ==
    ASSUME NEW r \in Requests,
           Quotes' = [Quotes EXCEPT ![r] = <<None, 0>>],
           UNCHANGED <<Holders, Limit, Granted>>
    PROVE  Semaphore!Next
<1>1. Semaphore!Withdraw(r)
  BY DEF Semaphore!Withdraw, Semaphore!NoQuote, Holders, Limit, Quotes, QuoteOf, Granted
<1> QED BY <1>1 DEF Semaphore!Next

(* The abstract module counts with the same operator. *)
LEMMA SemCardinality == \A S : Semaphore!Cardinality(S) = Cardinality(S)
BY DEF Semaphore!Cardinality, Cardinality

(* A slot is granted. *)
LEMMA SemGrant ==
    ASSUME NEW r \in Requests, NEW b \in Backends, r \notin Granted,
           Quotes[r][1] = b, Cardinality(Holders[b]) < Quotes[r][2],
           Holders' = [Holders EXCEPT ![b] = @ \cup {r}],
           Quotes' = [Quotes EXCEPT ![r] = <<None, 0>>],
           Granted' = Granted \cup {r},
           UNCHANGED Limit
    PROVE  Semaphore!Next
<1>1. Semaphore!Grant(r, b)
  BY SemCardinality DEF Semaphore!Grant, Semaphore!NoQuote, Holders, Limit, Quotes, QuoteOf, Granted
<1> QED BY <1>1 DEF Semaphore!Next

(* A slot is given back. *)
LEMMA SemGiveBack ==
    ASSUME NEW r \in Requests, NEW b \in Backends, r \in Holders[b],
           Holders' = [Holders EXCEPT ![b] = @ \ {r}],
           UNCHANGED <<Limit, Quotes, Granted>>
    PROVE  Semaphore!Next
<1>1. Semaphore!GiveBack(r, b)
  BY DEF Semaphore!GiveBack, Holders, Limit, Quotes, QuoteOf, Granted
<1> QED BY <1>1 DEF Semaphore!Next

(* Limits move. *)
LEMMA SemSetLimits ==
    ASSUME Limit' \in [Backends -> Nat], UNCHANGED <<Holders, Quotes, Granted>>
    PROVE  Semaphore!Next
<1>1. Semaphore!SetLimits
  BY DEF Semaphore!SetLimits, Holders, Limit, Quotes, QuoteOf, Granted
<1> QED BY <1>1 DEF Semaphore!Next

(* Nothing the semaphore sees changes. *)
LEMMA SemStutter ==
    ASSUME UNCHANGED <<Holders, Limit, Quotes, Granted>> PROVE UNCHANGED Semaphore!vars
BY DEF Semaphore!vars, Holders, Limit, Quotes, QuoteOf, Granted

(* Acquire and Release: AcquireBelow is quoted a limit, a swap that succeeds is
   granted the slot, one that fails withdraws, Release gives back; no other step
   is seen. *)
LEMMA SemAcquire ==
    ASSUME IInv, IInv', NEW r \in Requests, AcquireStep(r) \/ Release(r)
    PROVE  Semaphore!Next \/ UNCHANGED Semaphore!vars
<1>1. TypeOK /\ TypeOK' /\ req \in [Requests -> Request] /\ req[r] \in Request
  BY DEF IInv, TypeOK
<1>2. ASSUME NEW q, req' = [req EXCEPT ![r] = q], UNCHANGED backend,
             req[r].pc \notin {"swap", "leased", "released"},
             q.pc \notin {"swap", "leased", "released"}
      PROVE  UNCHANGED Semaphore!vars
  BY <1>1, <1>2, Unseen, SemStutter
<1>3. ASSUME UNCHANGED backend, req' = [req EXCEPT ![r] = req'[r]],
             req[r].pc \notin {"swap", "leased", "released"},
             req'[r].pc \notin {"swap", "leased", "released"}
      PROVE  UNCHANGED Semaphore!vars
  BY <1>2, <1>3
<1>4. ASSUME NEW m \in Models, AcquireBegin(r, m) PROVE UNCHANGED Semaphore!vars
  <2>1. /\ UNCHANGED backend /\ req' = [req EXCEPT ![r] = req'[r]] /\ req[r].pc = "new"
        /\ \/ req'[r] = Answered("nobackend", None)
           \/ \E c : req'[r] = [req[r] EXCEPT !.pc = "scan", !.cands = c, !.todo = c]
    BY <1>1, <1>4 DEF AcquireBegin
  <2>2. \A c : [req[r] EXCEPT !.pc = "scan", !.cands = c, !.todo = c].pc = "scan"
    BY <1>1 DEF Request
  <2>3. Answered("nobackend", None).pc = "nobackend"
    BY AnsweredType
  <2>4. req'[r].pc \in {"scan", "nobackend"}
    BY <2>1, <2>2, <2>3
  <2> QED BY <1>3, <2>1, <2>4
<1>5. ASSUME Scan(r) PROVE UNCHANGED Semaphore!vars
  <2>1. PICK b \in req[r].todo :
        req' = [req EXCEPT ![r] =
            IF backend[b].healthy /\ Lighter(b, req[r])
              THEN [req[r] EXCEPT !.todo = req[r].todo \ {b}, !.best = b,
                                  !.load = <<backend[b].inflight, backend[b].weight>>]
              ELSE [req[r] EXCEPT !.todo = req[r].todo \ {b}]]
    BY <1>5 DEF Scan, Foremost
  <2>2. req[r].pc = "scan" /\ UNCHANGED backend /\ req' = [req EXCEPT ![r] = req'[r]]
    BY <1>1, <1>5, <2>1 DEF Scan
  <2>3. req'[r].pc = "scan"
    BY <1>1, <2>1, <2>2 DEF Request
  <2> QED BY <1>3, <2>2, <2>3
<1>6. ASSUME ScanDone(r) PROVE UNCHANGED Semaphore!vars
  <2> DEFINE q == [NewRequest EXCEPT !.pc = "load", !.b = req[r].best,
                                     !.cands = req[r].cands, !.todo = req[r].cands]
  <2>1. /\ UNCHANGED backend /\ req' = [req EXCEPT ![r] = req'[r]] /\ req[r].pc = "scan"
        /\ req'[r] = Answered("nobackend", None) \/ req'[r] = q
    BY <1>1, <1>6 DEF ScanDone
  <2>2. q.pc = "load"
    BY DEF NewRequest
  <2>3. Answered("nobackend", None).pc = "nobackend"
    BY AnsweredType
  <2> HIDE DEF q
  <2>4. req'[r].pc \in {"load", "nobackend"}
    BY <2>1, <2>2, <2>3
  <2> QED BY <1>3, <2>1, <2>4
<1>7. ASSUME AcquireLoad(r) PROVE UNCHANGED Semaphore!vars
  <2>1. /\ UNCHANGED backend /\ req' = [req EXCEPT ![r] = req'[r]] /\ req[r].pc = "load"
        /\ req'[r] = [req[r] EXCEPT !.pc = "check", !.cur = backend[req[r].b].inflight]
    BY <1>1, <1>7 DEF AcquireLoad
  <2>2. req'[r].pc = "check"
    BY <1>1, <2>1 DEF Request
  <2> QED BY <1>3, <2>1, <2>2
<1>8. ASSUME AcquireFull(r) PROVE UNCHANGED Semaphore!vars
  <2>1. /\ UNCHANGED backend /\ req' = [req EXCEPT ![r] = req'[r]] /\ req[r].pc = "check"
        /\ req'[r] = [req[r] EXCEPT !.pc = "fall", !.b = None, !.cur = 0]
    BY <1>1, <1>8 DEF AcquireFull
  <2>2. req'[r].pc = "fall"
    BY <1>1, <2>1 DEF Request
  <2> QED BY <1>3, <2>1, <2>2
<1>9. ASSUME AcquireNext(r) PROVE UNCHANGED Semaphore!vars
  <2>1. PICK b \in req[r].todo :
          req' = [req EXCEPT ![r].todo = @ \ {b},
                             ![r].pc = IF backend[b].healthy THEN "load" ELSE "fall",
                             ![r].b  = IF backend[b].healthy THEN b ELSE None]
    BY <1>9 DEF AcquireNext, Foremost
  <2>2. req[r].pc = "fall" /\ UNCHANGED backend /\ req' = [req EXCEPT ![r] = req'[r]]
    BY <1>1, <1>9, <2>1 DEF AcquireNext
  <2>3. req'[r].pc \in {"load", "fall"}
    BY <1>1, <2>1 DEF Request
  <2> QED BY <1>3, <2>2, <2>3
<1>10. ASSUME AcquireRejected(r) PROVE UNCHANGED Semaphore!vars
  BY <1>2, <1>10, AnsweredType DEF AcquireRejected
<1>11. ASSUME AcquireBelow(r) PROVE Semaphore!Next
  <2>0. PICK b \in Backends : b = req[r].b
    BY <1>11 DEF IInv, TargetsExist, AcquireBelow
  <2>1. /\ UNCHANGED backend /\ req[r].pc = "check"
        /\ req' = [req EXCEPT ![r] = [req[r] EXCEPT !.pc = "swap", !.lim = backend[b].cap]]
    BY <1>1, <1>11, <2>0 DEF AcquireBelow
  <2>2. /\ req'[r].pc = "swap" /\ req'[r].b = b /\ req'[r].lim = backend[b].cap
        /\ \A x \in Requests : x # r => req'[x] = req[x]
    BY <1>1, <2>0, <2>1 DEF Request
  <2>3. Quotes' = [Quotes EXCEPT ![r] = <<b, Limit[b]>>]
    BY <2>2 DEF Quotes, QuoteOf, Limit
  <2>4. Holders' = Holders
    BY <2>1, <2>2 DEF Holders, Leases
  <2>5. Granted' = Granted /\ r \notin Granted
    BY <2>1, <2>2 DEF Granted
  <2>6. Limit' = Limit
    BY <2>1 DEF Limit
  <2> QED BY <2>3, <2>4, <2>5, <2>6, SemQuote
<1>12. ASSUME AcquireSwap(r) PROVE Semaphore!Next
  <2>0. PICK b \in Backends : b = req[r].b
    BY <1>12 DEF IInv, TargetsExist, AcquireSwap
  <2>1. req[r].pc = "swap" /\ req[r].cur < req[r].lim
    BY <1>12 DEF IInv, QuotesHonest, QuoteHonest, AcquireSwap
  <2>2. CASE backend[b].inflight = req[r].cur
    <3>1. /\ backend' = [backend EXCEPT ![b].inflight = req[r].cur + 1]
          /\ req' = [req EXCEPT ![r] = Answered("leased", b)]
      BY <1>12, <2>0, <2>2 DEF AcquireSwap
    <3>2. /\ req'[r].pc = "leased" /\ req'[r].b = b
          /\ \A x \in Requests : x # r => req'[x] = req[x]
      BY <1>1, <3>1, AnsweredType
    <3>3. Quotes' = [Quotes EXCEPT ![r] = <<None, 0>>]
      BY <3>2 DEF Quotes, QuoteOf
    <3>4. Holders' = [Holders EXCEPT ![b] = @ \cup {r}]
      <4>1. Leases(b)' = Leases(b) \cup {r}
        BY <3>2 DEF Leases
      <4>2. \A x \in Backends : x # b => Leases(x)' = Leases(x)
        BY <2>1, <3>2 DEF Leases
      <4> QED BY <4>1, <4>2 DEF Holders
    <3>5. Granted' = Granted \cup {r} /\ r \notin Granted
      BY <2>1, <3>2 DEF Granted
    <3>6. Limit' = Limit
      <4>1. req[r].cur + 1 \in Nat
        BY <1>1, Types
      <4> QED BY <1>1, <3>1, <4>1, SetInflight DEF Limit
    <3>7. Quotes[r][1] = b /\ Quotes[r][2] = req[r].lim
      BY <2>0, <2>1 DEF Quotes, QuoteOf
    <3>8. Cardinality(Holders[b]) < Quotes[r][2]
      BY <2>1, <2>2, <3>7 DEF IInv, SlotsMatchLeases, Holders
    <3> QED BY <3>3, <3>4, <3>5, <3>6, <3>7, <3>8, SemGrant
  <2>3. CASE backend[b].inflight # req[r].cur
    <3>1. /\ UNCHANGED backend
          /\ req' = [req EXCEPT ![r] = [req[r] EXCEPT !.pc = "load", !.cur = 0, !.lim = 0]]
      BY <1>1, <1>12, <2>0, <2>3 DEF AcquireSwap
    <3>2. req'[r].pc = "load" /\ \A x \in Requests : x # r => req'[x] = req[x]
      BY <1>1, <3>1 DEF Request
    <3>3. Quotes' = [Quotes EXCEPT ![r] = <<None, 0>>]
      BY <3>2 DEF Quotes, QuoteOf
    <3>4. Holders' = Holders
      BY <2>1, <3>2 DEF Holders, Leases
    <3>5. Granted' = Granted
      BY <2>1, <3>2 DEF Granted
    <3>6. Limit' = Limit
      BY <3>1 DEF Limit
    <3> QED BY <3>3, <3>4, <3>5, <3>6, SemWithdraw
  <2> QED BY <2>2, <2>3
<1>13. ASSUME Release(r) PROVE Semaphore!Next
  <2>0. PICK b \in Backends : b = req[r].b
    BY <1>13 DEF IInv, TargetsExist, Release
  <2>1. /\ req[r].pc = "leased" /\ req' = [req EXCEPT ![r] = Answered("released", None)]
        /\ backend' = [backend EXCEPT ![b] = [backend[b] EXCEPT !.inflight = @ - 1]]
        /\ backend \in [Backends -> Backend] /\ backend[b] \in Backend
    BY <1>13, <2>0 DEF Release, IInv, TypeOK
  <2>2. req'[r].pc = "released" /\ \A x \in Requests : x # r => req'[x] = req[x]
    BY <1>1, <2>1, AnsweredType
  <2>3. Holders' = [Holders EXCEPT ![b] = @ \ {r}]
    <3>1. Leases(b)' = Leases(b) \ {r}
      BY <2>2 DEF Leases
    <3>2. \A x \in Backends : x # b => Leases(x)' = Leases(x)
      BY <2>0, <2>1, <2>2 DEF Leases
    <3> QED BY <3>1, <3>2 DEF Holders
  <2>4. r \in Holders[b]
    BY <2>0, <2>1 DEF Holders, Leases
  <2>5. Quotes' = Quotes
    BY <2>1, <2>2 DEF Quotes, QuoteOf
  <2>6. Granted' = Granted
    BY <2>1, <2>2 DEF Granted
  <2>7. Limit' = Limit
    <3>1. [backend[b] EXCEPT !.inflight = @ - 1].cap = backend[b].cap
      BY <2>1 DEF Backend
    <3>2. \A x \in Backends : backend'[x].cap = backend[x].cap
      BY <2>1, <3>1
    <3> QED BY <3>2 DEF Limit
  <2> QED BY <2>3, <2>4, <2>5, <2>6, <2>7, SemGiveBack
<1> QED BY <1>4, <1>5, <1>6, <1>7, <1>8, <1>9, <1>10, <1>11, <1>12, <1>13 DEF AcquireStep

(* The pool implements the semaphore: under any interleaving of loads, checks,
   swaps, releases, probes and polls, a request gets a slot of a backend only
   while fewer requests hold one than the limit it compared with. *)
THEOREM Refinement == Spec => ImplementsSemaphore
<1>1. Init => Semaphore!Init
  <2> SUFFICES ASSUME Init PROVE Semaphore!Init
    OBVIOUS
  <2>1. TypeOK /\ \A r \in Requests : req[r].pc = "new"
    BY InitIInv DEF IInv, Init, NewRequest
  <2>2. Holders = [b \in Backends |-> {}]
    BY <2>1 DEF Holders, Leases
  <2>3. Quotes = [r \in Requests |-> <<None, 0>>]
    BY <2>1 DEF Quotes, QuoteOf
  <2>4. Granted = {}
    BY <2>1 DEF Granted
  <2>5. Limit \in [Backends -> Nat]
    BY <2>1, Types DEF Limit
  <2> QED BY <2>2, <2>3, <2>4, <2>5
          DEF Semaphore!Init, Semaphore!NoQuote, Holders, Quotes, QuoteOf, Granted, Limit
<1>2. IInv /\ IInv' /\ [Next]_vars => [Semaphore!Next]_(Semaphore!vars)
  <2> SUFFICES ASSUME IInv, IInv', [Next]_vars
               PROVE  Semaphore!Next \/ UNCHANGED Semaphore!vars
    OBVIOUS
  <2>1. ASSUME UNCHANGED req PROVE Semaphore!Next
    <3>1. Holders' = Holders /\ Quotes' = Quotes /\ Granted' = Granted
      BY <2>1 DEF Holders, Leases, Quotes, QuoteOf, Granted
    <3>2. Limit' \in [Backends -> Nat]
      <4>1. \A b \in Backends : backend'[b].cap \in Nat
        BY DEF IInv, TypeOK, Backend
      <4> QED BY <4>1 DEF Limit
    <3> QED BY <3>1, <3>2, SemSetLimits
  <2>2. ASSUME NEW r \in Requests, AcquireStep(r) \/ Release(r)
        PROVE  Semaphore!Next \/ UNCHANGED Semaphore!vars
    BY <2>2, SemAcquire
  <2> QED BY <2>1, <2>2 DEF Next, Traffic, vars, Probe, DropNode, SyncNode
<1>3. Semaphore!Init /\ [][Semaphore!Next]_(Semaphore!vars) => ImplementsSemaphore
  BY DEF ImplementsSemaphore, Semaphore!Spec
<1> QED BY <1>1, <1>2, <1>3, Inductive, PTL DEF Spec

-----------------------------------------------------------------------------
(* The routing tables.  Requests and probes do not touch them, nor the URL or
   the limit of a backend. *)
LEMMA TrafficFrame ==
    ASSUME TypeOK, Traffic
    PROVE  /\ UNCHANGED <<dynamic, nodeKeys, index>>
           /\ \A b \in Backends : /\ backend'[b].url = backend[b].url
                                  /\ backend'[b].cap = backend[b].cap
<1>1. backend \in [Backends -> Backend] /\ Statics \subseteq Backends
  BY DEF TypeOK, Backends
<1>2. ASSUME NEW c, NEW v,
             \/ backend' = [backend EXCEPT ![c].inflight = v]
             \/ backend' = [backend EXCEPT ![c].healthy = v]
      PROVE  \A b \in Backends : /\ backend'[b].url = backend[b].url
                                 /\ backend'[b].cap = backend[b].cap
  BY <1>1, <1>2 DEF Backend
<1>3. ASSUME NEW r \in Requests, AcquireStep(r)
      PROVE  /\ UNCHANGED <<dynamic, nodeKeys, index>>
             /\ UNCHANGED backend \/ \E c, v : backend' = [backend EXCEPT ![c].inflight = v]
  <2>1. CASE AcquireSwap(r)
    <3>1. /\ UNCHANGED <<dynamic, nodeKeys, index>>
          /\ \/ backend' = [backend EXCEPT ![req[r].b].inflight = req[r].cur + 1]
             \/ UNCHANGED backend
      BY <2>1 DEF AcquireSwap
    <3> QED BY <3>1, Zenon
  <2>2. CASE UNCHANGED <<backend, dynamic, nodeKeys, index>>
    BY <2>2
  <2>3. AcquireSwap(r) \/ UNCHANGED <<backend, dynamic, nodeKeys, index>>
    BY <1>3, Zenon
       DEF AcquireStep, AcquireBegin, Scan, ScanDone, AcquireLoad, AcquireFull,
           AcquireBelow, AcquireNext, AcquireRejected
  <2> QED BY <2>1, <2>2, <2>3
<1>4. ASSUME NEW r \in Requests, Release(r)
      PROVE  /\ UNCHANGED <<dynamic, nodeKeys, index>>
             /\ \E c, v : backend' = [backend EXCEPT ![c].inflight = v]
  BY <1>4 DEF Release
<1>5. ASSUME NEW s \in Statics, Probe(s)
      PROVE  /\ UNCHANGED <<dynamic, nodeKeys, index>>
             /\ \E c, v : backend' = [backend EXCEPT ![c].healthy = v]
  BY <1>5 DEF Probe
<1> QED BY <1>2, <1>3, <1>4, <1>5 DEF Traffic

(* The index rebuilt from keys that match the registered engines. *)
LEMMA IndexExact ==
    ASSUME NEW dyn \in [Nodes \X Models -> Objs \cup {None}],
           NEW keys \in [Nodes -> SUBSET Models],
           \A n \in Nodes : \A m \in Models : m \in keys[n] <=> dyn[<<n, m>>] # None
    PROVE  \A m \in Models : Index(dyn, keys)[m] = {dyn[<<n, m>>] : n \in Nodes} \ {None}
BY DEF Index

(* What a poll leaves registered: for the node exactly what it reported, at the
   reported port and limit; for the others what they had. *)
LEMMA SyncTables ==
    ASSUME TypeOK, RoutingConsistent, NEW n \in Nodes, NEW e \in Reports, SyncNode(n, e)
    PROVE  /\ \A m \in Models \cap DOMAIN e :
                 /\ dynamic'[<<n, m>>] \in Objs
                 /\ backend'[dynamic'[<<n, m>>]].url = <<n, e[m].port>>
                 /\ backend'[dynamic'[<<n, m>>]].cap = AtLeastOne(e[m].limit)
           /\ \A m \in Models \ DOMAIN e : dynamic'[<<n, m>>] = None
           /\ \A k \in Nodes \ {n}, m \in Models :
                 /\ dynamic'[<<k, m>>] = dynamic[<<k, m>>]
                 /\ dynamic[<<k, m>>] # None =>
                      backend'[dynamic[<<k, m>>]] = backend[dynamic[<<k, m>>]]
           /\ RoutingConsistent'
<1>1. PICK fresh \in [DOMAIN e \ Kept(n, e) -> Objs \ Referenced] :
        /\ \A m, k \in DOMAIN fresh : m # k => fresh[m] # fresh[k]
        /\ backend' = Updated(n, e, fresh) /\ dynamic' = Registered(n, e, fresh)
  BY DEF SyncNode
<1>2. /\ backend \in [Backends -> Backend]
      /\ dynamic \in [Nodes \X Models -> Objs \cup {None}]
      /\ nodeKeys \in [Nodes -> SUBSET Models]
      /\ Objs \subseteq Backends /\ None \notin Objs
  BY PoolAssumption DEF TypeOK, Backends
<1>3. PICK M \in SUBSET Models : e \in [M -> [port : Ports, limit : Limits]]
  BY DEF Reports
<1>4. DOMAIN e \subseteq Models /\ Kept(n, e) \subseteq DOMAIN e
  BY <1>3 DEF Kept
<1>5. \A k \in Nodes \X Models : dynamic[k] \in Referenced
  BY DEF Referenced
<1>6. \A m \in DOMAIN fresh : /\ m \in DOMAIN e \ Kept(n, e) /\ fresh[m] \in Objs
                             /\ \A k \in Nodes \X Models : fresh[m] # dynamic[k]
  BY <1>1, <1>5
<1>7. \A k, l \in Nodes \X Models : dynamic[k] # None /\ dynamic[k] = dynamic[l] => k = l
  BY DEF RoutingConsistent
<1>8. ASSUME NEW m \in Kept(n, e)
      PROVE  /\ dynamic'[<<n, m>>] = dynamic[<<n, m>>] /\ dynamic[<<n, m>>] \in Objs
             /\ backend'[dynamic[<<n, m>>]] =
                   [backend[dynamic[<<n, m>>]] EXCEPT !.cap = AtLeastOne(e[m].limit)]
             /\ backend[dynamic[<<n, m>>]].url = <<n, e[m].port>>
  <2>1. /\ m \in Models /\ m \in DOMAIN e /\ <<n, m>> \in Nodes \X Models
        /\ dynamic[<<n, m>>] \in Objs /\ m \notin DOMAIN fresh
        /\ backend[dynamic[<<n, m>>]].url = <<n, e[m].port>>
    BY <1>2, <1>4, <1>6 DEF Kept
  <2>2. dynamic'[<<n, m>>] = dynamic[<<n, m>>]
    BY <1>1, <2>1 DEF Registered
  <2>3. \A x \in Kept(n, e) : dynamic[<<n, m>>] = dynamic[<<n, x>>] => x = m
    BY <1>2, <1>4, <1>7, <2>1
  <2>4. backend'[dynamic[<<n, m>>]] =
          [backend[dynamic[<<n, m>>]] EXCEPT !.cap = AtLeastOne(e[m].limit)]
    BY <1>1, <1>2, <2>1, <2>3 DEF Updated
  <2> QED BY <2>1, <2>2, <2>4
<1>9. ASSUME NEW m \in DOMAIN fresh
      PROVE  /\ dynamic'[<<n, m>>] = fresh[m]
             /\ backend'[fresh[m]].url = <<n, e[m].port>>
             /\ backend'[fresh[m]].cap = AtLeastOne(e[m].limit)
  <2>1. m \in Models /\ <<n, m>> \in Nodes \X Models /\ fresh[m] \in Backends
    BY <1>2, <1>4, <1>6
  <2>2. dynamic'[<<n, m>>] = fresh[m]
    BY <1>1, <2>1 DEF Registered
  <2>3. /\ ~ \E x \in Kept(n, e) : fresh[m] = dynamic[<<n, x>>]
        /\ \A x \in DOMAIN fresh : fresh[m] = fresh[x] => x = m
    BY <1>1, <1>4, <1>6
  <2>4. backend'[fresh[m]] =
          [url |-> <<n, e[m].port>>, cap |-> AtLeastOne(e[m].limit),
           weight |-> Weight[n], inflight |-> 0, healthy |-> TRUE]
    BY <1>1, <2>1, <2>3 DEF Updated
  <2> QED BY <2>2, <2>4
<1>10. ASSUME NEW m \in Models \cap DOMAIN e
       PROVE  /\ dynamic'[<<n, m>>] \in Objs
              /\ backend'[dynamic'[<<n, m>>]].url = <<n, e[m].port>>
              /\ backend'[dynamic'[<<n, m>>]].cap = AtLeastOne(e[m].limit)
  <2>1. CASE m \in Kept(n, e)
    <3> DEFINE b == dynamic[<<n, m>>]
    <3>1. /\ backend[b] \in Backend /\ b \in Objs /\ dynamic'[<<n, m>>] = b
          /\ backend'[b] = [backend[b] EXCEPT !.cap = AtLeastOne(e[m].limit)]
          /\ backend[b].url = <<n, e[m].port>>
      BY <1>2, <1>8, <2>1
    <3> QED BY <3>1 DEF Backend
  <2>2. CASE m \in DOMAIN fresh
    BY <1>6, <1>9, <2>2
  <2> QED BY <2>1, <2>2
<1>11. ASSUME NEW m \in Models \ DOMAIN e PROVE dynamic'[<<n, m>>] = None
  <2>1. m \notin DOMAIN fresh /\ (m \notin nodeKeys[n] => dynamic[<<n, m>>] = None)
    BY <1>6 DEF RoutingConsistent
  <2> QED BY <1>1, <2>1 DEF Registered
<1>12. ASSUME NEW k \in Nodes \ {n}, NEW m \in Models
       PROVE  /\ dynamic'[<<k, m>>] = dynamic[<<k, m>>]
              /\ dynamic[<<k, m>>] # None =>
                   backend'[dynamic[<<k, m>>]] = backend[dynamic[<<k, m>>]]
  <2>1. dynamic'[<<k, m>>] = dynamic[<<k, m>>]
    BY <1>1 DEF Registered
  <2>2. ASSUME dynamic[<<k, m>>] # None
        PROVE  /\ ~ \E x \in Kept(n, e) : dynamic[<<k, m>>] = dynamic[<<n, x>>]
               /\ ~ \E x \in DOMAIN fresh : dynamic[<<k, m>>] = fresh[x]
               /\ dynamic[<<k, m>>] \in Backends
    BY <1>2, <1>4, <1>6, <1>7, <2>2
  <2> QED BY <1>1, <2>1, <2>2 DEF Updated
<1>13. /\ nodeKeys' = [nodeKeys EXCEPT ![n] = DOMAIN e]
       /\ index' = Index(dynamic', nodeKeys')
       /\ nodeKeys' \in [Nodes -> SUBSET Models]
  BY <1>2, <1>4 DEF SyncNode
<1>14. dynamic' \in [Nodes \X Models -> Objs \cup {None}]
  <2>1. ASSUME NEW k \in Nodes \X Models PROVE dynamic'[k] \in Objs \cup {None}
    BY <1>1, <1>2, <1>6 DEF Registered
  <2>2. dynamic' = [k \in Nodes \X Models |-> dynamic'[k]]
    BY <1>1 DEF Registered
  <2> QED BY <2>1, <2>2
<1>15. ASSUME NEW k \in Nodes
       PROVE  \A m \in Models : m \in nodeKeys'[k] <=> dynamic'[<<k, m>>] # None
  <2> SUFFICES ASSUME NEW m \in Models PROVE m \in nodeKeys'[k] <=> dynamic'[<<k, m>>] # None
    OBVIOUS
  <2>1. CASE k = n
    <3>1. nodeKeys'[k] = DOMAIN e
      BY <1>2, <1>13, <2>1
    <3>2. m \in DOMAIN e => dynamic'[<<k, m>>] \in Objs
      BY <1>10, <2>1
    <3>3. m \notin DOMAIN e => dynamic'[<<k, m>>] = None
      BY <1>11, <2>1
    <3> QED BY <1>2, <3>1, <3>2, <3>3
  <2>2. CASE k # n
    BY <1>2, <1>12, <1>13, <2>2 DEF RoutingConsistent
  <2> QED BY <2>1, <2>2
<1>16. \A m \in Models : index'[m] = {dynamic'[<<k, m>>] : k \in Nodes} \ {None}
  <2>1. nodeKeys' \in [Nodes -> SUBSET Models] /\ index' = Index(dynamic', nodeKeys')
    BY <1>13
  <2>2. \A k \in Nodes : \A m \in Models : m \in nodeKeys'[k] <=> dynamic'[<<k, m>>] # None
    BY <1>15, Zenon
  <2>3. \A m \in Models : Index(dynamic', nodeKeys')[m] = {dynamic'[<<k, m>>] : k \in Nodes} \ {None}
    BY <1>14, <2>1, <2>2, IndexExact, Zenon
  <2> QED BY <2>1, <2>3, Zenon
<1>17. ASSUME NEW k \in Nodes, NEW m \in Models, dynamic'[<<k, m>>] # None
       PROVE  backend'[dynamic'[<<k, m>>]].url[1] = k
  <2>1. CASE k = n
    BY <1>10, <1>11, <1>17, <2>1
  <2>2. CASE k # n
    BY <1>12, <1>17, <2>2 DEF RoutingConsistent
  <2> QED BY <2>1, <2>2
<1>18. ASSUME NEW k \in Nodes, NEW m \in Models, NEW l \in Nodes, NEW x \in Models,
              dynamic'[<<k, m>>] # None, dynamic'[<<k, m>>] = dynamic'[<<l, x>>]
       PROVE  k = l /\ m = x
  <2>1. k = l
    BY <1>17, <1>18
  <2>2. CASE k # n
    BY <1>7, <1>12, <1>18, <2>1, <2>2
  <2>3. CASE k = n
    <3>1. m \in DOMAIN e /\ x \in DOMAIN e /\ dynamic'[<<n, m>>] = dynamic'[<<n, x>>]
      BY <1>11, <1>18, <2>1, <2>3
    <3>6. \A y \in {m, x} : <<n, y>> \in Nodes \X Models
      OBVIOUS
    <3>2. CASE m \in DOMAIN fresh /\ x \in DOMAIN fresh
      <4>1. fresh[m] = fresh[x]
        BY <1>9, <3>1, <3>2
      <4> QED BY <1>1, <2>1, <3>2, <4>1
    <3>3. CASE m \in Kept(n, e) /\ x \in Kept(n, e)
      <4>1. dynamic[<<n, m>>] = dynamic[<<n, x>>] /\ dynamic[<<n, m>>] # None
        BY <1>2, <1>8, <3>1, <3>3
      <4>2. <<n, m>> = <<n, x>>
        BY <1>7, <3>6, <4>1
      <4> QED BY <2>1, <4>2
    <3>4. CASE m \in Kept(n, e) /\ x \in DOMAIN fresh
      <4>1. dynamic[<<n, m>>] = fresh[x]
        BY <1>8, <1>9, <3>1, <3>4
      <4> QED BY <1>6, <3>4, <3>6, <4>1
    <3>5. CASE m \in DOMAIN fresh /\ x \in Kept(n, e)
      <4>1. dynamic[<<n, x>>] = fresh[m]
        BY <1>8, <1>9, <3>1, <3>5
      <4> QED BY <1>6, <3>5, <3>6, <4>1
    <3> QED BY <2>1, <3>1, <3>2, <3>3, <3>4, <3>5
  <2> QED BY <2>2, <2>3
<1>19. RoutingConsistent'
  <2>1. ASSUME NEW k \in Nodes PROVE nodeKeys'[k] = {m \in Models : dynamic'[<<k, m>>] # None}
    BY <1>13, <1>15
  <2>2. ASSUME NEW k \in Nodes \X Models, NEW l \in Nodes \X Models, dynamic'[k] # None
        PROVE  /\ backend'[dynamic'[k]].url[1] = k[1]
               /\ dynamic'[k] = dynamic'[l] => k = l
    <3>1. k = <<k[1], k[2]>> /\ l = <<l[1], l[2]>>
      OBVIOUS
    <3> QED BY <1>17, <1>18, <2>2, <3>1
  <2> QED BY <1>16, <2>1, <2>2 DEF RoutingConsistent
<1> QED BY <1>10, <1>11, <1>12, <1>19

(* What a dropped node leaves: nothing of its own, all of the others. *)
LEMMA DropTables ==
    ASSUME TypeOK, RoutingConsistent, NEW n \in Nodes, DropNode(n)
    PROVE  /\ \A m \in Models : dynamic'[<<n, m>>] = None
           /\ \A k \in Nodes \ {n} : \A m \in Models : dynamic'[<<k, m>>] = dynamic[<<k, m>>]
           /\ UNCHANGED backend
           /\ RoutingConsistent'
<1>1. /\ dynamic \in [Nodes \X Models -> Objs \cup {None}]
      /\ nodeKeys \in [Nodes -> SUBSET Models]
      /\ UNCHANGED backend
      /\ index' = Index(dynamic', nodeKeys')
      /\ nodeKeys' = [nodeKeys EXCEPT ![n] = {}]
  BY DEF TypeOK, DropNode
<1>2. /\ dynamic' \in [Nodes \X Models -> Objs \cup {None}]
      /\ nodeKeys' \in [Nodes -> SUBSET Models]
  BY <1>1 DEF DropNode
<1>3. ASSUME NEW m \in Models PROVE dynamic'[<<n, m>>] = None
  <2>1. m \notin nodeKeys[n] => dynamic[<<n, m>>] = None
    BY DEF RoutingConsistent
  <2> QED BY <2>1 DEF DropNode
<1>4. ASSUME NEW k \in Nodes \ {n}, NEW m \in Models PROVE dynamic'[<<k, m>>] = dynamic[<<k, m>>]
  BY DEF DropNode
<1>5. ASSUME NEW k \in Nodes
      PROVE  /\ nodeKeys'[k] = {m \in Models : dynamic'[<<k, m>>] # None}
             /\ \A m \in Models : m \in nodeKeys'[k] <=> dynamic'[<<k, m>>] # None
  <2>1. nodeKeys'[k] = {m \in Models : dynamic'[<<k, m>>] # None}
    <3>1. CASE k = n
      BY <1>1, <1>3, <3>1
    <3>2. CASE k # n
      <4>1. nodeKeys'[k] = nodeKeys[k] /\ nodeKeys[k] = {m \in Models : dynamic[<<k, m>>] # None}
        BY <1>1, <3>2 DEF RoutingConsistent
      <4> QED BY <1>4, <3>2, <4>1
    <3> QED BY <3>1, <3>2
  <2> QED BY <2>1
<1>6. \A m \in Models : index'[m] = {dynamic'[<<k, m>>] : k \in Nodes} \ {None}
  <2>1. \A k \in Nodes : \A m \in Models : m \in nodeKeys'[k] <=> dynamic'[<<k, m>>] # None
    BY <1>5, Zenon
  <2>2. \A m \in Models : Index(dynamic', nodeKeys')[m] = {dynamic'[<<k, m>>] : k \in Nodes} \ {None}
    BY <1>2, <2>1, IndexExact, Zenon
  <2> QED BY <1>1, <2>2, Zenon
<1>7. ASSUME NEW k \in Nodes \X Models, NEW l \in Nodes \X Models, dynamic'[k] # None
      PROVE  /\ backend'[dynamic'[k]].url[1] = k[1]
             /\ dynamic'[k] = dynamic'[l] => k = l
  <2>1. dynamic'[k] = dynamic[k] /\ (dynamic'[l] = dynamic[l] \/ dynamic'[l] = None)
    BY <1>7 DEF DropNode
  <2> QED BY <1>1, <1>7, <2>1 DEF RoutingConsistent
<1>8. RoutingConsistent'
  BY <1>5, <1>6, <1>7 DEF RoutingConsistent
<1> QED BY <1>1, <1>3, <1>4, <1>8

(* The three routing tables of the pool agree in every reachable state, for any
   number of nodes and models and whatever is polled, dropped or moved to another
   port while requests hold leases on the old objects. *)
THEOREM Routes == Spec => []RoutingConsistent
<1>1. Init => RoutingConsistent
  <2> SUFFICES ASSUME Init PROVE RoutingConsistent
    OBVIOUS
  <2>1. /\ \A k \in Nodes \X Models : dynamic[k] = None
        /\ \A n \in Nodes : nodeKeys[n] = {}
        /\ \A m \in Models : index[m] = {}
    BY DEF Init
  <2>2. \A n \in Nodes : {m \in Models : dynamic[<<n, m>>] # None} = {}
    BY <2>1
  <2>3. \A m \in Models : {dynamic[<<n, m>>] : n \in Nodes} \ {None} = {}
    BY <2>1
  <2> QED BY <2>1, <2>2, <2>3, Zenon DEF RoutingConsistent
<1>2. TypeOK /\ RoutingConsistent /\ [Next]_vars => RoutingConsistent'
  <2> SUFFICES ASSUME TypeOK, RoutingConsistent, [Next]_vars PROVE RoutingConsistent'
    OBVIOUS
  <2>1. CASE Traffic
    <3>1. /\ UNCHANGED <<dynamic, nodeKeys, index>>
          /\ \A b \in Backends : backend'[b].url = backend[b].url
      BY <2>1, TrafficFrame
    <3>2. \A k \in Nodes \X Models : dynamic[k] # None => dynamic[k] \in Backends
      BY DEF TypeOK, Backends
    <3> QED BY <3>1, <3>2 DEF RoutingConsistent
  <2>2. CASE UNCHANGED vars
    BY <2>2 DEF vars, RoutingConsistent
  <2>3. ASSUME NEW n \in Nodes, DropNode(n) PROVE RoutingConsistent'
    BY <2>3, DropTables
  <2>4. ASSUME NEW n \in Nodes, NEW e \in Reports, SyncNode(n, e) PROVE RoutingConsistent'
    BY <2>4, SyncTables
  <2> QED BY <2>1, <2>2, <2>3, <2>4 DEF Next
<1> QED BY <1>1, <1>2, TypeCorrect, PTL DEF Spec

-----------------------------------------------------------------------------
(***************************************************************************)
(* The node manager.                                                       *)
(***************************************************************************)

(* A node is dropped only once it has been silent for too long. *)
DropsAreLate == \A n \in Nodes : poll[n] = "drop" => silent[n] > Grace

(* What MirrorsReport says, in terms of the registered objects. *)
MirrorOf(n, m) ==
    LET b == dynamic[<<n, m>>] IN
    /\ b # None <=> m \in DOMAIN info[n] /\ info[n][m].ready
    /\ b # None => /\ backend[b].url = <<n, info[n][m].port>>
                   /\ \A c \in {NodeMax[n], info[n][m].seqs} \ {0} : backend[b].cap <= c

Mirrored ==
    \A n \in Nodes : silent[n] <= Grace /\ poll[n] # "sync" => \A m \in Models : MirrorOf(n, m)

NMInv == NMTypeOK /\ DropsAreLate /\ Mirrored

-----------------------------------------------------------------------------
(* MinPositive picks one of its arguments, and exceeds neither that is set. *)
LEMMA MinPositiveBound ==
    ASSUME NEW a \in Nat, NEW b \in Nat
    PROVE  /\ MinPositive(a, b) \in {a, b}
           /\ \A c \in {a, b} \ {0} : AtLeastOne(MinPositive(a, b)) <= c
BY DEF MinPositive, AtLeastOne

(* The entries a poll makes of an agent's answer are a report the pool expects. *)
LEMMA EntriesReport ==
    ASSUME NEW n \in Nodes, NEW i \in Infos
    PROVE  /\ Entries(n, i) \in Reports
           /\ DOMAIN Entries(n, i) = {m \in DOMAIN i : i[m].ready}
           /\ DOMAIN i \subseteq Models
           /\ \A m \in DOMAIN i : i[m] \in Instance
<1>1. PICK M \in SUBSET Models : i \in [M -> Instance]
  BY DEF Infos
<1>2. DOMAIN i = M /\ \A m \in M : i[m] \in Instance
  BY <1>1
<1> DEFINE R == {m \in M : i[m].ready}
<1>3. Entries(n, i) = [m \in R |->
        [port |-> i[m].port, limit |-> MinPositive(NodeMax[n], i[m].seqs)]]
  BY <1>2 DEF Entries
<1>4. \A m \in M : i[m].port \in Ports /\ i[m].seqs \in Seqs
  BY <1>2 DEF Instance
<1>5. ASSUME NEW m \in M PROVE MinPositive(NodeMax[n], i[m].seqs) \in Limits
  <2>1. i[m].seqs \in Limits /\ NodeMax[n] \in Limits
    BY <1>4, NodeAssumption
  <2> QED BY <2>1 DEF MinPositive
<1>6. Entries(n, i) \in [R -> [port : Ports, limit : Limits]]
  BY <1>3, <1>4, <1>5
<1>7. \A m, k \in R : m # k => Entries(n, i)[m].port # Entries(n, i)[k].port
  <2>1. \A m, k \in M : m # k => i[m].port # i[k].port
    BY <1>2 DEF Infos
  <2> QED BY <1>3, <2>1
<1>8. R \in SUBSET Models /\ DOMAIN Entries(n, i) = R
  BY <1>3
<1>9. Entries(n, i) \in UNION {[K -> [port : Ports, limit : Limits]] : K \in SUBSET Models}
  BY <1>6, <1>8
<1>10. Entries(n, i) \in Reports
  BY <1>7, <1>8, <1>9 DEF Reports
<1> QED BY <1>2, <1>8, <1>10

-----------------------------------------------------------------------------
(* The types are kept. *)
LEMMA NMTypeInit == NMInit => NMTypeOK
<1> SUFFICES ASSUME NMInit PROVE NMTypeOK
  OBVIOUS
<1>1. Nothing \in Infos
  <2>1. Nothing \in [{} -> Instance] /\ DOMAIN Nothing = {} /\ {} \in SUBSET Models
    BY DEF Nothing
  <2> QED BY <2>1 DEF Infos
<1>2. Never \in 0..Never
  BY NodeAssumption DEF Never
<1> QED BY <1>1, <1>2 DEF NMInit, NMTypeOK

LEMMA NMTypeStep == ASSUME NMTypeOK, NMNext PROVE NMTypeOK'
<1> USE DEF NMTypeOK
<1>1. CASE PollAll
  BY <1>1 DEF PollAll
<1>2. CASE Tick
  <2>1. ASSUME NEW n \in Nodes, silent[n] <= Grace PROVE silent[n] + 1 \in 0..Never
    BY <2>1, NodeAssumption DEF Never
  <2> QED BY <1>2, <2>1 DEF Tick
<1>3. CASE Serve
  BY <1>3 DEF Serve, nodeVars
<1>4. ASSUME NEW n \in Nodes, EngineChange(n) PROVE NMTypeOK'
  BY <1>4 DEF EngineChange
<1>5. ASSUME NEW n \in Nodes, PollFails(n) PROVE NMTypeOK'
  BY <1>5 DEF PollFails
<1>6. ASSUME NEW n \in Nodes, PollAnswers(n) PROVE NMTypeOK'
  <2>1. 0 \in 0..Never
    BY NodeAssumption DEF Never
  <2> QED BY <1>6, <2>1 DEF PollAnswers
<1>7. ASSUME NEW n \in Nodes, PollDrops(n) \/ PollSyncs(n) PROVE NMTypeOK'
  BY <1>7 DEF PollDrops, PollSyncs
<1> QED BY <1>1, <1>2, <1>3, <1>4, <1>5, <1>6, <1>7 DEF NMNext, PollStep

(* Every step of the manager is a step of the pool or leaves it alone. *)
LEMMA PoolStep == ASSUME NMTypeOK, NMNext PROVE [Next]_vars
<1>1. ASSUME NEW n \in Nodes, PollSyncs(n) PROVE Next
  <2>1. info[n] \in Infos
    BY DEF NMTypeOK
  <2>2. Entries(n, info[n]) \in Reports
    BY <2>1, EntriesReport
  <2> QED BY <1>1, <2>2 DEF PollSyncs, Next
<1>2. ASSUME NEW n \in Nodes, PollDrops(n) PROVE Next
  BY <1>2 DEF PollDrops, Next
<1>3. CASE Serve
  BY <1>3 DEF Serve, Next
<1>4. ASSUME NEW n \in Nodes, EngineChange(n) \/ PollFails(n) \/ PollAnswers(n)
      PROVE  UNCHANGED vars
  BY <1>4 DEF EngineChange, PollFails, PollAnswers
<1>5. CASE PollAll \/ Tick
  BY <1>5 DEF PollAll, Tick
<1> QED BY <1>1, <1>2, <1>3, <1>4, <1>5 DEF NMNext, PollStep

(* The manager implements the pool it is built on: whatever it does to the
   routing tables is a poll's report or a drop, so what is proved of the pool
   holds with the manager's grace period and limits as well. *)
THEOREM DrivesPool == NMSpec => Spec
<1>1. NMInit => Init
  BY DEF NMInit
<1>2. NMTypeOK /\ [NMNext]_nmvars => NMTypeOK' /\ [Next]_vars
  <2>1. UNCHANGED nmvars => UNCHANGED vars /\ (NMTypeOK => NMTypeOK')
    BY DEF nmvars, nodeVars, NMTypeOK
  <2> QED BY <2>1, NMTypeStep, PoolStep
<1> QED BY <1>1, <1>2, NMTypeInit, PTL DEF NMSpec, Spec

-----------------------------------------------------------------------------
(* A step that leaves a node's report alone, and its objects but for their
   counters and health, leaves the mirror alone. *)
LEMMA MirrorFrame ==
    ASSUME NEW n \in Nodes, NEW m \in Models, MirrorOf(n, m), info'[n] = info[n],
           dynamic'[<<n, m>>] = dynamic[<<n, m>>],
           dynamic[<<n, m>>] # None =>
               /\ backend'[dynamic[<<n, m>>]].url = backend[dynamic[<<n, m>>]].url
               /\ backend'[dynamic[<<n, m>>]].cap = backend[dynamic[<<n, m>>]].cap
    PROVE  MirrorOf(n, m)'
BY DEF MirrorOf

(* A step that leaves the pool alone and no node silent for less long. *)
LEMMA QuietStep ==
    ASSUME NMInv, UNCHANGED <<vars, info>>,
           \A n \in Nodes : silent'[n] <= Grace /\ poll'[n] # "sync"
                              => silent[n] <= Grace /\ poll[n] # "sync"
    PROVE  Mirrored'
<1> SUFFICES ASSUME NEW n \in Nodes, silent'[n] <= Grace /\ poll'[n] # "sync",
                    NEW m \in Models
             PROVE  MirrorOf(n, m)'
  BY DEF Mirrored
<1>1. MirrorOf(n, m)
  BY DEF NMInv, Mirrored
<1> QED BY <1>1, MirrorFrame DEF vars

(* What the sync of a poll leaves mirrors the report of that poll. *)
LEMMA SyncMirror ==
    ASSUME TypeOK, RoutingConsistent, NMTypeOK, NEW n \in Nodes, PollSyncs(n),
           NEW m \in Models
    PROVE  MirrorOf(n, m)'
<1> DEFINE e == Entries(n, info[n])
<1>1. info[n] \in Infos /\ SyncNode(n, e) /\ info' = info
  BY DEF NMTypeOK, PollSyncs
<1>2. /\ e \in Reports /\ DOMAIN e = {k \in DOMAIN info[n] : info[n][k].ready}
      /\ \A k \in DOMAIN info[n] : info[n][k] \in Instance
  BY <1>1, EntriesReport
<1>3. CASE m \in DOMAIN e
  <2>1. e[m] = [port |-> info[n][m].port, limit |-> MinPositive(NodeMax[n], info[n][m].seqs)]
    BY <1>2, <1>3 DEF Entries
  <2>2. /\ dynamic'[<<n, m>>] \in Objs
        /\ backend'[dynamic'[<<n, m>>]].url = <<n, e[m].port>>
        /\ backend'[dynamic'[<<n, m>>]].cap = AtLeastOne(e[m].limit)
    <3> HIDE DEF e
    <3> QED BY <1>1, <1>2, <1>3, SyncTables
  <2>3. NodeMax[n] \in Nat /\ info[n][m].seqs \in Nat
    BY <1>2, <1>3, NodeAssumption, PoolAssumption DEF Instance
  <2>4. \A c \in {NodeMax[n], info[n][m].seqs} \ {0} : AtLeastOne(e[m].limit) <= c
    BY <2>1, <2>3, MinPositiveBound
  <2>5. e[m].port = info[n][m].port
    BY <2>1
  <2>6. m \in DOMAIN info[n] /\ info[n][m].ready /\ None \notin Objs
    BY <1>2, <1>3, PoolAssumption
  <2> HIDE DEF e
  <2> QED BY <1>1, <2>2, <2>4, <2>5, <2>6 DEF MirrorOf
<1>4. CASE m \notin DOMAIN e
  <2>1. dynamic'[<<n, m>>] = None
    <3> HIDE DEF e
    <3> QED BY <1>1, <1>2, <1>4, SyncTables
  <2>2. ~(m \in DOMAIN info[n] /\ info[n][m].ready)
    BY <1>2, <1>4
  <2> QED BY <1>1, <2>1, <2>2 DEF MirrorOf
<1> QED BY <1>3, <1>4

(* A poll of one node leaves the mirrors of the others alone. *)
LEMMA OthersMirrored ==
    ASSUME NMInv, TypeOK, NEW n \in Nodes, NEW k \in Nodes \ {n},
           info' = info, silent' = silent, poll' = [poll EXCEPT ![n] = "idle"],
           \A m \in Models :
               /\ dynamic'[<<k, m>>] = dynamic[<<k, m>>]
               /\ dynamic[<<k, m>>] # None =>
                    backend'[dynamic[<<k, m>>]] = backend[dynamic[<<k, m>>]],
           silent'[k] <= Grace, poll'[k] # "sync", NEW m \in Models
    PROVE  MirrorOf(k, m)'
<1>1. silent[k] <= Grace /\ poll[k] # "sync"
  BY DEF NMInv, NMTypeOK
<1>2. MirrorOf(k, m)
  BY <1>1 DEF NMInv, Mirrored
<1> QED BY <1>2, MirrorFrame

LEMMA MirrorStep ==
    ASSUME NMInv, TypeOK, RoutingConsistent, NMNext PROVE Mirrored' /\ DropsAreLate'
<1>1. /\ engine \in [Nodes -> Infos] /\ info \in [Nodes -> Infos]
      /\ silent \in [Nodes -> 0..Never]
      /\ poll \in [Nodes -> {"idle", "asked", "drop", "sync"}]
      /\ Grace \in Nat /\ Never \in Nat
  BY NodeAssumption DEF NMInv, NMTypeOK, Never
<1>2. CASE PollAll
  <2>1. Mirrored'
    BY <1>1, <1>2, QuietStep DEF PollAll
  <2> QED BY <1>1, <1>2, <2>1 DEF PollAll, DropsAreLate
<1>3. CASE Tick
  <2>1. \A n \in Nodes : silent'[n] >= silent[n]
    BY <1>1, <1>3 DEF Tick
  <2>2. \A n \in Nodes : silent[n] \in Nat /\ silent'[n] \in Nat
    BY <1>1, <1>3 DEF Tick
  <2>3. Mirrored'
    BY <1>1, <1>3, <2>1, <2>2, QuietStep DEF Tick
  <2> QED BY <1>1, <1>3, <2>1, <2>2, <2>3 DEF Tick, NMInv, DropsAreLate
<1>4. CASE Serve
  <2>1. /\ UNCHANGED <<dynamic, nodeKeys, index>> /\ UNCHANGED nodeVars
        /\ \A b \in Backends : backend'[b].url = backend[b].url /\ backend'[b].cap = backend[b].cap
    BY <1>4, TrafficFrame DEF Serve
  <2>2. \A k \in Nodes \X Models : dynamic[k] # None => dynamic[k] \in Backends
    BY DEF TypeOK, Backends
  <2>3. Mirrored'
    <3> SUFFICES ASSUME NEW n \in Nodes, silent'[n] <= Grace /\ poll'[n] # "sync",
                        NEW m \in Models
                 PROVE  MirrorOf(n, m)'
      BY DEF Mirrored
    <3>1. MirrorOf(n, m)
      BY <2>1 DEF NMInv, Mirrored, nodeVars
    <3> QED BY <2>1, <2>2, <3>1, MirrorFrame DEF nodeVars
  <2> QED BY <2>1, <2>3 DEF nodeVars, NMInv, DropsAreLate
<1>5. ASSUME NEW n \in Nodes, EngineChange(n) PROVE Mirrored' /\ DropsAreLate'
  <2>1. Mirrored'
    BY <1>5, QuietStep DEF EngineChange
  <2> QED BY <1>5, <2>1 DEF EngineChange, NMInv, DropsAreLate
<1>6. ASSUME NEW n \in Nodes, PollFails(n) PROVE Mirrored' /\ DropsAreLate'
  <2>1. Mirrored'
    BY <1>1, <1>6, QuietStep DEF PollFails
  <2> QED BY <1>1, <1>6, <2>1 DEF PollFails, NMInv, DropsAreLate
<1>7. ASSUME NEW n \in Nodes, PollAnswers(n) PROVE Mirrored' /\ DropsAreLate'
  <2>1. DropsAreLate'
    BY <1>1, <1>7 DEF PollAnswers, NMInv, DropsAreLate
  <2>2. ASSUME NEW k \in Nodes, silent'[k] <= Grace /\ poll'[k] # "sync", NEW m \in Models
        PROVE  MirrorOf(k, m)'
    <3>1. /\ k # n /\ silent[k] <= Grace /\ poll[k] # "sync" /\ info'[k] = info[k]
          /\ UNCHANGED vars
      BY <1>1, <1>7, <2>2 DEF PollAnswers
    <3>2. MirrorOf(k, m)
      BY <3>1 DEF NMInv, Mirrored
    <3> QED BY <3>1, <3>2, MirrorFrame DEF vars
  <2> QED BY <2>1, <2>2 DEF Mirrored
<1>8. ASSUME NEW n \in Nodes, PollDrops(n) PROVE Mirrored' /\ DropsAreLate'
  <2>1. /\ poll[n] = "drop" /\ DropNode(n) /\ poll' = [poll EXCEPT ![n] = "idle"]
        /\ info' = info /\ silent' = silent
    BY <1>8 DEF PollDrops
  <2>2. silent[n] > Grace
    BY <2>1 DEF NMInv, DropsAreLate
  <2>3. ASSUME NEW k \in Nodes, silent'[k] <= Grace /\ poll'[k] # "sync", NEW m \in Models
        PROVE  MirrorOf(k, m)'
    <3>1. k # n
      BY <1>1, <2>1, <2>2, <2>3
    <3>2. \A x \in Models : dynamic'[<<k, x>>] = dynamic[<<k, x>>] /\ backend' = backend
      BY <2>1, <3>1, DropTables
    <3> QED BY <2>1, <2>3, <3>1, <3>2, OthersMirrored
  <2> QED BY <1>1, <2>1, <2>3 DEF Mirrored, NMInv, DropsAreLate
<1>9. ASSUME NEW n \in Nodes, PollSyncs(n) PROVE Mirrored' /\ DropsAreLate'
  <2>1. /\ SyncNode(n, Entries(n, info[n])) /\ poll' = [poll EXCEPT ![n] = "idle"]
        /\ info' = info /\ silent' = silent /\ Entries(n, info[n]) \in Reports
    BY <1>1, <1>9, EntriesReport DEF PollSyncs
  <2>2. ASSUME NEW k \in Nodes, silent'[k] <= Grace /\ poll'[k] # "sync", NEW m \in Models
        PROVE  MirrorOf(k, m)'
    <3>1. CASE k = n
      BY <1>9, <3>1, SyncMirror DEF NMInv
    <3>2. CASE k # n
      <4>1. \A x \in Models :
              /\ dynamic'[<<k, x>>] = dynamic[<<k, x>>]
              /\ dynamic[<<k, x>>] # None =>
                   backend'[dynamic[<<k, x>>]] = backend[dynamic[<<k, x>>]]
        BY <2>1, <3>2, SyncTables
      <4> QED BY <2>1, <2>2, <3>2, <4>1, OthersMirrored
    <3> QED BY <3>1, <3>2
  <2> QED BY <1>1, <2>1, <2>2 DEF Mirrored, NMInv, DropsAreLate
<1> QED BY <1>2, <1>3, <1>4, <1>5, <1>6, <1>7, <1>8, <1>9 DEF NMNext, PollStep

(* The candidates of a model on a node are the object registered for them. *)
LEMMA RoutedIs ==
    ASSUME TypeOK, RoutingConsistent, NEW n \in Nodes, NEW m \in Models
    PROVE  Routed(n, m) = {dynamic[<<n, m>>]} \ {None}
<1>1. index[m] = {dynamic[<<k, m>>] : k \in Nodes} \ {None}
  BY DEF RoutingConsistent
<1>2. ASSUME NEW k \in Nodes, dynamic[<<k, m>>] # None
      PROVE  backend[dynamic[<<k, m>>]].url[1] = k
  <2>1. <<k, m>> \in Nodes \X Models /\ <<k, m>>[1] = k
    OBVIOUS
  <2> QED BY <1>2, <2>1 DEF RoutingConsistent
<1>3. ASSUME NEW b PROVE b \in Routed(n, m) <=> b \in {dynamic[<<n, m>>]} \ {None}
  <2>1. b \in Routed(n, m) <=> b \in index[m] /\ backend[b].url[1] = n
    BY DEF Routed
  <2>2. b \in index[m] <=> b # None /\ \E k \in Nodes : b = dynamic[<<k, m>>]
    BY <1>1
  <2> QED BY <1>2, <2>1, <2>2
<1> QED BY <1>3

(* The pool's routing tables agree while the manager polls, drops and mirrors
   nodes concurrently with requests. *)
THEOREM NodeRoutes == NMSpec => []RoutingConsistent
BY DrivesPool, Routes, PTL

(* For any fleet and grace period, a node that was heard of within the grace
   period keeps exactly the engines it reported ready, at the reported ports and
   within both limits, whatever polls of it fail and whatever the other nodes'
   polls do: poll's error path (nodes.go, poll) costs no route. *)
THEOREM Mirrors == NMSpec => []MirrorsReport
<1>1. NMInit => NMInv
  <2> SUFFICES ASSUME NMInit PROVE NMInv
    OBVIOUS
  <2>1. \A n \in Nodes : ~(silent[n] <= Grace) /\ poll[n] = "idle"
    BY NodeAssumption DEF NMInit, Never
  <2> QED BY <2>1, NMTypeInit DEF NMInv, Mirrored, DropsAreLate
<1>2. NMInv /\ TypeOK /\ RoutingConsistent /\ [NMNext]_nmvars => NMInv'
  <2> SUFFICES ASSUME NMInv, TypeOK, RoutingConsistent, [NMNext]_nmvars PROVE NMInv'
    OBVIOUS
  <2>1. CASE NMNext
    BY <2>1, NMTypeStep, MirrorStep DEF NMInv
  <2>2. CASE UNCHANGED nmvars
    BY <2>2 DEF nmvars, nodeVars, vars, NMInv, NMTypeOK, Mirrored, MirrorOf, DropsAreLate
  <2> QED BY <2>1, <2>2
<1>3. NMInv /\ TypeOK /\ RoutingConsistent => MirrorsReport
  <2> SUFFICES ASSUME NMInv, TypeOK, RoutingConsistent, NEW n \in Nodes, NEW m \in Models,
                      silent[n] <= Grace /\ poll[n] # "sync"
               PROVE  /\ {backend[b].url[2] : b \in Routed(n, m)} =
                            (IF m \in DOMAIN info[n] /\ info[n][m].ready
                               THEN {info[n][m].port} ELSE {})
                      /\ \A b \in Routed(n, m) :
                            \A c \in {NodeMax[n], info[n][m].seqs} \ {0} : backend[b].cap <= c
    BY DEF MirrorsReport
  <2>1. MirrorOf(n, m) /\ Routed(n, m) = {dynamic[<<n, m>>]} \ {None}
    BY RoutedIs DEF NMInv, Mirrored
  <2>2. CASE dynamic[<<n, m>>] = None
    BY <2>1, <2>2 DEF MirrorOf
  <2>3. CASE dynamic[<<n, m>>] # None
    <3>1. Routed(n, m) = {dynamic[<<n, m>>]}
      BY <2>1, <2>3
    <3>2. /\ backend[dynamic[<<n, m>>]].url[2] = info[n][m].port
          /\ m \in DOMAIN info[n] /\ info[n][m].ready
          /\ \A c \in {NodeMax[n], info[n][m].seqs} \ {0} : backend[dynamic[<<n, m>>]].cap <= c
      BY <2>1, <2>3 DEF MirrorOf
    <3> QED BY <3>1, <3>2
  <2> QED BY <2>2, <2>3
<1>4. NMSpec => []TypeOK
  BY DrivesPool, TypeCorrect, PTL
<1> QED BY <1>1, <1>2, <1>3, <1>4, NodeRoutes, PTL DEF NMSpec

=============================================================================
