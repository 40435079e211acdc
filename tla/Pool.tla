--------------------------------- MODULE Pool ---------------------------------
(***************************************************************************)
(* The gateway's backend pool (internal/upstream/pool.go): which engines   *)
(* can serve a model, and the admission slot each request holds on one.    *)
(*                                                                         *)
(* Static backends come from the configuration and are probed for health.  *)
(* Dynamic ones are engines the node agents report: the poller of each     *)
(* node replaces that node's entries (SyncNode) or drops them (DropNode).  *)
(* Requests run Acquire concurrently with all of it, and with no lock once *)
(* they have their candidates: every load of a counter, every compare-and- *)
(* swap and every health check is a step of its own.                       *)
(***************************************************************************)
EXTENDS Naturals, FiniteSets

CONSTANTS
    Nodes,         \* node agents
    Models,        \* model ids
    Ports,         \* engine ports; an engine's URL is its node and its port
    Statics,       \* backends of the configuration
    StaticModels,  \* the models each of them serves
    StaticCap,     \* their max_concurrency
    Objs,          \* identities of dynamic Backend objects
    Limits,        \* values of max_concurrency a poll can report
    Weight,        \* configured weight of each static backend and each node
    Requests,      \* client requests, each calling Acquire once
    None           \* nil

ASSUME PoolAssumption ==
    /\ StaticModels \in [Statics -> SUBSET Models]
    /\ StaticCap \in [Statics -> Nat \ {0}]
    /\ Weight \in [Statics \cup Nodes -> Nat \ {0}]
    /\ Limits \subseteq Nat
    /\ Statics \cap Objs = {}
    /\ None \notin Statics \cup Objs \cup Models \cup Ports
    /\ IsFiniteSet(Requests)

VARIABLES
    backend,   \* the Backend objects
    dynamic,   \* p.dynamic, keyed by node and model
    nodeKeys,  \* p.dynamicByNode
    index,     \* p.dynamicByModel
    req,       \* the requests' progress in Acquire, and their lease
    room,      \* history: candidates that had room at every moment of Acquire
    lowered    \* history: those of them whose limit fell between the load of their
               \* counter and the comparison, to the count the request had loaded

vars == <<backend, dynamic, nodeKeys, index, req, room, lowered>>

Backends == Statics \cup Objs

(* An object no map and no request refers to has been collected. *)
Blank == [url |-> <<None, None>>, cap |-> 0, weight |-> 1,
          inflight |-> 0, healthy |-> FALSE]

NewRequest == [pc |-> "new", cands |-> {}, todo |-> {}, best |-> None,
               load |-> <<0, 1>>, b |-> None, cur |-> 0, lim |-> 0]

(* Acquire returns: a lease on b, or ErrNoBackend or ErrNoCapacity. *)
Answered(pc, b) == [NewRequest EXCEPT !.pc = pc, !.b = b]

(* NewPool: healthy at boot. *)
Init ==
    /\ backend = [b \in Backends |->
          IF b \in Statics
            THEN [url |-> <<b, None>>, cap |-> StaticCap[b], weight |-> Weight[b],
                  inflight |-> 0, healthy |-> TRUE]
            ELSE Blank]
    /\ dynamic = [k \in Nodes \X Models |-> None]
    /\ nodeKeys = [n \in Nodes |-> {}]
    /\ index = [m \in Models |-> {}]
    /\ req = [r \in Requests |-> NewRequest]
    /\ room = [r \in Requests |-> {}]
    /\ lowered = [r \in Requests |-> {}]

-----------------------------------------------------------------------------
(* History: the candidates that have been healthy and below their limit ever
   since the request read the routing tables (one that got its slot needs none),
   and those among them that a poll has put out of its reach: the request holds a
   count it has loaded and not compared yet, and the limit falls to it. *)
HasRoom(be, b) == be[b].healthy /\ be[b].inflight < be[b].cap

LimitFallsUnder(r, b) ==
    /\ req[r].pc = "check" /\ req[r].b = b
    /\ backend'[b].cap < backend[b].cap /\ backend'[b].cap <= req[r].cur

Watch ==
    /\ room' = [r \in Requests |->
          {b \in (IF req[r].pc = "new" THEN req'[r].cands ELSE room[r]) :
              req'[r].pc \notin {"leased", "released"} /\ HasRoom(backend', b)}]
    /\ lowered' = [r \in Requests |->
          {b \in room'[r] : b \in lowered[r] \/ LimitFallsUnder(r, b)}]

-----------------------------------------------------------------------------
(* Acquire *)

StaticFor(m) == {s \in Statics : m \in StaticModels[s]}

(* Read byModel and dynamicByModel under the read lock. *)
AcquireBegin(r, m) ==
    /\ req[r].pc = "new"
    /\ LET cands == StaticFor(m) \cup index[m] IN
        req' = [req EXCEPT ![r] =
            IF cands = {} THEN Answered("nobackend", None)
            ELSE [@ EXCEPT !.pc = "scan", !.cands = cands, !.todo = cands]]
    /\ UNCHANGED <<backend, dynamic, nodeKeys, index>>
    /\ Watch

(* inflight/weight of b is below the best load so far; nothing is best yet. *)
Lighter(b, q) ==
    \/ q.best = None
    \/ backend[b].inflight * q.load[2] < q.load[1] * backend[b].weight

(* Configured candidates come before those the agents reported. *)
Foremost(S) == IF S \cap Statics # {} THEN S \cap Statics ELSE S

(* The scan for the least-loaded healthy candidate, one candidate a step. *)
Scan(r) ==
    /\ req[r].pc = "scan"
    /\ \E b \in Foremost(req[r].todo) :
        req' = [req EXCEPT ![r] =
            IF backend[b].healthy /\ Lighter(b, req[r])
              THEN [req[r] EXCEPT !.todo = req[r].todo \ {b}, !.best = b,
                                  !.load = <<backend[b].inflight, backend[b].weight>>]
              ELSE [req[r] EXCEPT !.todo = req[r].todo \ {b}]]
    /\ UNCHANGED <<backend, dynamic, nodeKeys, index>>
    /\ Watch

(* No healthy candidate, or the best one is tried first; then all of them. *)
ScanDone(r) ==
    /\ req[r].pc = "scan"
    /\ req[r].todo = {}
    /\ req' = [req EXCEPT ![r] =
          IF @.best = None THEN Answered("nobackend", None)
          ELSE [NewRequest EXCEPT !.pc = "load", !.b = req[r].best,
                                  !.cands = req[r].cands, !.todo = req[r].cands]]
    /\ UNCHANGED <<backend, dynamic, nodeKeys, index>>
    /\ Watch

(* Backend.acquire: load the counter ... *)
AcquireLoad(r) ==
    /\ req[r].pc = "load"
    /\ req' = [req EXCEPT ![r].pc = "check", ![r].cur = backend[req[r].b].inflight]
    /\ UNCHANGED <<backend, dynamic, nodeKeys, index>>
    /\ Watch

(* A mutant of the next action: a full replica ends the call. *)
AcquireFullGivesUp(r) ==
    /\ req[r].pc = "check"
    /\ req[r].cur >= backend[req[r].b].cap
    /\ req' = [req EXCEPT ![r] = Answered("nocapacity", None)]
    /\ UNCHANGED <<backend, dynamic, nodeKeys, index>>
    /\ Watch

(* ... compare it with the limit of this moment (SyncNode changes it without
   regard to readers); on failure Acquire falls through to the others ... *)
AcquireFull(r) ==
    /\ req[r].pc = "check"
    /\ req[r].cur >= backend[req[r].b].cap
    /\ req' = [req EXCEPT ![r].pc = "fall", ![r].b = None, ![r].cur = 0]
    /\ UNCHANGED <<backend, dynamic, nodeKeys, index>>
    /\ Watch

(* A mutant: off by one. *)
AcquireBelowOrAt(r) ==
    /\ req[r].pc = "check"
    /\ req[r].cur <= backend[req[r].b].cap
    /\ req' = [req EXCEPT ![r].pc = "swap", ![r].lim = backend[req[r].b].cap]
    /\ UNCHANGED <<backend, dynamic, nodeKeys, index>>
    /\ Watch

AcquireBelow(r) ==
    /\ req[r].pc = "check"
    /\ req[r].cur < backend[req[r].b].cap
    /\ req' = [req EXCEPT ![r].pc = "swap", ![r].lim = backend[req[r].b].cap]
    /\ UNCHANGED <<backend, dynamic, nodeKeys, index>>
    /\ Watch

(* A mutant: a plain store of the loaded count plus one. *)
AcquireStore(r) ==
    /\ req[r].pc = "swap"
    /\ backend' = [backend EXCEPT ![req[r].b].inflight = req[r].cur + 1]
    /\ req' = [req EXCEPT ![r] = Answered("leased", req[r].b)]
    /\ UNCHANGED <<dynamic, nodeKeys, index>>
    /\ Watch

(* ... and swap it in, or start over if it has moved meanwhile. *)
AcquireSwap(r) ==
    /\ req[r].pc = "swap"
    /\ LET b == req[r].b IN
        IF backend[b].inflight = req[r].cur
          THEN /\ backend' = [backend EXCEPT ![b].inflight = req[r].cur + 1]
               /\ req' = [req EXCEPT ![r] = Answered("leased", b)]
          ELSE /\ req' = [req EXCEPT ![r].pc = "load", ![r].cur = 0, ![r].lim = 0]
               /\ UNCHANGED backend
    /\ UNCHANGED <<dynamic, nodeKeys, index>>
    /\ Watch

(* Any healthy candidate that has not been retried yet is next. *)
AcquireNext(r) ==
    /\ req[r].pc = "fall"
    /\ \E b \in Foremost(req[r].todo) :
        req' = [req EXCEPT ![r].todo = @ \ {b},
                           ![r].pc = IF backend[b].healthy THEN "load" ELSE "fall",
                           ![r].b  = IF backend[b].healthy THEN b ELSE None]
    /\ UNCHANGED <<backend, dynamic, nodeKeys, index>>
    /\ Watch

AcquireRejected(r) ==
    /\ req[r].pc = "fall"
    /\ req[r].todo = {}
    /\ req' = [req EXCEPT ![r] = Answered("nocapacity", None)]
    /\ UNCHANGED <<backend, dynamic, nodeKeys, index>>
    /\ Watch

(* The deferred Lease.Release of the handler; sync.Once makes it the only one. *)
Release(r) ==
    /\ req[r].pc = "leased"
    /\ backend' = [backend EXCEPT ![req[r].b].inflight = @ - 1]
    /\ req' = [req EXCEPT ![r] = Answered("released", None)]
    /\ UNCHANGED <<dynamic, nodeKeys, index>>
    /\ Watch

-----------------------------------------------------------------------------
(* Health: the outcome of a probe of a static backend. *)
Probe(s) ==
    /\ backend' = [backend EXCEPT ![s].healthy = ~@]
    /\ UNCHANGED <<dynamic, nodeKeys, index, req>>
    /\ Watch

-----------------------------------------------------------------------------
(* The poller.  A report of a node gives for each model it has ready the port
   of its engine and the admission limit; engines have ports of their own. *)
Reports ==
    {e \in UNION {[M -> [port : Ports, limit : Limits]] : M \in SUBSET Models} :
        \A m, k \in DOMAIN e : m # k => e[m].port # e[k].port}

AtLeastOne(c) == IF c > 1 THEN c ELSE 1

Referenced ==
    {dynamic[k] : k \in Nodes \X Models}
        \cup (UNION {req[r].cands : r \in Requests}) \cup {req[r].b : r \in Requests}

(* Same key and same URL: the object is kept, with its counter. *)
Kept(n, e) ==
    {m \in DOMAIN e : /\ dynamic[<<n, m>>] # None
                      /\ backend[dynamic[<<n, m>>]].url = <<n, e[m].port>>}

(* A mutant: the new entries are merged into the old index. *)
IndexMerged(dyn, keys) ==
    [m \in Models |-> index[m] \cup
        ({dyn[<<n, m>>] : n \in {k \in Nodes : m \in keys[k]}} \ {None})]

(* The model index, rebuilt from the keys of every node. *)
Index(dyn, keys) ==
    [m \in Models |-> {dyn[<<n, m>>] : n \in {k \in Nodes : m \in keys[k]}} \ {None}]

(* The backends after a poll: a kept object gets the reported limit, a new one
   is healthy and idle. *)
Updated(n, e, fresh) ==
    [b \in Backends |->
        IF \E m \in Kept(n, e) : b = dynamic[<<n, m>>]
          THEN LET m == CHOOSE m \in Kept(n, e) : b = dynamic[<<n, m>>]
               IN [backend[b] EXCEPT !.cap = AtLeastOne(e[m].limit)]
        ELSE IF \E m \in DOMAIN fresh : b = fresh[m]
          THEN LET m == CHOOSE m \in DOMAIN fresh : b = fresh[m]
               IN [url |-> <<n, e[m].port>>, cap |-> AtLeastOne(e[m].limit),
                   weight |-> Weight[n], inflight |-> 0, healthy |-> TRUE]
        ELSE backend[b]]

(* Reported engines are registered, the node's other keys deleted. *)
Registered(n, e, fresh) ==
    [k \in Nodes \X Models |->
        IF k[1] = n /\ k[2] \in DOMAIN fresh THEN fresh[k[2]]
        ELSE IF k[1] = n /\ k[2] \in nodeKeys[n] \ DOMAIN e THEN None
        ELSE dynamic[k]]

SyncNode(n, e) ==
    /\ \E fresh \in [DOMAIN e \ Kept(n, e) -> Objs \ Referenced] :
        /\ \A m, k \in DOMAIN fresh : m # k => fresh[m] # fresh[k]
        /\ backend' = Updated(n, e, fresh)
        /\ dynamic' = Registered(n, e, fresh)
    /\ nodeKeys' = [nodeKeys EXCEPT ![n] = DOMAIN e]
    /\ index' = Index(dynamic', nodeKeys')
    /\ UNCHANGED req
    /\ Watch

DropNode(n) ==
    /\ dynamic' = [k \in Nodes \X Models |->
          IF k[1] = n /\ k[2] \in nodeKeys[n] THEN None ELSE dynamic[k]]
    /\ nodeKeys' = [nodeKeys EXCEPT ![n] = {}]
    /\ index' = Index(dynamic', nodeKeys')
    /\ UNCHANGED <<backend, req>>
    /\ Watch

-----------------------------------------------------------------------------
AcquireStep(r) ==
    \/ \E m \in Models : AcquireBegin(r, m)
    \/ Scan(r) \/ ScanDone(r)
    \/ AcquireLoad(r) \/ AcquireFull(r) \/ AcquireBelow(r) \/ AcquireSwap(r)
    \/ AcquireNext(r) \/ AcquireRejected(r)

Traffic ==
    \/ \E r \in Requests : AcquireStep(r) \/ Release(r)
    \/ \E s \in Statics : Probe(s)

Next ==
    \/ Traffic
    \/ \E n \in Nodes : DropNode(n) \/ \E e \in Reports : SyncNode(n, e)

Spec == Init /\ [][Next]_vars

-----------------------------------------------------------------------------
(* Correctness *)

Leases(b) == {r \in Requests : req[r].pc = "leased" /\ req[r].b = b}

Backend ==
    [url : (Statics \cup Nodes \cup {None}) \X (Ports \cup {None}),
     cap : Nat, weight : Nat, inflight : Nat, healthy : BOOLEAN]

Request ==
    [pc : {"new", "scan", "load", "check", "swap", "fall",
           "leased", "released", "nobackend", "nocapacity"},
     cands : SUBSET Backends, todo : SUBSET Backends,
     best : Backends \cup {None}, load : Nat \X Nat,
     b : Backends \cup {None}, cur : Nat, lim : Nat]

TypeOK ==
    /\ backend \in [Backends -> Backend]
    /\ dynamic \in [Nodes \X Models -> Objs \cup {None}]
    /\ nodeKeys \in [Nodes -> SUBSET Models]
    /\ index \in [Models -> SUBSET Objs]
    /\ req \in [Requests -> Request]
    /\ room \in [Requests -> SUBSET Backends]
    /\ lowered \in [Requests -> SUBSET Backends]

(* The counter of a backend is the number of requests that hold a lease on it,
   under any interleaving of Acquire, Release and the polls that replace or
   drop the object while leases on it are out: no slot leaks, none is lent
   twice, and a recycled key does not inherit a count. *)
SlotsMatchLeases ==
    \A b \in Backends : backend[b].inflight = Cardinality(Leases(b))

(* A configured backend never carries more requests than its
   max_concurrency. *)
StaticWithinLimit ==
    \A s \in Statics : Cardinality(Leases(s)) <= StaticCap[s]

(* Acquire turns a request away (429 or 503) only when every candidate it saw
   was full or down at some moment of the call, or had its limit lowered to the
   count the request was just about to compare with it: a burst, a probe and any
   other poll never make it overlook a replica that had room all along. *)
RejectionJustified ==
    \A r \in Requests : req[r].pc \in {"nobackend", "nocapacity"} => room[r] \subseteq lowered[r]

(* The three routing tables agree: a model's candidates are exactly the engines
   registered for it, each under one key, with a URL on the node that reported
   it. *)
RoutingConsistent ==
    /\ \A n \in Nodes : nodeKeys[n] = {m \in Models : dynamic[<<n, m>>] # None}
    /\ \A m \in Models : index[m] = {dynamic[<<n, m>>] : n \in Nodes} \ {None}
    /\ \A k, l \in Nodes \X Models :
          dynamic[k] # None =>
              /\ backend[dynamic[k]].url[1] = k[1]
              /\ dynamic[k] = dynamic[l] => k = l

(* The pool implements the abstract semaphore: a slot is granted only while the
   requests that hold one are fewer than the limit the request compared with,
   whatever moved between the load, the comparison and the swap. *)
Semaphore == INSTANCE Admission WITH
    holders <- [b \in Backends |-> Leases(b)],
    limit   <- [b \in Backends |-> backend[b].cap],
    quote   <- [r \in Requests |->
                  IF req[r].pc = "swap" THEN <<req[r].b, req[r].lim>> ELSE <<None, 0>>],
    served  <- {r \in Requests : req[r].pc \in {"leased", "released"}}

ImplementsSemaphore == Semaphore!Spec

-----------------------------------------------------------------------------
(* "Try the best candidate first, then fall through the rest: the winner may have
   filled up between the scan and the acquire" (pool.go, lines 351-352): a request
   is refused only if each of its candidates was full or down at some moment.
   Violated: with 1 of 2 slots taken when a request loads the counter, the slot
   given back and the limit lowered to 1 before it compares, it sees a full
   replica that had room at every moment. *)
NeverOverlooked ==
    \A r \in Requests : req[r].pc \in {"nobackend", "nocapacity"} => room[r] = {}

(* "Each backend has a hard admission limit" (README.md, line 85): the requests
   on one engine never exceed the largest limit ever reported for it.  Violated:
   the limit belongs to the Backend object, not to the engine behind it. *)
EngineWithinLimit ==
    \A n \in Nodes, q \in Ports :
        \E c \in Limits \cup {1} :
            Cardinality({r \in Requests :
                req[r].pc = "leased" /\ backend[req[r].b].url = <<n, q>>}) <= c

=============================================================================
