--------------------------------- MODULE Keys ---------------------------------
(***************************************************************************)
(* API keys at the door of the gateway: the cache of key lookups, the      *)
(* rate limiter (internal/gateway/auth.go) and the operations that disable, *)
(* enable and delete keys (admin.go, account.go, internal/store/keys.go).  *)
(*                                                                         *)
(* The read of the database and the entry in the cache are two steps of a  *)
(* request, the change of the database and the purge of the cache two steps *)
(* of the operator's, and nothing orders the one against the other.  Time  *)
(* is counted in ticks; a tick is at least as long as Lag says.            *)
(***************************************************************************)
EXTENDS Naturals, FiniteSets

CONSTANTS
    Secrets,     \* bearer tokens clients present
    Keys,        \* those of keys that exist, each the only one of its key
    TTL,         \* keyCacheTTL
    Lag,         \* the most time between the read of a key and its entry
    MaxEntries,  \* the size beyond which put starts the cache over
    Minute,      \* the rate limiter's window
    Limit,       \* rpm_limit; a key without one is never refused
    Requests, Handlers, None

ASSUME KeysAssumption ==
    /\ Keys \subseteq Secrets
    /\ {TTL, Lag, MaxEntries} \subseteq Nat /\ {Minute, Limit} \subseteq Nat \ {0}
    /\ None \notin Secrets \cup [age : Nat, count : Nat]

VARIABLES
    row,      \* the key's row: "on", "disabled" or "deleted"
    cache,    \* cachedKey of each secret: its age and ok
    window,   \* rlWindow of each key: its age and count
    req,      \* the requests
    handler,  \* the handlers of the operator, and the key they changed
    valid,    \* history: how long ago each key was last valid
    doubt,    \* history: how long ago it was last invalid, or a read failed
    raced,    \* history: keys read as valid, and not yet entered, when revoked
    passed    \* history: requests of a key let through in the last 1, 2, ... ticks

vars == <<row, cache, window, req, handler, valid, doubt, raced, passed>>
history == <<valid, doubt, raced, passed>>

Forgotten == TTL + Lag + 1
Free == [pc |-> "idle", s |-> None, ok |-> FALSE, age |-> 0]

On(s) == s \in Keys /\ row[s] = "on"

Init ==
    /\ row = [k \in Keys |-> "on"]
    /\ cache = [s \in Secrets |-> None]
    /\ window = [k \in Keys |-> None]
    /\ req = [r \in Requests |-> Free]
    /\ handler = [h \in Handlers |-> None]
    /\ valid = [s \in Secrets |-> IF s \in Keys THEN 0 ELSE Forgotten]
    /\ doubt = [s \in Secrets |-> IF s \in Keys THEN Forgotten ELSE 0]
    /\ raced = {}
    /\ passed = [k \in Keys |-> [t \in 0..(Minute - 1) |-> 0]]

Answer(r, s, ok) ==
    req' = [req EXCEPT ![r] = IF ok THEN [Free EXCEPT !.pc = "let in", !.s = s] ELSE Free]

-----------------------------------------------------------------------------
(* keyCache.get *)
Hit(s) == cache[s] # None /\ cache[s].age <= TTL

(* A mutant: a hit renews the entry. *)
PresentHitRenews(r, s) ==
    /\ req[r].pc = "idle"
    /\ Hit(s)
    /\ Answer(r, s, cache[s].ok)
    /\ cache' = [cache EXCEPT ![s].age = 0]
    /\ UNCHANGED <<row, window, handler, history>>

(* authenticate: an entry that is not too old decides ... *)
PresentHit(r, s) ==
    /\ req[r].pc = "idle"
    /\ Hit(s)
    /\ Answer(r, s, cache[s].ok)
    /\ UNCHANGED <<row, cache, window, handler, history>>

(* ... else LookupKey reads the row; a read that fails or times out is an
   unknown key like any other. *)
PresentMiss(r, s) ==
    /\ req[r].pc = "idle"
    /\ ~Hit(s)
    /\ \E failed \in BOOLEAN :
        /\ req' = [req EXCEPT ![r] = [pc |-> "put", s |-> s, ok |-> On(s) /\ ~failed, age |-> 0]]
        /\ doubt' = IF failed THEN [doubt EXCEPT ![s] = 0] ELSE doubt
    /\ UNCHANGED <<row, cache, window, handler, valid, raced, passed>>

(* keyCache.put, and the answer. *)
Put(r) ==
    /\ req[r].pc = "put"
    /\ LET s == req[r].s
           full == Cardinality({x \in Secrets : cache[x] # None}) > MaxEntries
       IN /\ cache' = [x \in Secrets |->
                IF x = s THEN [age |-> 0, ok |-> req[r].ok]
                ELSE IF full THEN None ELSE cache[x]]
          /\ Answer(r, s, req[r].ok)
    /\ UNCHANGED <<row, window, handler, history>>

-----------------------------------------------------------------------------
Pass(r) ==
    /\ req' = [req EXCEPT ![r] = Free]
    /\ passed' = [passed EXCEPT ![req[r].s] = [t \in 0..(Minute - 1) |-> @[t] + 1]]
    /\ UNCHANGED <<row, cache, handler, valid, doubt, raced>>

Open(k) == window[k] # None /\ window[k].age < Minute

(* rateLimiter.allow: a new window, or one more in this one ... *)
AllowNew(r) ==
    /\ req[r].pc = "let in"
    /\ ~Open(req[r].s)
    /\ window' = [window EXCEPT ![req[r].s] = [age |-> 0, count |-> 1]]
    /\ Pass(r)

AllowMore(r) ==
    /\ req[r].pc = "let in"
    /\ Open(req[r].s) /\ window[req[r].s].count < Limit
    /\ window' = [window EXCEPT ![req[r].s].count = @ + 1]
    /\ Pass(r)

(* ... or 429. *)
Refuse(r) ==
    /\ req[r].pc = "let in"
    /\ Open(req[r].s) /\ window[req[r].s].count >= Limit
    /\ req' = [req EXCEPT ![r] = Free]
    /\ UNCHANGED <<row, cache, window, handler, history>>

(* A mutant: windows are swept as soon as they are a tick old. *)
SweepEarly ==
    /\ \E k \in Keys : window[k] # None /\ window[k].age >= 1
    /\ window' = [k \in Keys |->
          IF window[k] # None /\ window[k].age >= 1 THEN None ELSE window[k]]
    /\ UNCHANGED <<row, cache, req, handler, history>>

(* The maintenance loop drops windows older than five minutes. *)
Sweep ==
    /\ \E k \in Keys : window[k] # None /\ window[k].age > 5 * Minute
    /\ window' = [k \in Keys |->
          IF window[k] # None /\ window[k].age > 5 * Minute THEN None ELSE window[k]]
    /\ UNCHANGED <<row, cache, req, handler, history>>

-----------------------------------------------------------------------------
(* adminToggleKey, adminDeleteKey, userDeleteKey: the row ... *)
ChangeRow(h, k, to) ==
    /\ handler[h] = None /\ row[k] # "deleted"
    /\ row' = [row EXCEPT ![k] = to]
    /\ handler' = [handler EXCEPT ![h] = k]
    /\ IF to = "on"
         THEN valid' = [valid EXCEPT ![k] = 0] /\ raced' = raced \ {k} /\ UNCHANGED doubt
         ELSE /\ doubt' = [doubt EXCEPT ![k] = 0]
              /\ raced' = raced \cup
                    {s \in {k} : \E r \in Requests : req[r].pc = "put" /\ req[r].s = k /\ req[r].ok}
              /\ UNCHANGED valid
    /\ UNCHANGED <<cache, window, req, passed>>

(* A mutant: the entries are left to age out. *)
PurgeNothing(h) ==
    /\ handler[h] # None
    /\ handler' = [handler EXCEPT ![h] = None]
    /\ UNCHANGED <<row, cache, window, req, history>>

(* ... then the cache. *)
Purge(h) ==
    /\ handler[h] # None
    /\ cache' = [s \in Secrets |-> None]
    /\ handler' = [handler EXCEPT ![h] = None]
    /\ UNCHANGED <<row, window, req, history>>

(* A reload of the configuration purges it too. *)
ReloadPurge ==
    /\ \E s \in Secrets : cache[s] # None
    /\ cache' = [s \in Secrets |-> None]
    /\ UNCHANGED <<row, window, req, handler, history>>

-----------------------------------------------------------------------------
Older(e, most) == IF e = None THEN None ELSE [e EXCEPT !.age = IF @ > most THEN @ ELSE @ + 1]

Longer(ago) == IF ago < Forgotten THEN ago + 1 ELSE ago

(* Time passes, but never more than Lag between a read and its entry. *)
Tick ==
    /\ \A r \in Requests : req[r].pc = "put" => req[r].age < Lag
    /\ req' = [r \in Requests |->
          IF req[r].pc = "put" THEN [req[r] EXCEPT !.age = @ + 1] ELSE req[r]]
    /\ cache' = [s \in Secrets |-> Older(cache[s], TTL)]
    /\ window' = [k \in Keys |-> Older(window[k], 5 * Minute)]
    /\ valid' = [s \in Secrets |-> IF On(s) THEN 0 ELSE Longer(valid[s])]
    /\ doubt' = [s \in Secrets |-> IF On(s) THEN Longer(doubt[s]) ELSE 0]
    /\ passed' = [k \in Keys |->
          [t \in 0..(Minute - 1) |-> IF t = 0 THEN 0 ELSE passed[k][t - 1]]]
    /\ UNCHANGED <<row, handler, raced>>

Next ==
    \/ \E r \in Requests :
        \/ \E s \in Secrets : PresentHit(r, s) \/ PresentMiss(r, s)
        \/ Put(r) \/ AllowNew(r) \/ AllowMore(r) \/ Refuse(r)
    \/ \E h \in Handlers :
        \/ \E k \in Keys, to \in {"on", "disabled", "deleted"} : ChangeRow(h, k, to)
        \/ Purge(h)
    \/ Sweep \/ ReloadPurge \/ Tick

Spec == Init /\ [][Next]_vars

-----------------------------------------------------------------------------
(* Correctness *)

(* The variables keep their types, and a request that is being looked up or has
   been let in presented a token. *)
TypeOK ==
    /\ row \in [Keys -> {"on", "disabled", "deleted"}]
    /\ cache \in [Secrets -> [age : Nat, ok : BOOLEAN] \cup {None}]
    /\ window \in [Keys -> [age : Nat, count : Nat] \cup {None}]
    /\ req \in [Requests -> [pc : {"idle", "put", "let in"}, s : Secrets \cup {None},
                             ok : BOOLEAN, age : Nat]]
    /\ \A r \in Requests : req[r].pc # "idle" => req[r].s \in Secrets
    /\ handler \in [Handlers -> Keys \cup {None}]
    /\ valid \in [Secrets -> Nat] /\ doubt \in [Secrets -> Nat]
    /\ raced \in SUBSET Keys
    /\ passed \in [Keys -> [0..(Minute - 1) -> Nat]]

LetIn(r, s) == req[r].pc # "let in" /\ req'[r].pc = "let in" /\ req'[r].s = s

TurnedAway(r, s) ==
    \/ req[r].pc = "put" /\ req[r].s = s /\ req'[r].pc = "idle"
    \/ PresentHit(r, s) /\ req'[r].pc = "idle"

(* The cache never answers from the distant past, however often an entry is
   used, replaced or purged: who is let in had a valid key within the TTL and
   the time of a lookup, and who is turned away had none, or a lookup of it
   failed, within the same time. *)
AnswersAreRecent ==
    [][\A r \in Requests, s \in Secrets :
        /\ LetIn(r, s) => valid[s] <= TTL + Lag
        /\ TurnedAway(r, s) => doubt[s] <= TTL + Lag]_vars

(* Once the handler that revoked a key has returned, nobody is let in with it,
   unless a request had read the row and not yet entered it in the cache. *)
RevokedAtOnce ==
    [][\A r \in Requests, k \in Keys :
        LetIn(r, k) => On(k) \/ k \in raced \/ \E h \in Handlers : handler[h] = k]_vars

(* A key gets at most twice its limit through in any window's time, also when
   windows end, are swept and begin again: the "2x burst across a boundary". *)
BurstBounded == \A k \in Keys : passed[k][Minute - 1] <= 2 * Limit

-----------------------------------------------------------------------------
(* "Drop cached lookups so the change takes effect now rather than after the
   cache TTL" (admin.go, line 344).  Violated: a request that read the row before
   the change enters it in the cache after the purge, and the revoked key works
   for another TTL. *)
RevokedNow ==
    [][\A r \in Requests, k \in Keys :
        LetIn(r, k) => On(k) \/ \E h \in Handlers : handler[h] = k]_vars

=============================================================================
