------------------------------ MODULE KeysProofs ------------------------------
(***************************************************************************)
(* Proofs about Keys, for any tokens, keys, requests and handlers, any     *)
(* lifetime of an entry, any size of the cache, and any limit and window   *)
(* of the rate limiter.                                                    *)
(***************************************************************************)
EXTENDS Keys, TLAPS

Entry == [age : Nat, ok : BOOLEAN]
Window == [age : Nat, count : Nat]
Request == [pc : {"idle", "put", "let in"}, s : Secrets \cup {None}, ok : BOOLEAN, age : Nat]
Ticks == 0..(Minute - 1)

-----------------------------------------------------------------------------
(* The inductive invariant *)

(* Only the token of a key is ever found valid. *)
OnlyKeys ==
    /\ \A s \in Secrets : cache[s] # None /\ cache[s].ok => s \in Keys
    /\ \A r \in Requests : req[r].pc = "let in" => req[r].s \in Keys
    /\ \A r \in Requests : req[r].pc = "put" /\ req[r].ok => req[r].s \in Keys

(* What a key is now, it has been last at this moment. *)
Dated ==
    \A s \in Secrets : (On(s) => valid[s] = 0) /\ (~On(s) => doubt[s] = 0)

(* A row that has been read and not yet entered is no older than its reading. *)
ReadsRecent ==
    \A r \in Requests : req[r].pc = "put" =>
        /\ req[r].age <= Lag
        /\ req[r].ok => valid[req[r].s] <= req[r].age
        /\ ~req[r].ok => doubt[req[r].s] <= req[r].age

(* An entry that can still answer is at most the lag of a lookup older than its
   age says. *)
EntriesRecent ==
    \A s \in Secrets : Hit(s) =>
        /\ cache[s].ok => valid[s] <= cache[s].age + Lag
        /\ ~cache[s].ok => doubt[s] <= cache[s].age + Lag

(* A valid row read before a revocation and entered after it is what raced
   records; an entry it left, or that is older than the revocation, is either
   such a one or has the purge still to come. *)
RevokedReads ==
    \A r \in Requests :
        req[r].pc = "put" /\ req[r].ok /\ ~On(req[r].s) => req[r].s \in raced

Revoking(s) == \E h \in Handlers : handler[h] = s

RevokedEntries ==
    \A s \in Secrets :
        cache[s] # None /\ cache[s].ok /\ ~On(s) => s \in raced \/ Revoking(s)

(* What went through in the last t + 1 ticks: with a window that old or older,
   at most what the window has counted; else at most another limit's worth,
   that of the window before.  Between windows nothing goes through. *)
CountsAll(w, p) ==
    /\ w.count <= Limit
    /\ \A t \in Ticks : (t <= w.age => p[t] <= w.count) /\ p[t] <= w.count + Limit

Spent(k) ==
    /\ window[k] = None => \A t \in Ticks : passed[k][t] <= Limit
    /\ window[k] # None => CountsAll(window[k], passed[k])
    /\ ~Open(k) => passed[k][0] = 0

Windows == \A k \in Keys : Spent(k)

IInv ==
    /\ TypeOK
    /\ OnlyKeys
    /\ Dated
    /\ ReadsRecent
    /\ EntriesRecent
    /\ RevokedReads
    /\ RevokedEntries
    /\ Windows

LEMMA OneMore ==
    ASSUME NEW f \in [Ticks -> Nat]
    PROVE  [t \in Ticks |-> f[t] + 1] \in [Ticks -> Nat]
OBVIOUS

LEMMA RequestAges ==
    ASSUME NEW q \in Request, NEW n \in Nat
    PROVE  /\ [q EXCEPT !.age = n] \in Request
           /\ [q EXCEPT !.age = n].pc = q.pc /\ [q EXCEPT !.age = n].s = q.s
           /\ [q EXCEPT !.age = n].ok = q.ok /\ [q EXCEPT !.age = n].age = n
BY DEF Request

USE KeysAssumption

-----------------------------------------------------------------------------
(* Constants, and the types of records and fields *)

LEMMA Numbers ==
    /\ TTL \in Nat /\ Lag \in Nat /\ MaxEntries \in Nat
    /\ Minute \in Nat /\ Minute > 0 /\ Limit \in Nat /\ Limit > 0
    /\ 0 \in Ticks /\ Minute - 1 \in Ticks
    /\ \A t \in Ticks : t \in Nat /\ t < Minute /\ (t # 0 => t - 1 \in Ticks)
BY DEF Ticks

LEMMA Types ==
    ASSUME TypeOK
    PROVE  /\ \A s \in Secrets : /\ cache[s] \in Entry \cup {None}
                                 /\ cache[s] # None => cache[s] \in Entry /\ cache[s].age \in Nat
                                 /\ cache[s] # None => cache[s].ok \in BOOLEAN
                                 /\ valid[s] \in Nat /\ doubt[s] \in Nat
           /\ \A r \in Requests : /\ req[r] \in Request
                                  /\ req[r].ok \in BOOLEAN
                                  /\ req[r].pc \in {"idle", "put", "let in"}
                                  /\ req[r].age \in Nat /\ req[r].s \in Secrets \cup {None}
                                  /\ req[r].pc # "idle" => req[r].s \in Secrets
<1>1. ASSUME NEW s \in Secrets
      PROVE  /\ cache[s] \in Entry \cup {None}
             /\ valid[s] \in Nat /\ doubt[s] \in Nat
  BY DEF TypeOK, Entry
<1>2. ASSUME NEW e \in Entry PROVE e.age \in Nat /\ e.ok \in BOOLEAN
  BY <1>2 DEF Entry
<1>3. ASSUME NEW r \in Requests
      PROVE  req[r] \in Request /\ (req[r].pc # "idle" => req[r].s \in Secrets)
  BY DEF TypeOK, Request
<1>4. ASSUME NEW q \in Request
      PROVE  q.ok \in BOOLEAN /\ q.pc \in {"idle", "put", "let in"} /\ q.age \in Nat /\ q.s \in Secrets \cup {None}
  BY <1>4 DEF Request
<1> QED BY <1>1, <1>2, <1>3, <1>4

LEMMA WindowTypes ==
    ASSUME TypeOK, NEW k \in Keys
    PROVE  /\ k \in Secrets /\ k # None
           /\ window[k] \in Window \cup {None}
           /\ window[k] # None => window[k] \in Window /\ window[k].age \in Nat /\ window[k].count \in Nat
           /\ passed[k] \in [Ticks -> Nat]
           /\ \A t \in Ticks : passed[k][t] \in Nat
<1>1. k \in Secrets /\ k # None
  OBVIOUS
<1>2. window[k] \in Window \cup {None} /\ passed[k] \in [Ticks -> Nat]
  BY DEF TypeOK, Window, Ticks
<1>3. window[k] # None => window[k] \in Window /\ window[k].age \in Nat /\ window[k].count \in Nat
  BY <1>2 DEF Window
<1> QED BY <1>1, <1>2, <1>3

LEMMA RequestFields ==
    /\ Free \in Request /\ Free.pc = "idle"
    /\ \A s \in Secrets :
        /\ [Free EXCEPT !.pc = "let in", !.s = s] \in Request
        /\ [Free EXCEPT !.pc = "let in", !.s = s].pc = "let in"
        /\ [Free EXCEPT !.pc = "let in", !.s = s].s = s
BY DEF Free, Request

(* One request moves. *)
LEMMA OneRequest ==
    ASSUME TypeOK, NEW r \in Requests, NEW v \in Request, v.pc # "idle" => v.s \in Secrets,
           req' = [req EXCEPT ![r] = v]
    PROVE  /\ req'[r] = v
           /\ \A q \in Requests : q # r => req'[q] = req[q]
           /\ req' \in [Requests -> Request]
           /\ \A q \in Requests : req'[q].pc # "idle" => req'[q].s \in Secrets
BY DEF TypeOK, Request

(* Who is answered is let in with his token, or is done. *)
LEMMA Answered ==
    ASSUME TypeOK, NEW r \in Requests, NEW s \in Secrets, NEW ok \in BOOLEAN, Answer(r, s, ok)
    PROVE  /\ ok => req'[r].pc = "let in" /\ req'[r].s = s
           /\ ~ok => req'[r].pc = "idle"
           /\ \A q \in Requests : q # r => req'[q] = req[q]
           /\ req' \in [Requests -> Request]
           /\ \A q \in Requests : req'[q].pc # "idle" => req'[q].s \in Secrets
<1>1. CASE ok
  <2> DEFINE v == [Free EXCEPT !.pc = "let in", !.s = s]
  <2>1. v \in Request /\ v.pc = "let in" /\ v.s = s
    BY RequestFields
  <2>2. req' = [req EXCEPT ![r] = v]
    BY <1>1 DEF Answer
  <2> HIDE DEF v
  <2> QED BY <1>1, <2>1, <2>2, OneRequest
<1>2. CASE ~ok
  <2>1. req' = [req EXCEPT ![r] = Free]
    BY <1>2 DEF Answer
  <2> QED BY <1>2, <2>1, OneRequest, RequestFields
<1> QED BY <1>1, <1>2

-----------------------------------------------------------------------------
(* Frames *)

(* A step that leaves the windows alone. *)
LEMMA WindowsStay ==
    ASSUME IInv, UNCHANGED <<window, passed>>
    PROVE  Windows'
BY DEF IInv, Windows, Spent, CountsAll, Open

(* A step of one request that neither reads a row nor enters one. *)
LEMMA LookupsStay ==
    ASSUME IInv, UNCHANGED <<row, cache, handler, valid, doubt, raced>>, NEW r \in Requests,
           \A q \in Requests : q # r => req'[q] = req[q],
           req'[r].pc # "put", req'[r].pc = "let in" => req'[r].s \in Keys
    PROVE  OnlyKeys' /\ Dated' /\ ReadsRecent' /\ EntriesRecent' /\ RevokedReads' /\ RevokedEntries'
<1>1. OnlyKeys'
  BY DEF IInv, OnlyKeys
<1>2. Dated' /\ EntriesRecent' /\ RevokedEntries'
  BY DEF IInv, Dated, EntriesRecent, RevokedEntries, On, Hit, Revoking
<1>3. ReadsRecent' /\ RevokedReads'
  BY DEF IInv, ReadsRecent, RevokedReads, On
<1> QED BY <1>1, <1>2, <1>3

-----------------------------------------------------------------------------
(* authenticate *)

LEMMA PresentHitKeeps ==
    ASSUME IInv, NEW r \in Requests, NEW s \in Secrets, PresentHit(r, s)
    PROVE  IInv'
<1>1. TypeOK /\ cache[s] # None /\ cache[s].ok \in BOOLEAN
  BY Types DEF IInv, PresentHit, Hit
<1>2. /\ cache[s].ok => req'[r].pc = "let in" /\ req'[r].s = s
      /\ ~cache[s].ok => req'[r].pc = "idle"
      /\ \A q \in Requests : q # r => req'[q] = req[q]
      /\ req' \in [Requests -> Request]
      /\ \A q \in Requests : req'[q].pc # "idle" => req'[q].s \in Secrets
  BY <1>1, Answered DEF PresentHit
<1>3. cache[s].ok => s \in Keys
  BY <1>1 DEF IInv, OnlyKeys
<1>4. UNCHANGED <<row, cache, window, handler, valid, doubt, raced, passed>>
  BY DEF PresentHit, history
<1>5. TypeOK'
  BY <1>1, <1>2, <1>4 DEF TypeOK, Request
<1>6. req'[r].pc # "put" /\ (req'[r].pc = "let in" => req'[r].s \in Keys)
  BY <1>1, <1>2, <1>3
<1> QED BY <1>2, <1>4, <1>5, <1>6, LookupsStay, WindowsStay DEF IInv

LEMMA PresentMissKeeps ==
    ASSUME IInv, NEW r \in Requests, NEW s \in Secrets, PresentMiss(r, s)
    PROVE  IInv'
<1>1. PICK failed \in BOOLEAN :
        /\ req' = [req EXCEPT ![r] = [pc |-> "put", s |-> s, ok |-> On(s) /\ ~failed, age |-> 0]]
        /\ doubt' = IF failed THEN [doubt EXCEPT ![s] = 0] ELSE doubt
  BY DEF PresentMiss
<1> DEFINE v == [pc |-> "put", s |-> s, ok |-> On(s) /\ ~failed, age |-> 0]
<1>2. TypeOK
  BY DEF IInv
<1>3. /\ v \in Request /\ v.pc = "put" /\ v.s = s /\ v.age = 0
      /\ v.ok <=> On(s) /\ ~failed
  BY DEF Request, On
<1> HIDE DEF v
<1>4. /\ req'[r] = v
      /\ \A q \in Requests : q # r => req'[q] = req[q]
      /\ req' \in [Requests -> Request]
      /\ \A q \in Requests : req'[q].pc # "idle" => req'[q].s \in Secrets
  BY <1>1, <1>2, <1>3, OneRequest DEF v
<1>5. UNCHANGED <<row, cache, window, handler, valid, raced, passed>>
  BY DEF PresentMiss
<1>6. /\ doubt' \in [Secrets -> Nat] /\ \A x \in Secrets : doubt'[x] \in {0, doubt[x]}
      /\ failed => doubt'[s] = 0
  BY <1>1, <1>2 DEF TypeOK
<1>7. TypeOK'
  BY <1>2, <1>4, <1>5, <1>6 DEF TypeOK, Request
<1>8. OnlyKeys'
  BY <1>3, <1>4, <1>5 DEF IInv, OnlyKeys, On
<1>9. Dated'
  BY <1>5, <1>6 DEF IInv, Dated, On
<1>10. ReadsRecent'
  <2>1. ASSUME NEW q \in Requests, req'[q].pc = "put"
        PROVE  /\ req'[q].age <= Lag
               /\ req'[q].ok => valid'[req'[q].s] <= req'[q].age
               /\ ~req'[q].ok => doubt'[req'[q].s] <= req'[q].age
    <3>1. CASE q = r
      <4>1. req'[q].ok => valid[s] = 0
        BY <1>3, <1>4, <3>1 DEF IInv, Dated
      <4>2. ~req'[q].ok => doubt'[s] = 0
        BY <1>3, <1>4, <1>6, <3>1 DEF IInv, Dated
      <4> QED BY <1>3, <1>4, <1>5, <3>1, <4>1, <4>2, Numbers
    <3>2. CASE q # r
      <4>1. req'[q] = req[q] /\ req[q].s \in Secrets /\ req[q].age \in Nat
        BY <1>2, <1>4, <2>1, <3>2, Types
      <4>2. /\ req[q].age <= Lag
            /\ req[q].ok => valid[req[q].s] <= req[q].age
            /\ ~req[q].ok => doubt[req[q].s] <= req[q].age
        BY <2>1, <4>1 DEF IInv, ReadsRecent
      <4>3. ~req[q].ok => doubt'[req[q].s] <= req[q].age
        <5>1. doubt[req[q].s] \in Nat /\ doubt'[req[q].s] \in {0, doubt[req[q].s]}
          BY <1>2, <1>6, <4>1, Types
        <5> QED BY <4>1, <4>2, <5>1
      <4> QED BY <1>5, <4>1, <4>2, <4>3
    <3> QED BY <3>1, <3>2
  <2> QED BY <2>1 DEF ReadsRecent
<1>11. EntriesRecent'
  <2>1. ASSUME NEW x \in Secrets, Hit(x)'
        PROVE  /\ cache'[x].ok => valid'[x] <= cache'[x].age + Lag
               /\ ~cache'[x].ok => doubt'[x] <= cache'[x].age + Lag
    <3>1. /\ cache[x].ok => valid[x] <= cache[x].age + Lag
          /\ ~cache[x].ok => doubt[x] <= cache[x].age + Lag
          /\ cache[x] # None
      BY <1>5, <2>1 DEF IInv, EntriesRecent, Hit
    <3>2. doubt[x] \in Nat /\ doubt'[x] \in {0, doubt[x]} /\ cache[x].age \in Nat
      BY <1>2, <1>6, <3>1, Types
    <3>3. ~cache[x].ok => doubt'[x] <= cache[x].age + Lag
      BY <3>1, <3>2, Numbers
    <3> QED BY <1>5, <3>1, <3>3
  <2> QED BY <2>1 DEF EntriesRecent
<1>12. RevokedReads'
  BY <1>3, <1>4, <1>5 DEF IInv, RevokedReads, On
<1>13. RevokedEntries'
  BY <1>5 DEF IInv, RevokedEntries, On, Revoking
<1> QED BY <1>5, <1>7, <1>8, <1>9, <1>10, <1>11, <1>12, <1>13, WindowsStay DEF IInv

LEMMA PutKeeps == ASSUME IInv, NEW r \in Requests, Put(r) PROVE IInv'
<1> DEFINE s == req[r].s
           ok == req[r].ok
<1>1. /\ TypeOK /\ s \in Secrets /\ ok \in BOOLEAN /\ req[r].pc = "put" /\ Answer(r, s, ok)
      /\ UNCHANGED <<row, window, handler, valid, doubt, raced, passed>>
  BY Types DEF IInv, Put, history
<1>2. /\ cache' \in [Secrets -> Entry \cup {None}]
      /\ cache'[s] = [age |-> 0, ok |-> ok]
      /\ \A x \in Secrets : x # s => cache'[x] \in {None, cache[x]}
  BY <1>1, Types DEF Put, Entry
<1>3. cache'[s].age = 0 /\ cache'[s].ok = ok
  BY <1>2
<1>4. /\ req[r].age <= Lag /\ ok => s \in Keys /\ valid[s] <= req[r].age
      /\ ~ok => doubt[s] <= req[r].age
      /\ req[r].age <= Lag
      /\ ok /\ ~On(s) => s \in raced
  BY <1>1 DEF IInv, ReadsRecent, RevokedReads, OnlyKeys
<1>5. req[r].age \in Nat /\ valid[s] \in Nat /\ doubt[s] \in Nat
  BY <1>1, Types
<1> HIDE DEF s, ok
<1>6. /\ ok => req'[r].pc = "let in" /\ req'[r].s = s
      /\ ~ok => req'[r].pc = "idle"
      /\ \A q \in Requests : q # r => req'[q] = req[q]
      /\ req' \in [Requests -> Request]
      /\ \A q \in Requests : req'[q].pc # "idle" => req'[q].s \in Secrets
  BY <1>1, Answered
<1>7. TypeOK'
  BY <1>1, <1>2, <1>6 DEF TypeOK, Request, Entry
<1>8. OnlyKeys'
  BY <1>1, <1>2, <1>3, <1>4, <1>6 DEF IInv, OnlyKeys
<1>9. Dated'
  BY <1>1 DEF IInv, Dated, On
<1>10. ReadsRecent' /\ RevokedReads'
  BY <1>1, <1>6 DEF IInv, ReadsRecent, RevokedReads, On
<1>11. EntriesRecent'
  <2>1. ASSUME NEW x \in Secrets, Hit(x)'
        PROVE  /\ cache'[x].ok => valid'[x] <= cache'[x].age + Lag
               /\ ~cache'[x].ok => doubt'[x] <= cache'[x].age + Lag
    <3>1. CASE x = s
      BY <1>1, <1>3, <1>4, <1>5, <3>1, Numbers
    <3>2. CASE x # s
      BY <1>1, <1>2, <2>1, <3>2 DEF IInv, EntriesRecent, Hit
    <3> QED BY <3>1, <3>2
  <2> QED BY <2>1 DEF EntriesRecent
<1>12. RevokedEntries'
  BY <1>1, <1>2, <1>3, <1>4 DEF IInv, RevokedEntries, On, Revoking
<1> QED BY <1>1, <1>7, <1>8, <1>9, <1>10, <1>11, <1>12, WindowsStay DEF IInv

-----------------------------------------------------------------------------
(* rateLimiter.allow *)

(* A request goes through: the key's counts grow by one, over any period. *)
LEMMA Passing ==
    ASSUME IInv, NEW r \in Requests, req[r].pc = "let in", Pass(r),
           NEW w \in Window, window' = [window EXCEPT ![req[r].s] = w], w.age < Minute,
           CountsAll(w, [t \in Ticks |-> passed[req[r].s][t] + 1])
    PROVE  IInv'
<1> DEFINE k == req[r].s
           p == [t \in Ticks |-> passed[k][t] + 1]
<1>1. TypeOK /\ k \in Keys
  BY DEF IInv, OnlyKeys
<1>2. /\ req' = [req EXCEPT ![r] = Free]
      /\ passed' = [passed EXCEPT ![k] = p]
      /\ window' = [window EXCEPT ![k] = w]
      /\ UNCHANGED <<row, cache, handler, valid, doubt, raced>>
  BY DEF Pass, Ticks
<1>3. CountsAll(w, p) /\ w.age < Minute
  OBVIOUS
<1>4. passed \in [Keys -> [Ticks -> Nat]] /\ p \in [Ticks -> Nat]
  <2>1. passed \in [Keys -> [Ticks -> Nat]]
    BY <1>1 DEF TypeOK, Ticks
  <2> QED BY <1>1, <2>1, OneMore
<1> HIDE DEF k, p
<1>5. /\ req'[r] = Free
      /\ \A q \in Requests : q # r => req'[q] = req[q]
      /\ req' \in [Requests -> Request]
      /\ \A q \in Requests : req'[q].pc # "idle" => req'[q].s \in Secrets
  BY <1>1, <1>2, OneRequest, RequestFields
<1>6. /\ window' \in [Keys -> Window \cup {None}]
      /\ window'[k] = w /\ \A x \in Keys : x # k => window'[x] = window[x]
  <2>1. window \in [Keys -> Window \cup {None}]
    BY <1>1 DEF TypeOK, Window
  <2> QED BY <1>1, <1>2, <2>1
<1>7. /\ passed' \in [Keys -> [Ticks -> Nat]]
      /\ passed'[k] = p /\ \A x \in Keys : x # k => passed'[x] = passed[x]
  BY <1>1, <1>2, <1>4
<1>8. TypeOK'
  BY <1>1, <1>2, <1>5, <1>6, <1>7 DEF TypeOK, Request, Window, Ticks
<1>9. w # None
  BY DEF Window
<1>10. ASSUME NEW x \in Keys PROVE Spent(x)'
  <2>1. CASE x = k
    <3>1. window'[x] # None /\ window'[x].age < Minute /\ CountsAll(window'[x], passed'[x])
      BY <1>3, <1>6, <1>7, <1>9, <2>1
    <3> QED BY <3>1 DEF Spent, Open, CountsAll
  <2>2. CASE x # k
    <3>1. window'[x] = window[x] /\ passed'[x] = passed[x] /\ Spent(x)
      BY <1>6, <1>7, <2>2 DEF IInv, Windows
    <3> QED BY <3>1 DEF Spent, Open, CountsAll
  <2> QED BY <2>1, <2>2
<1>11. req'[r].pc # "put" /\ req'[r].pc # "let in"
  BY <1>5, RequestFields
<1>12. OnlyKeys' /\ Dated' /\ ReadsRecent' /\ EntriesRecent' /\ RevokedReads' /\ RevokedEntries'
  BY <1>2, <1>5, <1>11, LookupsStay
<1> QED BY <1>8, <1>10, <1>12 DEF IInv, Windows

(* The first of a window: what went through before it belongs to the window
   before, and that was one limit's worth at most. *)
LEMMA AllowNewKeeps == ASSUME IInv, NEW r \in Requests, AllowNew(r) PROVE IInv'
<1> DEFINE k == req[r].s
           w == [age |-> 0, count |-> 1]
<1>1. TypeOK /\ req[r].pc = "let in" /\ k \in Keys /\ ~Open(k) /\ Pass(r)
      /\ window' = [window EXCEPT ![k] = w]
  BY DEF IInv, OnlyKeys, AllowNew
<1>2. w \in Window /\ w.age = 0 /\ w.count = 1
  BY DEF Window
<1>3. Spent(k)
  BY <1>1 DEF IInv, Windows
<1> HIDE DEF k, w
<1>4. ASSUME NEW t \in Ticks PROVE passed[k][t] \in Nat /\ passed[k][t] <= Limit
  <2>1. CASE window[k] = None
    BY <1>1, <1>3, <2>1, WindowTypes DEF Spent, CountsAll
  <2>2. CASE window[k] # None
    <3>1. window[k].age \in Nat /\ window[k].count \in Nat /\ passed[k][t] \in Nat
      BY <1>1, <2>2, WindowTypes
    <3>2. t <= window[k].age
      <4>1. ~(window[k].age < Minute)
        BY <1>1, <2>2 DEF Open
      <4>2. t \in Nat /\ t < Minute /\ Minute \in Nat
        BY Numbers
      <4> QED BY <3>1, <4>1, <4>2
    <3>3. passed[k][t] <= window[k].count /\ window[k].count <= Limit
      BY <1>3, <2>2, <3>2 DEF Spent, CountsAll
    <3> QED BY <3>1, <3>3, Numbers
  <2> QED BY <2>1, <2>2
<1>5. passed[k][0] = 0
  BY <1>1, <1>3 DEF Spent, CountsAll
<1>6. \A t \in Ticks : /\ t <= w.age => passed[k][t] + 1 <= w.count
                       /\ passed[k][t] + 1 <= w.count + Limit
  <2>1. ASSUME NEW t \in Ticks
        PROVE  /\ t <= w.age => passed[k][t] + 1 <= w.count
               /\ passed[k][t] + 1 <= w.count + Limit
    <3>1. t \in Nat /\ Limit \in Nat
      BY Numbers
    <3>2. passed[k][t] \in Nat /\ passed[k][t] <= Limit
      BY <1>4
    <3>3. t <= w.age => t = 0
      BY <1>2, <3>1
    <3> QED BY <1>2, <1>5, <3>1, <3>2, <3>3
  <2> QED BY <2>1
<1>7. w.count <= Limit /\ w.age < Minute
  BY <1>2, Numbers
<1>8. CountsAll(w, [t \in Ticks |-> passed[k][t] + 1])
  BY <1>6, <1>7 DEF CountsAll
<1> QED BY <1>1, <1>2, <1>7, <1>8, Passing DEF k

LEMMA AllowMoreKeeps == ASSUME IInv, NEW r \in Requests, AllowMore(r) PROVE IInv'
<1> DEFINE k == req[r].s
           v == window[k]
           w == [v EXCEPT !.count = v.count + 1]
<1>1. TypeOK /\ req[r].pc = "let in" /\ k \in Keys /\ Open(k) /\ v.count < Limit /\ Pass(r)
  BY DEF IInv, OnlyKeys, AllowMore
<1>2. window' = [window EXCEPT ![k] = w]
  BY <1>1 DEF AllowMore
<1>3. v # None /\ v.age < Minute /\ v \in Window /\ v.age \in Nat /\ v.count \in Nat
  BY <1>1, WindowTypes DEF Open
<1>4. /\ \A t \in Ticks : passed[k][t] \in Nat
      /\ \A t \in Ticks : /\ t <= v.age => passed[k][t] <= v.count
                          /\ passed[k][t] <= v.count + Limit
  BY <1>1, <1>3, WindowTypes DEF IInv, Windows, Spent, CountsAll
<1> HIDE DEF v
<1>5. w \in Window /\ w.age = v.age /\ w.count = v.count + 1
  BY <1>3 DEF Window
<1> HIDE DEF k, w
<1>6. \A t \in Ticks : /\ t <= w.age => passed[k][t] + 1 <= w.count
                       /\ passed[k][t] + 1 <= w.count + Limit
  BY <1>3, <1>4, <1>5, Numbers
<1>7. w.count <= Limit /\ w.age < Minute
  <2>1. v.count < Limit /\ Limit \in Nat
    BY <1>1, Numbers
  <2> QED BY <1>3, <1>5, <2>1
<1>8. CountsAll(w, [t \in Ticks |-> passed[k][t] + 1])
  BY <1>6, <1>7 DEF CountsAll
<1> QED BY <1>1, <1>2, <1>5, <1>7, <1>8, Passing DEF k

LEMMA RefuseKeeps == ASSUME IInv, NEW r \in Requests, Refuse(r) PROVE IInv'
<1>1. /\ TypeOK /\ req' = [req EXCEPT ![r] = Free]
      /\ UNCHANGED <<row, cache, window, handler, valid, doubt, raced, passed>>
  BY DEF IInv, Refuse, history
<1>2. /\ req'[r] = Free
      /\ \A q \in Requests : q # r => req'[q] = req[q]
      /\ req' \in [Requests -> Request]
      /\ \A q \in Requests : req'[q].pc # "idle" => req'[q].s \in Secrets
  BY <1>1, OneRequest, RequestFields
<1>3. TypeOK'
  BY <1>1, <1>2 DEF TypeOK, Request
<1>4. req'[r].pc # "put" /\ req'[r].pc # "let in"
  BY <1>2, RequestFields
<1> QED BY <1>1, <1>2, <1>3, <1>4, LookupsStay, WindowsStay DEF IInv

(* A window that is swept ended long ago: whatever it counted is one limit's
   worth. *)
LEMMA SweepKeeps == ASSUME IInv, Sweep PROVE IInv'
<1>1. /\ TypeOK /\ UNCHANGED <<row, cache, req, handler, valid, doubt, raced, passed>>
      /\ window' = [k \in Keys |->
            IF window[k] # None /\ window[k].age > 5 * Minute THEN None ELSE window[k]]
  BY DEF IInv, Sweep, history
<1>2. TypeOK'
  BY <1>1 DEF TypeOK
<1>3. OnlyKeys' /\ Dated' /\ ReadsRecent' /\ EntriesRecent' /\ RevokedReads' /\ RevokedEntries'
  BY <1>1 DEF IInv, OnlyKeys, Dated, ReadsRecent, EntriesRecent, RevokedReads, RevokedEntries,
              On, Hit, Revoking
<1>4. ASSUME NEW k \in Keys PROVE Spent(k)'
  <2>1. Spent(k)
    BY DEF IInv, Windows
  <2>2. CASE window'[k] = window[k]
    BY <1>1, <2>1, <2>2 DEF Spent, CountsAll, Open
  <2>3. CASE window'[k] # window[k]
    <3>1. window[k] # None /\ window[k].age > 5 * Minute /\ window'[k] = None
      BY <1>1, <2>3
    <3>2. window[k].age \in Nat /\ window[k].count \in Nat /\ \A t \in Ticks : passed[k][t] \in Nat
      BY <1>1, <3>1, WindowTypes
    <3>3. window[k].age >= Minute
      BY <3>1, <3>2, Numbers
    <3>4. \A t \in Ticks : t <= window[k].age
      BY <3>2, <3>3, Numbers
    <3>5. \A t \in Ticks : passed[k][t] <= Limit
      BY <2>1, <3>1, <3>2, <3>4, Numbers DEF Spent, CountsAll
    <3>6. passed[k][0] = 0
      BY <2>1, <3>2, <3>3, Numbers DEF Spent, CountsAll, Open
    <3> QED BY <1>1, <3>1, <3>5, <3>6 DEF Spent, CountsAll
  <2> QED BY <2>2, <2>3
<1> QED BY <1>2, <1>3, <1>4 DEF IInv, Windows

-----------------------------------------------------------------------------
(* Revocation *)

(* The row changes: a revocation leaves its handler to purge the cache, and puts
   the key of a row that was read before it among the raced. *)
LEMMA ChangeRowKeeps ==
    ASSUME IInv, NEW h \in Handlers, NEW k \in Keys, NEW to \in {"on", "disabled", "deleted"},
           ChangeRow(h, k, to)
    PROVE  IInv'
<1>1. /\ TypeOK /\ k \in Secrets /\ k # None /\ handler[h] = None
      /\ row' = [row EXCEPT ![k] = to] /\ handler' = [handler EXCEPT ![h] = k]
      /\ UNCHANGED <<cache, window, req, passed>>
  BY DEF IInv, ChangeRow
<1>2. /\ row' \in [Keys -> {"on", "disabled", "deleted"}] /\ row'[k] = to
      /\ \A x \in Keys : x # k => row'[x] = row[x]
      /\ handler' \in [Handlers -> Keys \cup {None}] /\ handler'[h] = k
      /\ \A x \in Handlers : x # h => handler'[x] = handler[x]
  BY <1>1 DEF TypeOK
<1>3. /\ valid' \in [Secrets -> Nat] /\ doubt' \in [Secrets -> Nat] /\ raced' \in SUBSET Keys
      /\ \A x \in Secrets : valid'[x] \in {0, valid[x]} /\ doubt'[x] \in {0, doubt[x]}
      /\ to = "on" => valid'[k] = 0
      /\ to # "on" => doubt'[k] = 0
      /\ \A x \in Secrets : x # k => valid'[x] = valid[x] /\ doubt'[x] = doubt[x]
  <2>1. CASE to = "on"
    <3>1. valid' = [valid EXCEPT ![k] = 0] /\ raced' = raced \ {k} /\ doubt' = doubt
      BY <2>1 DEF ChangeRow
    <3>2. valid \in [Secrets -> Nat] /\ doubt \in [Secrets -> Nat] /\ raced \in SUBSET Keys
      BY <1>1 DEF TypeOK
    <3> QED BY <1>1, <2>1, <3>1, <3>2
  <2>2. CASE to # "on"
    <3>1. doubt' = [doubt EXCEPT ![k] = 0] /\ valid' = valid /\ raced' \subseteq raced \cup {k}
      BY <2>2 DEF ChangeRow
    <3>2. valid \in [Secrets -> Nat] /\ doubt \in [Secrets -> Nat] /\ raced \in SUBSET Keys
      BY <1>1 DEF TypeOK
    <3> QED BY <1>1, <2>2, <3>1, <3>2
  <2> QED BY <2>1, <2>2
<1>4. /\ \A x : x # k /\ x \in raced => x \in raced'
      /\ to # "on" => raced \subseteq raced'
      /\ to # "on" => \A r \in Requests : req[r].pc = "put" /\ req[r].s = k /\ req[r].ok => k \in raced'
  BY DEF ChangeRow
<1>5. /\ On(k)' <=> to = "on"
      /\ \A x \in Secrets : x # k => (On(x)' <=> On(x))
  BY <1>1, <1>2 DEF On
<1>6. TypeOK'
  BY <1>1, <1>2, <1>3 DEF TypeOK
<1>7. OnlyKeys'
  BY <1>1 DEF IInv, OnlyKeys
<1>8. Dated'
  BY <1>3, <1>5 DEF IInv, Dated
<1>9. \A x \in Secrets : /\ valid[x] \in Nat /\ doubt[x] \in Nat
                         /\ valid'[x] <= valid[x] /\ doubt'[x] <= doubt[x]
                         /\ valid'[x] \in Nat /\ doubt'[x] \in Nat
  <2>1. \A x \in Secrets : valid[x] \in Nat /\ doubt[x] \in Nat
    BY <1>1, Types
  <2> QED BY <1>3, <2>1
<1>10. ReadsRecent'
  <2>1. ASSUME NEW r \in Requests, req[r].pc = "put"
        PROVE  /\ req[r].age <= Lag
               /\ req[r].ok => valid'[req[r].s] <= req[r].age
               /\ ~req[r].ok => doubt'[req[r].s] <= req[r].age
    <3>1. req[r].s \in Secrets /\ req[r].age \in Nat
      BY <1>1, <2>1, Types
    <3>2. /\ req[r].age <= Lag
          /\ req[r].ok => valid[req[r].s] <= req[r].age
          /\ ~req[r].ok => doubt[req[r].s] <= req[r].age
      BY <2>1 DEF IInv, ReadsRecent
    <3>3. req[r].ok => valid'[req[r].s] <= req[r].age
      BY <1>9, <3>1, <3>2
    <3>4. ~req[r].ok => doubt'[req[r].s] <= req[r].age
      BY <1>9, <3>1, <3>2
    <3> QED BY <3>2, <3>3, <3>4
  <2> QED BY <1>1, <2>1 DEF ReadsRecent
<1>11. EntriesRecent'
  <2>1. ASSUME NEW x \in Secrets, Hit(x)
        PROVE  /\ cache[x].ok => valid'[x] <= cache[x].age + Lag
               /\ ~cache[x].ok => doubt'[x] <= cache[x].age + Lag
    <3>1. cache[x] # None /\ cache[x].age \in Nat
      BY <1>1, <2>1, Types DEF Hit
    <3>2. /\ cache[x].ok => valid[x] <= cache[x].age + Lag
          /\ ~cache[x].ok => doubt[x] <= cache[x].age + Lag
      BY <2>1 DEF IInv, EntriesRecent
    <3>3. cache[x].ok => valid'[x] <= cache[x].age + Lag
      BY <1>9, <3>1, <3>2, Numbers
    <3>4. ~cache[x].ok => doubt'[x] <= cache[x].age + Lag
      BY <1>9, <3>1, <3>2, Numbers
    <3> QED BY <3>3, <3>4
  <2> QED BY <1>1, <2>1 DEF EntriesRecent, Hit
<1>12. RevokedReads'
  <2>1. ASSUME NEW r \in Requests, req[r].pc = "put", req[r].ok, ~On(req[r].s)'
        PROVE  req[r].s \in raced'
    <3>1. req[r].s \in Secrets
      BY <1>1, <2>1, Types
    <3>2. CASE req[r].s = k
      BY <1>1, <1>4, <1>5, <2>1, <3>2
    <3>3. CASE req[r].s # k
      BY <1>1, <1>4, <1>5, <2>1, <3>1, <3>3 DEF IInv, RevokedReads
    <3> QED BY <3>2, <3>3
  <2> QED BY <1>1, <2>1 DEF RevokedReads
<1>13. RevokedEntries'
  <2>1. ASSUME NEW x \in Secrets, cache[x] # None, cache[x].ok, ~On(x)'
        PROVE  x \in raced' \/ Revoking(x)'
    <3>1. CASE x = k
      BY <1>2, <3>1 DEF Revoking
    <3>2. CASE x # k
      <4>1. x \in raced \/ Revoking(x)
        BY <1>5, <2>1, <3>2 DEF IInv, RevokedEntries
      <4>2. x # None
        OBVIOUS
      <4> QED BY <1>1, <1>2, <1>4, <3>2, <4>1, <4>2 DEF Revoking
    <3> QED BY <3>1, <3>2
  <2> QED BY <1>1, <2>1 DEF RevokedEntries
<1> QED BY <1>1, <1>6, <1>7, <1>8, <1>10, <1>11, <1>12, <1>13, WindowsStay DEF IInv

(* The cache is emptied, by the handler of a revocation or by a reload. *)
LEMMA EmptiedKeeps ==
    ASSUME IInv, cache' = [s \in Secrets |-> None], handler' \in [Handlers -> Keys \cup {None}],
           UNCHANGED <<row, window, req, valid, doubt, raced, passed>>
    PROVE  IInv'
<1>1. \A s \in Secrets : cache'[s] = None
  OBVIOUS
<1>2. TypeOK'
  BY DEF IInv, TypeOK
<1>3. OnlyKeys' /\ EntriesRecent' /\ RevokedEntries'
  BY <1>1 DEF IInv, OnlyKeys, EntriesRecent, RevokedEntries, Hit
<1>4. Dated' /\ ReadsRecent' /\ RevokedReads'
  BY DEF IInv, Dated, ReadsRecent, RevokedReads, On
<1> QED BY <1>2, <1>3, <1>4, WindowsStay DEF IInv

-----------------------------------------------------------------------------
(* Time *)

LEMMA Aging ==
    ASSUME TypeOK
    PROVE  /\ \A n \in Nat : Longer(n) \in Nat /\ Longer(n) <= n + 1
           /\ \A most \in Nat, e \in Entry :
                /\ e # None => Older(e, most) \in Entry /\ Older(e, most).ok = e.ok
                /\ e # None => Older(e, most).age = IF e.age > most THEN e.age ELSE e.age + 1
           /\ \A most \in Nat, w \in Window :
                /\ w # None => Older(w, most) \in Window /\ Older(w, most).count = w.count
                /\ w # None => Older(w, most).age = IF w.age > most THEN w.age ELSE w.age + 1
           /\ \A most : Older(None, most) = None
<1>1. ASSUME NEW n \in Nat PROVE Longer(n) \in Nat /\ Longer(n) <= n + 1
  BY DEF Longer
<1>2. ASSUME NEW most \in Nat, NEW e \in Entry, e # None
      PROVE  /\ Older(e, most) \in Entry /\ Older(e, most).ok = e.ok
             /\ Older(e, most).age = IF e.age > most THEN e.age ELSE e.age + 1
  BY <1>2 DEF Older, Entry
<1>3. ASSUME NEW most \in Nat, NEW w \in Window, w # None
      PROVE  /\ Older(w, most) \in Window /\ Older(w, most).count = w.count
             /\ Older(w, most).age = IF w.age > most THEN w.age ELSE w.age + 1
  BY <1>3 DEF Older, Window
<1>4. ASSUME NEW most PROVE Older(None, most) = None
  BY DEF Older
<1> QED BY <1>1, <1>2, <1>3, <1>4

LEMMA TickKeeps == ASSUME IInv, Tick PROVE IInv'
<1>1. TypeOK /\ UNCHANGED <<row, handler, raced>>
  BY DEF IInv, Tick
<1>2. ASSUME NEW r \in Requests
      PROVE  /\ req'[r] \in Request /\ req'[r].pc = req[r].pc /\ req'[r].s = req[r].s
             /\ req'[r].ok = req[r].ok
             /\ req[r].pc = "put" => req[r].age < Lag /\ req'[r].age = req[r].age + 1
  <2>1. /\ req[r].pc = "put" => req[r].age < Lag
        /\ req'[r] = IF req[r].pc = "put" THEN [req[r] EXCEPT !.age = req[r].age + 1] ELSE req[r]
    BY DEF Tick
  <2>2. req[r] \in Request /\ req[r].age \in Nat
    BY <1>1, Types
  <2>3. CASE req[r].pc = "put"
    <3>1. req[r].age + 1 \in Nat
      BY <2>2
    <3> QED BY <2>1, <2>2, <2>3, <3>1, RequestAges
  <2>4. CASE req[r].pc # "put"
    BY <2>1, <2>2, <2>4
  <2> QED BY <2>3, <2>4
<1>3. ASSUME NEW s \in Secrets
      PROVE  /\ cache'[s] \in Entry \cup {None}
             /\ cache[s] = None => cache'[s] = None
             /\ cache[s] # None => /\ cache'[s].ok = cache[s].ok
                                   /\ cache'[s].age = IF cache[s].age > TTL THEN cache[s].age ELSE cache[s].age + 1
  <2>1. cache'[s] = Older(cache[s], TTL) /\ TTL \in Nat
    BY Numbers DEF Tick
  <2>2. CASE cache[s] = None
    BY <1>1, <2>1, <2>2, Aging
  <2>3. CASE cache[s] # None
    <3>1. cache[s] \in Entry
      BY <1>1, <2>3, Types
    <3>2. Older(cache[s], TTL) \in Entry /\ Older(cache[s], TTL).ok = cache[s].ok
      BY <1>1, <2>1, <2>3, <3>1, Aging
    <3>3. Older(cache[s], TTL).age = IF cache[s].age > TTL THEN cache[s].age ELSE cache[s].age + 1
      BY <1>1, <2>1, <2>3, <3>1, Aging
    <3> QED BY <2>1, <2>3, <3>2, <3>3
  <2> QED BY <2>2, <2>3
<1>4. ASSUME NEW k \in Keys
      PROVE  /\ window'[k] \in Window \cup {None}
             /\ window[k] = None => window'[k] = None
             /\ window[k] # None => /\ window'[k] # None /\ window'[k].count = window[k].count
                                    /\ window'[k].age = IF window[k].age > 5 * Minute THEN window[k].age ELSE window[k].age + 1
  <2> DEFINE most == 5 * Minute
  <2>1. window'[k] = Older(window[k], most) /\ most \in Nat
    BY Numbers DEF Tick
  <2> HIDE DEF most
  <2>2. CASE window[k] = None
    BY <1>1, <2>1, <2>2, Aging
  <2>3. CASE window[k] # None
    <3>1. window[k] \in Window
      BY <1>1, <2>3, WindowTypes
    <3>2. /\ window'[k] \in Window /\ window'[k].count = window[k].count
          /\ window'[k].age = IF window[k].age > most THEN window[k].age ELSE window[k].age + 1
      <4>1. Older(window[k], most) \in Window /\ Older(window[k], most).count = window[k].count
        BY <1>1, <2>1, <2>3, <3>1, Aging
      <4>2. Older(window[k], most).age = IF window[k].age > most THEN window[k].age ELSE window[k].age + 1
        BY <1>1, <2>1, <2>3, <3>1, Aging
      <4> QED BY <2>1, <4>1, <4>2
    <3>3. window'[k] # None
      BY <3>2 DEF Window
    <3> QED BY <2>3, <3>2, <3>3 DEF most
  <2> QED BY <2>2, <2>3
<1>5. ASSUME NEW s \in Secrets
      PROVE  /\ valid[s] \in Nat /\ valid'[s] \in Nat /\ valid'[s] <= valid[s] + 1
             /\ doubt[s] \in Nat /\ doubt'[s] \in Nat /\ doubt'[s] <= doubt[s] + 1
             /\ On(s) => valid'[s] = 0
             /\ ~On(s) => doubt'[s] = 0
  <2>1. valid[s] \in Nat /\ doubt[s] \in Nat
    BY <1>1, Types
  <2>2. /\ valid'[s] = IF On(s) THEN 0 ELSE Longer(valid[s])
        /\ doubt'[s] = IF On(s) THEN Longer(doubt[s]) ELSE 0
    BY DEF Tick
  <2>3. /\ Longer(valid[s]) \in Nat /\ Longer(valid[s]) <= valid[s] + 1
        /\ Longer(doubt[s]) \in Nat /\ Longer(doubt[s]) <= doubt[s] + 1
    BY <1>1, <2>1, Aging
  <2>4. CASE On(s)
    BY <2>1, <2>2, <2>3, <2>4
  <2>5. CASE ~On(s)
    BY <2>1, <2>2, <2>3, <2>5
  <2> QED BY <2>4, <2>5
<1>6. ASSUME NEW k \in Keys, NEW t \in Ticks
      PROVE  passed'[k][t] \in Nat /\ passed'[k][t] = IF t = 0 THEN 0 ELSE passed[k][t - 1]
  <2>1. passed'[k][t] = IF t = 0 THEN 0 ELSE passed[k][t - 1]
    BY DEF Tick, Ticks
  <2>2. t # 0 => passed[k][t - 1] \in Nat
    BY <1>1, Numbers, WindowTypes
  <2> QED BY <2>1, <2>2
<1>7. TypeOK'
  <2>1. req' \in [Requests -> Request] /\ \A r \in Requests : req'[r].pc # "idle" => req'[r].s \in Secrets
    <3>1. req' = [r \in Requests |-> req'[r]]
      BY DEF Tick
    <3>2. \A r \in Requests : req[r].pc # "idle" => req[r].s \in Secrets
      BY <1>1, Types
    <3> QED BY <1>2, <3>1, <3>2
  <2>2. cache' \in [Secrets -> Entry \cup {None}]
    <3>1. cache' = [s \in Secrets |-> cache'[s]]
      BY DEF Tick
    <3> QED BY <1>3, <3>1
  <2>3. window' \in [Keys -> Window \cup {None}]
    <3>1. window' = [k \in Keys |-> window'[k]]
      BY DEF Tick
    <3> QED BY <1>4, <3>1
  <2>4. valid' \in [Secrets -> Nat] /\ doubt' \in [Secrets -> Nat]
    <3>1. valid' = [s \in Secrets |-> valid'[s]] /\ doubt' = [s \in Secrets |-> doubt'[s]]
      BY DEF Tick
    <3> QED BY <1>5, <3>1
  <2>5. passed' \in [Keys -> [Ticks -> Nat]]
    <3>1. passed' = [k \in Keys |-> [t \in Ticks |-> IF t = 0 THEN 0 ELSE passed[k][t - 1]]]
      BY DEF Tick, Ticks
    <3>2. ASSUME NEW k \in Keys, NEW t \in Ticks
          PROVE  (IF t = 0 THEN 0 ELSE passed[k][t - 1]) \in Nat
      BY <1>6
    <3> QED BY <3>1, <3>2
  <2> QED BY <1>1, <2>1, <2>2, <2>3, <2>4, <2>5 DEF TypeOK, Request, Entry, Window, Ticks
<1>8. OnlyKeys'
  <2>1. \A s \in Secrets : cache'[s] # None /\ cache'[s].ok => cache[s] # None /\ cache[s].ok
    BY <1>3
  <2> QED BY <1>2, <2>1 DEF IInv, OnlyKeys
<1>9. \A s : On(s)' <=> On(s)
  BY <1>1 DEF On
<1>10. Dated'
  BY <1>5, <1>9 DEF Dated
<1>11. ReadsRecent'
  <2>1. ASSUME NEW r \in Requests, req'[r].pc = "put"
        PROVE  /\ req'[r].age <= Lag
               /\ req'[r].ok => valid'[req'[r].s] <= req'[r].age
               /\ ~req'[r].ok => doubt'[req'[r].s] <= req'[r].age
    <3>1. /\ req[r].pc = "put" /\ req[r].s \in Secrets /\ req'[r].s = req[r].s /\ req[r].age \in Nat
          /\ req'[r].age = req[r].age + 1 /\ req[r].age < Lag /\ req'[r].ok = req[r].ok
      BY <1>1, <1>2, <2>1, Types
    <3>2. /\ req[r].ok => valid[req[r].s] <= req[r].age
          /\ ~req[r].ok => doubt[req[r].s] <= req[r].age
      BY <3>1 DEF IInv, ReadsRecent
    <3>3. req'[r].age <= Lag
      BY <3>1, Numbers
    <3>4. req[r].ok => valid'[req[r].s] <= req'[r].age
      BY <1>5, <3>1, <3>2
    <3>5. ~req[r].ok => doubt'[req[r].s] <= req'[r].age
      BY <1>5, <3>1, <3>2
    <3> QED BY <3>1, <3>3, <3>4, <3>5
  <2> QED BY <2>1 DEF ReadsRecent
<1>12. EntriesRecent'
  <2>1. ASSUME NEW x \in Secrets, Hit(x)'
        PROVE  /\ cache'[x].ok => valid'[x] <= cache'[x].age + Lag
               /\ ~cache'[x].ok => doubt'[x] <= cache'[x].age + Lag
    <3>1. cache[x] # None /\ cache[x].age \in Nat /\ cache'[x].age <= TTL /\ cache'[x].ok = cache[x].ok
      BY <1>1, <1>3, <2>1, Types DEF Hit
    <3>2. cache'[x].age = cache[x].age + 1 /\ cache[x].age <= TTL
      BY <1>3, <3>1, Numbers
    <3>3. /\ cache[x].ok => valid[x] <= cache[x].age + Lag
          /\ ~cache[x].ok => doubt[x] <= cache[x].age + Lag
      BY <3>1, <3>2 DEF IInv, EntriesRecent, Hit
    <3>4. cache[x].ok => valid'[x] <= cache'[x].age + Lag
      BY <1>5, <3>1, <3>2, <3>3, Numbers
    <3>5. ~cache[x].ok => doubt'[x] <= cache'[x].age + Lag
      BY <1>5, <3>1, <3>2, <3>3, Numbers
    <3> QED BY <3>1, <3>4, <3>5
  <2> QED BY <2>1 DEF EntriesRecent
<1>13. RevokedReads'
  <2>1. ASSUME NEW r \in Requests, req'[r].pc = "put", req'[r].ok, ~On(req[r].s)'
        PROVE  req'[r].s \in raced'
    <3>1. req[r].pc = "put" /\ req[r].ok /\ req'[r].s = req[r].s
      BY <1>2, <2>1
    <3>2. ~On(req[r].s)
      BY <1>1, <2>1, <3>1 DEF On
    <3> QED BY <1>1, <3>1, <3>2 DEF IInv, RevokedReads
  <2> QED BY <2>1 DEF RevokedReads
<1>14. RevokedEntries'
  <2>1. ASSUME NEW x \in Secrets, cache'[x] # None, cache'[x].ok, ~On(x)'
        PROVE  x \in raced' \/ Revoking(x)'
    <3>1. cache[x] # None /\ cache[x].ok /\ ~On(x)
      BY <1>3, <1>9, <2>1
    <3> QED BY <1>1, <3>1 DEF IInv, RevokedEntries, Revoking
  <2> QED BY <2>1 DEF RevokedEntries
<1>15. ASSUME NEW k \in Keys PROVE Spent(k)'
  <2>1. Spent(k) /\ \A t \in Ticks : passed[k][t] \in Nat
    BY <1>1, WindowTypes DEF IInv, Windows
  <2>2. passed'[k][0] = 0
    BY <1>6, Numbers
  <2>3. CASE window[k] = None
    <3>1. window'[k] = None
      BY <1>4, <2>3
    <3>2. \A t \in Ticks : passed'[k][t] <= Limit
      BY <1>6, <2>1, <2>3, Numbers DEF Spent, CountsAll
    <3> QED BY <2>2, <3>1, <3>2 DEF Spent, CountsAll
  <2>4. CASE window[k] # None
    <3>1. /\ window[k].age \in Nat /\ window[k].count \in Nat
          /\ window'[k].count = window[k].count
          /\ window'[k].age = IF window[k].age > 5 * Minute THEN window[k].age ELSE window[k].age + 1
      BY <1>1, <1>4, <2>4, WindowTypes
    <3>2. /\ window[k].count <= Limit
          /\ \A t \in Ticks : /\ t <= window[k].age => passed[k][t] <= window[k].count
                              /\ passed[k][t] <= window[k].count + Limit
      BY <2>1, <2>4 DEF Spent, CountsAll
    <3>3. ASSUME NEW t \in Ticks
          PROVE  /\ t <= window'[k].age => passed'[k][t] <= window[k].count
                 /\ passed'[k][t] <= window[k].count + Limit
      <4>1. CASE t = 0
        BY <2>2, <3>1, <4>1, Numbers
      <4>2. CASE t # 0
        <5>1. /\ t \in Nat /\ t - 1 \in Ticks /\ passed'[k][t] = passed[k][t - 1]
              /\ passed[k][t - 1] \in Nat
          BY <1>6, <2>1, <4>2, Numbers
        <5>2. t <= window'[k].age => t - 1 <= window[k].age
          BY <3>1, <5>1
        <5> QED BY <3>2, <5>1, <5>2
      <4> QED BY <4>1, <4>2
    <3>4. window'[k] # None
      BY <1>4, <2>4
    <3> QED BY <2>2, <3>1, <3>2, <3>3, <3>4 DEF Spent, CountsAll
  <2> QED BY <2>3, <2>4
<1> QED BY <1>7, <1>8, <1>10, <1>11, <1>12, <1>13, <1>14, <1>15 DEF IInv, Windows

-----------------------------------------------------------------------------
(* The theorems *)

LEMMA InitInv == Init => IInv
<1> SUFFICES ASSUME Init PROVE IInv OBVIOUS
<1>1. /\ \A s \in Secrets : cache[s] = None
      /\ \A k \in Keys : window[k] = None /\ \A t \in Ticks : passed[k][t] = 0
      /\ \A r \in Requests : req[r] = Free
      /\ row = [k \in Keys |-> "on"]
  BY DEF Init, Ticks
<1>2. \A r \in Requests : req[r].pc = "idle"
  BY <1>1, RequestFields
<1>3. Forgotten \in Nat
  BY Numbers DEF Forgotten
<1>4. TypeOK
  <2>1. req \in [Requests -> Request]
    BY RequestFields DEF Init
  <2>2. passed \in [Keys -> [0..(Minute - 1) -> Nat]]
    BY DEF Init
  <2>3. valid \in [Secrets -> Nat] /\ doubt \in [Secrets -> Nat]
    BY <1>3 DEF Init
  <2> QED BY <1>2, <2>1, <2>2, <2>3 DEF Init, TypeOK, Request
<1>5. OnlyKeys /\ ReadsRecent /\ EntriesRecent /\ RevokedReads /\ RevokedEntries
  BY <1>1, <1>2 DEF OnlyKeys, ReadsRecent, EntriesRecent, RevokedReads, RevokedEntries, Hit
<1>6. Dated
  BY DEF Init, Dated, On
<1>7. Windows
  BY <1>1, Numbers DEF Windows, Spent, CountsAll
<1> QED BY <1>4, <1>5, <1>6, <1>7 DEF IInv

LEMMA NextInv == IInv /\ [Next]_vars => IInv'
<1> SUFFICES ASSUME IInv, [Next]_vars PROVE IInv' OBVIOUS
<1>1. CASE UNCHANGED vars
  BY <1>1 DEF vars, IInv, TypeOK, OnlyKeys, Dated, ReadsRecent, EntriesRecent, RevokedReads,
              RevokedEntries, Windows, Spent, CountsAll, Open, On, Hit, Revoking
<1>2. ASSUME NEW h \in Handlers, Purge(h) PROVE IInv'
  <2>1. handler' \in [Handlers -> Keys \cup {None}]
    BY <1>2 DEF IInv, TypeOK, Purge
  <2> QED BY <1>2, <2>1, EmptiedKeeps DEF Purge, history
<1>3. CASE ReloadPurge
  <2>1. handler' \in [Handlers -> Keys \cup {None}]
    BY <1>3 DEF IInv, TypeOK, ReloadPurge
  <2> QED BY <1>3, <2>1, EmptiedKeeps DEF ReloadPurge, history
<1> QED BY <1>1, <1>2, <1>3, PresentHitKeeps, PresentMissKeeps, PutKeeps, AllowNewKeeps,
           AllowMoreKeeps, RefuseKeeps, SweepKeeps, ChangeRowKeeps, TickKeeps DEF Next

(* Lookups, revocations, purges, the rate limiter and time keep the invariant. *)
THEOREM Invariant == Spec => []IInv
BY InitInv, NextInv, PTL DEF Spec

(* The variables of Keys keep their types. *)
THEOREM TypeCorrect == Spec => []TypeOK
<1>1. IInv => TypeOK
  BY DEF IInv
<1> QED BY <1>1, Invariant, PTL

(* rateLimiter.allow lets at most twice the limit through in the time of a window,
   wherever windows begin, end and are swept, for any limit and window. *)
THEOREM BurstHolds == Spec => []BurstBounded
<1>1. IInv => BurstBounded
  <2> SUFFICES ASSUME IInv, NEW k \in Keys PROVE passed[k][Minute - 1] <= 2 * Limit
    BY DEF BurstBounded
  <2>1. Spent(k) /\ TypeOK /\ passed[k][Minute - 1] \in Nat
    BY WindowTypes, Numbers DEF IInv, Windows
  <2>2. CASE window[k] = None
    BY <2>1, <2>2, Numbers DEF Spent, CountsAll
  <2>3. CASE window[k] # None
    <3>1. window[k].count \in Nat /\ window[k].count <= Limit
      BY <2>1, <2>3, WindowTypes DEF Spent, CountsAll
    <3>2. passed[k][Minute - 1] <= window[k].count + Limit
      BY <2>1, <2>3, Numbers DEF Spent, CountsAll
    <3> QED BY <2>1, <3>1, <3>2, Numbers
  <2> QED BY <2>2, <2>3
<1> QED BY <1>1, Invariant, PTL

(* Which steps answer a request, and from what. *)
LEMMA WhoAnswers ==
    ASSUME IInv, [Next]_vars, NEW r \in Requests,
           req'[r].pc # req[r].pc \/ req'[r].s # req[r].s
    PROVE  \/ \E s \in Secrets : PresentHit(r, s)
           \/ \E s \in Secrets : PresentMiss(r, s)
           \/ Put(r)
           \/ req[r].pc = "let in" /\ req'[r].pc = "idle"
<1>1. TypeOK
  BY DEF IInv
<1>2. CASE UNCHANGED req
  BY <1>2
<1>3. ASSUME NEW q \in Requests, q # r, NEW v, req' = [req EXCEPT ![q] = v]
      PROVE  FALSE
  BY <1>1, <1>3 DEF TypeOK
<1>4. ASSUME NEW q \in Requests, NEW s \in Secrets, PresentHit(q, s) \/ PresentMiss(q, s)
      PROVE  q = r
  BY <1>3, <1>4 DEF PresentHit, PresentMiss, Answer
<1>5. ASSUME NEW q \in Requests, Put(q) PROVE q = r
  BY <1>3, <1>5 DEF Put, Answer
<1>6. ASSUME NEW q \in Requests, AllowNew(q) \/ AllowMore(q) \/ Refuse(q)
      PROVE  req[r].pc = "let in" /\ req'[r].pc = "idle"
  <2>1. req' = [req EXCEPT ![q] = Free] /\ req[q].pc = "let in"
    BY <1>6 DEF AllowNew, AllowMore, Refuse, Pass
  <2>2. q = r
    BY <1>3, <2>1
  <2>3. req'[r] = Free
    BY <1>1, <2>1, <2>2 DEF TypeOK
  <2> QED BY <2>1, <2>2, <2>3, RequestFields
<1>7. CASE Tick
  <2>1. req'[r] = IF req[r].pc = "put" THEN [req[r] EXCEPT !.age = req[r].age + 1] ELSE req[r]
    BY <1>7 DEF Tick
  <2>2. req[r] \in Request /\ req[r].age \in Nat
    BY <1>1, Types
  <2>3. req[r].age + 1 \in Nat
    BY <2>2
  <2>4. req'[r].pc = req[r].pc /\ req'[r].s = req[r].s
    BY <2>1, <2>2, <2>3, RequestAges
  <2> QED BY <2>4
<1>8. CASE UNCHANGED vars \/ Sweep \/ ReloadPurge
  BY <1>2, <1>8 DEF vars, Sweep, ReloadPurge
<1>9. ASSUME NEW h \in Handlers, Purge(h) PROVE FALSE
  BY <1>9 DEF Purge
<1>10. ASSUME NEW h \in Handlers, NEW k \in Keys, NEW to, ChangeRow(h, k, to) PROVE FALSE
  BY <1>10 DEF ChangeRow
<1> QED BY <1>4, <1>5, <1>6, <1>7, <1>8, <1>9, <1>10 DEF Next

(* What an answer of the cache, and one of the database, is based on. *)
LEMMA HitAnswers ==
    ASSUME IInv, NEW r \in Requests, NEW s \in Secrets, PresentHit(r, s)
    PROVE  /\ req[r].pc = "idle"
           /\ req'[r].pc = "let in" => /\ req'[r].s = s /\ valid[s] <= TTL + Lag
                                       /\ On(s) \/ s \in raced \/ Revoking(s)
           /\ req'[r].pc = "idle" => doubt[s] <= TTL + Lag
<1>1. /\ TypeOK /\ req[r].pc = "idle" /\ Hit(s) /\ cache[s] # None /\ cache[s].age <= TTL
      /\ Answer(r, s, cache[s].ok)
  BY DEF IInv, PresentHit, Hit
<1>2. cache[s].ok \in BOOLEAN
  BY <1>1, Types
<1>3. cache[s].age \in Nat /\ valid[s] \in Nat /\ doubt[s] \in Nat
  BY <1>1, Types
<1>4. /\ cache[s].ok => req'[r].pc = "let in" /\ req'[r].s = s
      /\ ~cache[s].ok => req'[r].pc = "idle"
  BY <1>1, <1>2, Answered
<1>5. /\ cache[s].ok => valid[s] <= cache[s].age + Lag
      /\ ~cache[s].ok => doubt[s] <= cache[s].age + Lag
  BY <1>1 DEF IInv, EntriesRecent
<1>6. cache[s].ok => On(s) \/ s \in raced \/ Revoking(s)
  BY <1>1 DEF IInv, RevokedEntries
<1>7. CASE cache[s].ok
  <2>1. valid[s] <= TTL + Lag
    BY <1>1, <1>3, <1>5, <1>7, Numbers
  <2> QED BY <1>1, <1>4, <1>6, <1>7, <2>1
<1>8. CASE ~cache[s].ok
  <2>1. doubt[s] <= TTL + Lag
    BY <1>1, <1>3, <1>5, <1>8, Numbers
  <2> QED BY <1>1, <1>4, <1>8, <2>1
<1> QED BY <1>7, <1>8

LEMMA PutAnswers ==
    ASSUME IInv, NEW r \in Requests, Put(r)
    PROVE  /\ req[r].pc = "put"
           /\ req'[r].pc = "let in" => /\ req'[r].s = req[r].s /\ valid[req[r].s] <= TTL + Lag
                                       /\ On(req[r].s) \/ req[r].s \in raced
           /\ req'[r].pc = "idle" => doubt[req[r].s] <= TTL + Lag
<1> DEFINE s == req[r].s
<1>1. TypeOK /\ req[r].pc = "put" /\ Answer(r, s, req[r].ok)
  BY DEF IInv, Put
<1>2. req[r].ok \in BOOLEAN
  BY <1>1, Types
<1>3. s \in Secrets /\ req[r].age \in Nat
  BY <1>1, Types
<1>4. valid[s] \in Nat /\ doubt[s] \in Nat
  BY <1>1, <1>3, Types
<1>5. /\ req[r].ok => req'[r].pc = "let in" /\ req'[r].s = s
      /\ ~req[r].ok => req'[r].pc = "idle"
  BY <1>1, <1>2, <1>3, Answered
<1>6. /\ req[r].age <= Lag
      /\ req[r].ok => valid[s] <= req[r].age
      /\ ~req[r].ok => doubt[s] <= req[r].age
      /\ req[r].ok => On(s) \/ s \in raced
  BY <1>1 DEF IInv, ReadsRecent, RevokedReads
<1> HIDE DEF s
<1>7. CASE req[r].ok
  <2>1. valid[s] <= TTL + Lag
    BY <1>3, <1>4, <1>6, <1>7, Numbers
  <2> QED BY <1>1, <1>5, <1>6, <1>7, <2>1 DEF s
<1>8. CASE ~req[r].ok
  <2>1. doubt[s] <= TTL + Lag
    BY <1>3, <1>4, <1>6, <1>8, Numbers
  <2> QED BY <1>1, <1>5, <1>8, <2>1 DEF s
<1> QED BY <1>7, <1>8

LEMMA MissAnswersNobody ==
    ASSUME IInv, NEW r \in Requests, NEW s \in Secrets, PresentMiss(r, s)
    PROVE  req[r].pc = "idle" /\ req'[r].pc = "put"
<1>1. TypeOK
  BY DEF IInv
<1>2. PICK failed \in BOOLEAN :
        req' = [req EXCEPT ![r] = [pc |-> "put", s |-> s, ok |-> On(s) /\ ~failed, age |-> 0]]
  BY DEF PresentMiss
<1>3. req'[r] = [pc |-> "put", s |-> s, ok |-> On(s) /\ ~failed, age |-> 0]
  BY <1>1, <1>2 DEF TypeOK
<1> QED BY <1>3 DEF PresentMiss

(* authenticate and keyCache: whoever is let in had a valid key, and whoever is
   turned away had none or met a failed lookup, within the lifetime of an entry
   and the time of a lookup, however entries are used, replaced and purged. *)
THEOREM RecentAnswers == Spec => AnswersAreRecent
<1>1. ASSUME IInv, [Next]_vars, NEW r \in Requests, NEW s \in Secrets
      PROVE  /\ LetIn(r, s) => valid[s] <= TTL + Lag
             /\ TurnedAway(r, s) => doubt[s] <= TTL + Lag
  <2>1. ASSUME LetIn(r, s) PROVE valid[s] <= TTL + Lag
    <3>1. req[r].pc # "let in" /\ req'[r].pc = "let in" /\ req'[r].s = s
      BY <2>1 DEF LetIn
    <3>2. (\E x \in Secrets : PresentHit(r, x)) \/ Put(r)
      BY <1>1, <3>1, WhoAnswers, MissAnswersNobody
    <3> QED BY <1>1, <3>1, <3>2, HitAnswers, PutAnswers
  <2>2. ASSUME TurnedAway(r, s) PROVE doubt[s] <= TTL + Lag
    <3>1. CASE PresentHit(r, s) /\ req'[r].pc = "idle"
      BY <1>1, <3>1, HitAnswers
    <3>2. CASE req[r].pc = "put" /\ req[r].s = s /\ req'[r].pc = "idle"
      <4>1. Put(r)
        BY <1>1, <3>2, WhoAnswers, HitAnswers, MissAnswersNobody
      <4> QED BY <1>1, <3>2, <4>1, PutAnswers
    <3> QED BY <2>2, <3>1, <3>2 DEF TurnedAway
  <2> QED BY <2>1, <2>2
<1>2. IInv /\ [Next]_vars =>
        [\A r \in Requests, s \in Secrets :
            /\ LetIn(r, s) => valid[s] <= TTL + Lag
            /\ TurnedAway(r, s) => doubt[s] <= TTL + Lag]_vars
  BY <1>1
<1> QED BY <1>2, Invariant, PTL DEF Spec, AnswersAreRecent

(* adminToggleKey, adminDeleteKey and userDeleteKey change the row and then purge
   the cache: once they have returned, nobody is let in with the key, unless a
   request was between its read of the row and its entry. *)
THEOREM RevokedThen == Spec => RevokedAtOnce
<1>1. ASSUME IInv, [Next]_vars, NEW r \in Requests, NEW k \in Keys, LetIn(r, k)
      PROVE  On(k) \/ k \in raced \/ \E h \in Handlers : handler[h] = k
  <2>1. req[r].pc # "let in" /\ req'[r].pc = "let in" /\ req'[r].s = k
    BY <1>1 DEF LetIn
  <2>2. (\E x \in Secrets : PresentHit(r, x)) \/ Put(r)
    BY <1>1, <2>1, WhoAnswers, MissAnswersNobody
  <2>3. On(k) \/ k \in raced \/ Revoking(k)
    BY <1>1, <2>1, <2>2, HitAnswers, PutAnswers
  <2> QED BY <2>3 DEF Revoking
<1>2. IInv /\ [Next]_vars =>
        [\A r \in Requests, k \in Keys :
            LetIn(r, k) => On(k) \/ k \in raced \/ \E h \in Handlers : handler[h] = k]_vars
  BY <1>1
<1> QED BY <1>2, Invariant, PTL DEF Spec, RevokedAtOnce

=============================================================================
