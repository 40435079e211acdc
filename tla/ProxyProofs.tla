------------------------------ MODULE ProxyProofs ------------------------------
(***************************************************************************)
(* Proofs about Proxy, for any number of requests and streams of any       *)
(* length.                                                                 *)
(***************************************************************************)
EXTENDS Proxy, TLAPS, FiniteSetTheorems

Stages == {"new", "do", "blame", "body", "read", "write", "broken", "reply", "log", "close",
           "release", "done"}
AllCauses == {"none", "build", "eof", "upstream", "hangup", "timeout"}
Locals == [pc : Stages, head : Heads, frame : Frames \cup {"none"}, seen : Seq(Frames),
           cause : AllCauses, status : Nat]
LogRecords == [status : Nat, by : {"none", "usage", "chunks"}, tokens : Nat]

Typing ==
    /\ h \in [Requests -> Locals]
    /\ client \in [Requests -> {"here", "left", "noticed"}]
    /\ expired \in [Requests -> BOOLEAN]
    /\ upstream \in [Requests -> {"none", "open", "closed"}]
    /\ sw \in [Requests -> [err : BOOLEAN, idle : BOOLEAN]]
    /\ ka \in [Requests -> {"none", "wait", "due", "gone"}]
    /\ leased \subseteq Requests
    /\ got \in [Requests -> Seq(Frames)]
    /\ log \in [Requests -> Seq(LogRecords)]

(* What a handler holds at each stage: the lease from Acquire to Release, the
   upstream from Send to Close, and how many records it has made. *)
Holds(r) ==
    /\ r \in leased <=> h[r].pc \notin {"new", "done"}
    /\ h[r].pc = "new" => upstream[r] = "none"
    /\ h[r].pc = "do" => upstream[r] # "closed"
    /\ h[r].pc \in {"body", "read", "write", "broken", "reply", "log", "close"} => upstream[r] = "open"
    /\ h[r].pc = "blame" => upstream[r] = "closed"
    /\ h[r].pc \in {"release", "done"} => upstream[r] # "open"

Records(r) ==
    /\ h[r].pc \notin {"close", "release", "done"} => log[r] = <<>> /\ h[r].cause # "build"
    /\ h[r].pc = "close" => Len(log[r]) = 1 /\ h[r].cause # "build"
    /\ h[r].pc \in {"release", "done"} =>
        \/ h[r].cause = "build" /\ log[r] = <<>>
        \/ h[r].cause # "build" /\ upstream[r] = "closed" /\ Len(log[r]) = 1
        \/ /\ h[r].pc = "done" /\ h[r].cause # "build" /\ upstream[r] = "none"
           /\ Len(log[r]) = IF h[r].status \in Unlogged THEN 0 ELSE 1

(* A status that says who ended the request. *)
Fits(r, status) ==
    /\ status = 499 => client[r] # "here"
    /\ status = 200 => h[r].cause = "eof"
    /\ status \in {500, 502} /\ h[r].cause = "hangup" => ~h[r].head.stream
    /\ h[r].cause = "timeout" /\ client[r] = "here" => status \in {500, 502}

(* A hang-up is a cause only once the server has noticed it, a write fails only
   for a client that left, and the status in hand is one that fits. *)
Blamed(r) ==
    /\ h[r].pc \in {"new", "do", "body", "read", "write"} => h[r].cause = "none"
    /\ h[r].pc \in {"blame", "broken"} =>
        /\ h[r].cause \in {"upstream", "hangup", "timeout"}
        /\ h[r].cause = "hangup" => client[r] = "noticed"
    /\ h[r].pc = "body" => ~h[r].head.stream
    /\ h[r].pc \in {"read", "write", "broken"} => h[r].head.stream
    /\ h[r].pc \in {"read", "write"} => h[r].status = 200
    /\ h[r].pc \in {"reply", "log"} => Fits(r, h[r].status)
    /\ \A i \in DOMAIN log[r] : Fits(r, log[r][i].status)
    /\ sw[r].err => client[r] # "here"

(* The tokens read and those delivered, apart from the one in hand. *)
Charged(r) ==
    /\ h[r].pc = "write" =>
        /\ h[r].seen # <<>> /\ h[r].frame = h[r].seen[Len(h[r].seen)]
        /\ Tokens(h[r].seen) = Tokens(got[r]) + IF h[r].frame = "token" THEN 1 ELSE 0
    /\ h[r].pc \notin {"write", "log", "close", "release", "done"} => Tokens(h[r].seen) = Tokens(got[r])
    /\ h[r].pc = "log" => Tokens(h[r].seen) \in Tokens(got[r])..(Tokens(got[r]) + 1)
    /\ \A i \in DOMAIN log[r] :
        log[r][i].by = "chunks" =>
            log[r][i].tokens \in Tokens(got[r])..(Tokens(got[r]) + 1)

(* Nothing is left out, and as long as no write has failed nothing but the
   frame in hand is still to come. *)
Delivered(r) ==
    /\ Len(got[r]) <= Cardinality(Shown(r))
    /\ \A i \in Shown(r) : Place(r, i) <= Len(got[r]) => got[r][Place(r, i)] = h[r].seen[i]
    /\ ~sw[r].err /\ h[r].pc \in {"new", "do", "read"} => Len(got[r]) = Cardinality(Shown(r))
    /\ ~sw[r].err /\ h[r].pc = "write" =>
        Len(got[r]) = Cardinality(Shown(r) \ {Len(h[r].seen)})

(* The buffer holds a line between a read and its write, and the stream is
   within its bound. *)
InHand(r) ==
    /\ h[r].frame \in (IF h[r].pc = "write" THEN Frames ELSE {"none"})
    /\ Len(h[r].seen) <= MaxFrames
    /\ h[r].pc \in {"new", "do"} => h[r].seen = <<>>

Good(r) ==
    /\ Holds(r)
    /\ Records(r)
    /\ Blamed(r)
    /\ Charged(r)
    /\ Delivered(r)
    /\ InHand(r)

IInv == Typing /\ \A r \in Requests : Good(r)

-----------------------------------------------------------------------------
(* The operators *)

(* Tokens counts the deltas of a sequence, one more for each that is added. *)
LEMMA TokensAppend ==
    ASSUME NEW s \in Seq(Frames), NEW f \in Frames
    PROVE  /\ Tokens(s) \in Nat
           /\ Tokens(Append(s, f)) = Tokens(s) + IF f = "token" THEN 1 ELSE 0
<1> DEFINE T(x) == {i \in DOMAIN x : x[i] = "token"}
<1>1. IsFiniteSet(T(s)) /\ Cardinality(T(s)) \in Nat
  <2>1. T(s) \subseteq 1..Len(s) /\ Len(s) \in Nat
    OBVIOUS
  <2>2. IsFiniteSet(1..Len(s))
    BY <2>1, FS_Interval
  <2> QED BY <2>1, <2>2, FS_Subset, FS_CardinalityType
<1>2. T(Append(s, f)) = IF f = "token" THEN T(s) \cup {Len(s) + 1} ELSE T(s)
  OBVIOUS
<1>3. Len(s) + 1 \notin T(s)
  OBVIOUS
<1>4. Cardinality(T(s) \cup {Len(s) + 1}) = Cardinality(T(s)) + 1
  BY <1>1, <1>3, FS_AddElement
<1>5. Tokens(s) = Cardinality(T(s)) /\ Tokens(Append(s, f)) = Cardinality(T(Append(s, f)))
  BY DEF Tokens
<1> HIDE DEF T
<1> QED BY <1>1, <1>2, <1>4, <1>5

LEMMA TokensEmpty == Tokens(<<>>) = 0
<1>1. {i \in DOMAIN <<>> : <<>>[i] = "token"} = {}
  OBVIOUS
<1> QED BY <1>1, FS_EmptySet DEF Tokens

LEMMA TokensNat == ASSUME NEW s \in Seq(Frames) PROVE Tokens(s) \in Nat
<1>1. "token" \in Frames
  BY DEF Frames
<1> QED BY <1>1, TokensAppend

(* Shown and Place for a sequence. *)
ShownIn(s, asked) == {i \in DOMAIN s : s[i] # "usage" \/ asked}
PlaceIn(s, asked, i) == Cardinality({k \in ShownIn(s, asked) : k <= i})

LEMMA ShownFinite ==
    ASSUME NEW s \in Seq(Frames), NEW asked, NEW S \in SUBSET ShownIn(s, asked)
    PROVE  IsFiniteSet(S) /\ Cardinality(S) \in Nat /\ Cardinality(S) <= Len(s)
<1>1. S \subseteq 1..Len(s) /\ Len(s) \in Nat
  BY DEF ShownIn
<1>2. IsFiniteSet(1..Len(s)) /\ Cardinality(1..Len(s)) = Len(s)
  <2>1. 1 \in Int /\ Len(s) \in Int
    BY <1>1
  <2>2. Cardinality(1..Len(s)) = IF 1 > Len(s) THEN 0 ELSE Len(s) - 1 + 1
    BY <2>1, FS_Interval
  <2> QED BY <1>1, <2>1, <2>2, FS_Interval
<1> QED BY <1>1, <1>2, FS_Subset, FS_CardinalityType

(* A frame that is read comes after the frames there are. *)
LEMMA ShownAppend ==
    ASSUME NEW s \in Seq(Frames), NEW f \in Frames, NEW asked \in BOOLEAN
    PROVE  /\ ShownIn(Append(s, f), asked) \ {Len(s) + 1} = ShownIn(s, asked)
           /\ f # "usage" \/ asked =>
                 /\ Len(s) + 1 \in ShownIn(Append(s, f), asked)
                 /\ PlaceIn(Append(s, f), asked, Len(s) + 1) = Cardinality(ShownIn(s, asked)) + 1
           /\ Cardinality(ShownIn(s, asked)) <= Cardinality(ShownIn(Append(s, f), asked))
           /\ ~(f # "usage" \/ asked) => ShownIn(Append(s, f), asked) = ShownIn(s, asked)
           /\ \A i \in ShownIn(s, asked) : PlaceIn(Append(s, f), asked, i) = PlaceIn(s, asked, i)
<1> DEFINE A == ShownIn(s, asked)
           B == ShownIn(Append(s, f), asked)
           n == Len(s) + 1
<1>0. Append(s, f) \in Seq(Frames) /\ Len(s) \in Nat
  OBVIOUS
<1>1. B = (IF f # "usage" \/ asked THEN A \cup {n} ELSE A) /\ n \notin A
  BY DEF ShownIn
<1>2. \A i \in A : i \in Nat /\ i < n
  BY DEF ShownIn
<1>3. IsFiniteSet(A) /\ Cardinality(A) \in Nat
  BY ShownFinite
<1>4. Cardinality(A \cup {n}) = Cardinality(A) + 1
  BY <1>1, <1>3, FS_AddElement
<1>5. f # "usage" \/ asked => {k \in B : k <= n} = A \cup {n}
  BY <1>0, <1>1, <1>2
<1>6. \A i \in A : {k \in B : k <= i} = {k \in A : k <= i}
  BY <1>0, <1>1, <1>2
<1>7. \A i \in A : PlaceIn(Append(s, f), asked, i) = PlaceIn(s, asked, i)
  BY <1>6 DEF PlaceIn
<1>8. f # "usage" \/ asked => PlaceIn(Append(s, f), asked, n) = Cardinality(A) + 1
  BY <1>4, <1>5 DEF PlaceIn
<1>9. B \ {n} = A
  BY <1>1
<1>10. Cardinality(A) <= Cardinality(B)
  BY <1>1, <1>3, <1>4
<1> QED BY <1>1, <1>7, <1>8, <1>9, <1>10

(* A place is one of as many as there are frames to see. *)
LEMMA PlaceBound ==
    ASSUME NEW s \in Seq(Frames), NEW asked, NEW i \in ShownIn(s, asked)
    PROVE  PlaceIn(s, asked, i) \in 1..Cardinality(ShownIn(s, asked))
<1> DEFINE S == {k \in ShownIn(s, asked) : k <= i}
<1>1. IsFiniteSet(ShownIn(s, asked)) /\ Cardinality(ShownIn(s, asked)) \in Nat
  BY ShownFinite
<1>2. i \in Nat
  BY DEF ShownIn
<1>3. i \in S /\ S \subseteq ShownIn(s, asked)
  BY <1>2
<1>4. /\ IsFiniteSet(S) /\ Cardinality(S) \in Nat
      /\ Cardinality(S) <= Cardinality(ShownIn(s, asked))
  BY <1>1, <1>3, FS_Subset, FS_CardinalityType
<1>5. Cardinality(S) # 0
  BY <1>3, <1>4, FS_EmptySet
<1>6. Cardinality(S) \in 1..Cardinality(ShownIn(s, asked))
  BY <1>1, <1>4, <1>5
<1> QED BY <1>6 DEF PlaceIn

(* ... which Shown and Place are, for what a request has read. *)
LEMMA ShownIs ==
    ASSUME NEW r
    PROVE  /\ Shown(r) = ShownIn(h[r].seen, h[r].head.asked)
           /\ \A i : Place(r, i) = PlaceIn(h[r].seen, h[r].head.asked, i)
BY DEF Shown, ShownIn, Place, PlaceIn

LEMMA ShownIsNext ==
    ASSUME NEW r
    PROVE  /\ Shown(r)' = ShownIn(h'[r].seen, h'[r].head.asked)
           /\ \A i : Place(r, i)' = PlaceIn(h'[r].seen, h'[r].head.asked, i)
BY DEF Shown, ShownIn, Place, PlaceIn

-----------------------------------------------------------------------------
(* What each step does to its request, field by field; the others stay. *)

Same(q) ==
    /\ h'[q] = h[q] /\ client'[q] = client[q] /\ expired'[q] = expired[q]
    /\ upstream'[q] = upstream[q] /\ sw'[q] = sw[q] /\ ka'[q] = ka[q]
    /\ got'[q] = got[q] /\ log'[q] = log[q] /\ (q \in leased' <=> q \in leased)

Steps(r) == Typing' /\ \A q \in Requests \ {r} : Same(q)

(* The locals and the records of one request. *)
LEMMA Types == ASSUME Typing, NEW r \in Requests PROVE
    /\ h[r] \in Locals /\ h[r].pc \in Stages /\ h[r].head \in Heads
    /\ h[r].head.stream \in BOOLEAN /\ h[r].head.asked \in BOOLEAN
    /\ h[r].frame \in Frames \cup {"none"} /\ h[r].seen \in Seq(Frames)
    /\ h[r].cause \in AllCauses /\ h[r].status \in Nat
    /\ sw[r].err \in BOOLEAN /\ sw[r].idle \in BOOLEAN
    /\ client[r] \in {"here", "left", "noticed"}
    /\ upstream[r] \in {"none", "open", "closed"}
    /\ got[r] \in Seq(Frames) /\ log[r] \in Seq(LogRecords)
BY DEF Typing, Locals, Heads

LEMMA RecordType ==
    ASSUME NEW l \in Seq(LogRecords), NEW status \in Nat, NEW by \in {"none", "usage", "chunks"},
           NEW tokens \in Nat
    PROVE  /\ Record(status, by, tokens) \in LogRecords
           /\ Append(l, Record(status, by, tokens)) \in Seq(LogRecords)
<1>1. Record(status, by, tokens) \in LogRecords
  BY DEF Record, LogRecords
<1> QED BY <1>1

(* The client hangs up. *)
LEMMA HangUpEffect ==
    ASSUME Typing, NEW r \in Requests, HangUp(r)
    PROVE  /\ Steps(r)
           /\ client[r] = "here"
           /\ h[r].pc # "done"
           /\ h'[r] = h[r]
           /\ client'[r] = "left" /\ expired'[r] = expired[r] /\ upstream'[r] = upstream[r] /\ sw'[r] = sw[r]
           /\ ka'[r] = ka[r] /\ got'[r] = got[r] /\ log'[r] = log[r]
           /\ (r \in leased' <=> r \in leased)
<1>1. UNCHANGED <<expired, upstream, sw, ka, got, log, h, leased>>
  BY DEF HangUp, Goto, env, relay
<1>2. /\ client[r] = "here"
      /\ h[r].pc # "done"
  BY DEF HangUp, Goto, env, relay
<1>3. client' = [client EXCEPT ![r] = "left"]
  BY DEF HangUp, Goto, env, relay, Typing, Log, LogFailure
<1>4. "left" \in {"here", "left", "noticed"}
  BY Types
<1>5. /\ client' \in [Requests -> {"here", "left", "noticed"}] /\ client'[r] = "left"
      /\ \A q \in Requests \ {r} : client'[q] = client[q]
  BY <1>3, <1>4 DEF Typing
<1>6. Steps(r)
  BY <1>1, <1>2, <1>5 DEF Steps, Same, Typing
<1> QED BY <1>6, <1>1, <1>2, <1>5

(* The server notices. *)
LEMMA NoticeEffect ==
    ASSUME Typing, NEW r \in Requests, Notice(r)
    PROVE  /\ Steps(r)
           /\ client[r] = "left"
           /\ h'[r] = h[r]
           /\ client'[r] = "noticed" /\ expired'[r] = expired[r] /\ upstream'[r] = upstream[r] /\ sw'[r] = sw[r]
           /\ ka'[r] = ka[r] /\ got'[r] = got[r] /\ log'[r] = log[r]
           /\ (r \in leased' <=> r \in leased)
<1>1. UNCHANGED <<expired, upstream, sw, ka, got, log, h, leased>>
  BY DEF Notice, Goto, env, relay
<1>2. /\ client[r] = "left"
  BY DEF Notice, Goto, env, relay
<1>3. client' = [client EXCEPT ![r] = "noticed"]
  BY DEF Notice, Goto, env, relay, Typing, Log, LogFailure
<1>4. "noticed" \in {"here", "left", "noticed"}
  BY Types
<1>5. /\ client' \in [Requests -> {"here", "left", "noticed"}] /\ client'[r] = "noticed"
      /\ \A q \in Requests \ {r} : client'[q] = client[q]
  BY <1>3, <1>4 DEF Typing
<1>6. Steps(r)
  BY <1>1, <1>2, <1>5 DEF Steps, Same, Typing
<1> QED BY <1>6, <1>1, <1>2, <1>5

(* The backend's timeout passes. *)
LEMMA TimeoutEffect ==
    ASSUME Typing, NEW r \in Requests, Timeout(r)
    PROVE  /\ Steps(r)
           /\ h'[r] = h[r]
           /\ client'[r] = client[r] /\ expired'[r] = TRUE /\ upstream'[r] = upstream[r] /\ sw'[r] = sw[r]
           /\ ka'[r] = ka[r] /\ got'[r] = got[r] /\ log'[r] = log[r]
           /\ (r \in leased' <=> r \in leased)
<1>1. UNCHANGED <<client, upstream, sw, ka, got, log, h, leased>>
  BY DEF Timeout, Goto, env, relay
<1>2. expired' = [expired EXCEPT ![r] = TRUE]
  BY DEF Timeout, Goto, env, relay, Typing, Log, LogFailure
<1>3. TRUE \in BOOLEAN
  BY Types
<1>4. /\ expired' \in [Requests -> BOOLEAN] /\ expired'[r] = TRUE
      /\ \A q \in Requests \ {r} : expired'[q] = expired[q]
  BY <1>2, <1>3 DEF Typing
<1>5. Steps(r)
  BY <1>1, <1>4 DEF Steps, Same, Typing
<1> QED BY <1>5, <1>1, <1>4

(* Nothing was written for a keep-alive interval. *)
LEMMA SilenceEffect ==
    ASSUME Typing, NEW r \in Requests, Silence(r)
    PROVE  /\ Steps(r)
           /\ h'[r] = h[r]
           /\ client'[r] = client[r] /\ expired'[r] = expired[r] /\ upstream'[r] = upstream[r] /\ sw'[r] = [sw[r] EXCEPT !.idle = TRUE]
           /\ ka'[r] = ka[r] /\ got'[r] = got[r] /\ log'[r] = log[r]
           /\ (r \in leased' <=> r \in leased)
<1>1. UNCHANGED <<client, expired, upstream, ka, got, log, h, leased>>
  BY DEF Silence, Goto, env, relay
<1>2. sw' = [sw EXCEPT ![r] = [sw[r] EXCEPT !.idle = TRUE]]
  BY DEF Silence, Goto, env, relay, Typing, Log, LogFailure
<1>3. [sw[r] EXCEPT !.idle = TRUE] \in [err : BOOLEAN, idle : BOOLEAN]
  <2>1. sw[r] \in [err : BOOLEAN, idle : BOOLEAN]
    BY DEF Typing
  <2> QED BY <2>1
<1>4. /\ sw' \in [Requests -> [err : BOOLEAN, idle : BOOLEAN]] /\ sw'[r] = [sw[r] EXCEPT !.idle = TRUE]
      /\ \A q \in Requests \ {r} : sw'[q] = sw[q]
  BY <1>2, <1>3 DEF Typing
<1>5. Steps(r)
  BY <1>1, <1>4 DEF Steps, Same, Typing
<1> QED BY <1>5, <1>1, <1>4

(* A lease. *)
LEMMA AcquireEffect ==
    ASSUME Typing, NEW r \in Requests, NEW head \in Heads, Acquire(r, head)
    PROVE  /\ Steps(r)
           /\ h[r].pc = "new"
           /\ h'[r].pc = "do" /\ h'[r].head = head /\ h'[r].frame = h[r].frame
           /\ h'[r].seen = h[r].seen /\ h'[r].cause = h[r].cause /\ h'[r].status = h[r].status
           /\ client'[r] = client[r] /\ expired'[r] = expired[r] /\ upstream'[r] = upstream[r] /\ sw'[r] = sw[r]
           /\ ka'[r] = ka[r] /\ got'[r] = got[r] /\ log'[r] = log[r]
           /\ r \in leased'
<1>1. UNCHANGED <<client, expired, upstream, sw, ka, got, log>>
  BY DEF Acquire, Goto, env, relay
<1>2. /\ h[r].pc = "new"
  BY DEF Acquire, Goto, env, relay
<1> DEFINE l0 == h[r]
           l1 == [l0 EXCEPT !.pc = "do"]
           l2 == [l1 EXCEPT !.head = head]
<1>3. h[r] \in Locals /\ h \in [Requests -> Locals]
  BY DEF Typing
<1>4. h'[r] = l2 /\ \A q \in Requests \ {r} : h'[q] = h[q]
  BY <1>3 DEF Acquire, Goto, env, relay
<1>5. (\A q \in Requests : h'[q] \in Locals) => h' \in [Requests -> Locals]
  BY <1>3 DEF Acquire, Goto, env, relay
<1>6. "do" \in Stages
  BY <1>3, Types DEF Stages, AllCauses, Refusals, Unlogged, Frames
<1>7. head \in Heads
  BY <1>3, Types DEF Stages, AllCauses, Refusals, Unlogged, Frames
<1> HIDE DEF l0, l1, l2
<1>8. /\ l1 \in Locals
      /\ l1.pc = "do" /\ l1.head = l0.head /\ l1.frame = l0.frame /\ l1.seen = l0.seen /\ l1.cause = l0.cause /\ l1.status = l0.status
  BY <1>3, <1>6 DEF l1, Locals, l0
<1>9. /\ l2 \in Locals
      /\ l2.pc = l1.pc /\ l2.head = head /\ l2.frame = l1.frame /\ l2.seen = l1.seen /\ l2.cause = l1.cause /\ l2.status = l1.status
  BY <1>8, <1>7 DEF l2, Locals
<1>10. h' \in [Requests -> Locals]
  BY <1>3, <1>4, <1>5, <1>9
<1>11. /\ leased' \subseteq Requests /\ r \in leased'
      /\ \A q \in Requests \ {r} : q \in leased' <=> q \in leased
  BY DEF Acquire, Goto, env, relay, Typing
<1>12. Steps(r)
  BY <1>1, <1>2, <1>4, <1>8, <1>9, <1>10, <1>11 DEF Steps, Same, Typing
<1> QED BY <1>12, <1>1, <1>2, <1>4, <1>8, <1>9, <1>10, <1>11 DEF l0

(* A refusal, with a record or without. *)
LEMMA RefuseEffect ==
    ASSUME Typing, NEW r \in Requests, NEW status \in Refusals, Refuse(r, status)
    PROVE  /\ Steps(r)
           /\ h[r].pc = "new"
           /\ h'[r].pc = "done" /\ h'[r].head = h[r].head /\ h'[r].frame = h[r].frame
           /\ h'[r].seen = h[r].seen /\ h'[r].cause = h[r].cause /\ h'[r].status = status
           /\ client'[r] = client[r] /\ expired'[r] = expired[r] /\ upstream'[r] = upstream[r] /\ sw'[r] = sw[r]
           /\ ka'[r] = ka[r] /\ got'[r] = got[r] /\ log'[r] = (IF status \in Unlogged THEN log[r] ELSE Append(log[r], Record(status, "none", 0)))
           /\ (r \in leased' <=> r \in leased)
<1>1. UNCHANGED <<client, expired, upstream, sw, ka, got, leased>>
  BY DEF Refuse, Goto, env, relay
<1>2. /\ h[r].pc = "new"
  BY DEF Refuse, Goto, env, relay
<1> DEFINE l0 == h[r]
           l1 == [l0 EXCEPT !.pc = "done"]
           l2 == [l1 EXCEPT !.status = status]
<1>3. h[r] \in Locals /\ h \in [Requests -> Locals]
  BY DEF Typing
<1>4. h'[r] = l2 /\ \A q \in Requests \ {r} : h'[q] = h[q]
  BY <1>3 DEF Refuse, Goto, env, relay
<1>5. (\A q \in Requests : h'[q] \in Locals) => h' \in [Requests -> Locals]
  BY <1>3 DEF Refuse, Goto, env, relay
<1>6. "done" \in Stages
  BY <1>3, Types DEF Stages, AllCauses, Refusals, Unlogged, Frames
<1>7. status \in Nat
  BY <1>3, Types DEF Stages, AllCauses, Refusals, Unlogged, Frames
<1> HIDE DEF l0, l1, l2
<1>8. /\ l1 \in Locals
      /\ l1.pc = "done" /\ l1.head = l0.head /\ l1.frame = l0.frame /\ l1.seen = l0.seen /\ l1.cause = l0.cause /\ l1.status = l0.status
  BY <1>3, <1>6 DEF l1, Locals, l0
<1>9. /\ l2 \in Locals
      /\ l2.pc = l1.pc /\ l2.head = l1.head /\ l2.frame = l1.frame /\ l2.seen = l1.seen /\ l2.cause = l1.cause /\ l2.status = status
  BY <1>8, <1>7 DEF l2, Locals
<1>10. h' \in [Requests -> Locals]
  BY <1>3, <1>4, <1>5, <1>9
<1>11. log' = [log EXCEPT ![r] = (IF status \in Unlogged THEN log[r] ELSE Append(log[r], Record(status, "none", 0)))]
  BY DEF Refuse, Goto, env, relay, Typing, Log, LogFailure
<1>12. (IF status \in Unlogged THEN log[r] ELSE Append(log[r], Record(status, "none", 0))) \in Seq(LogRecords)
  <2>1. status \in Nat
    BY DEF Refusals, Unlogged
  <2> QED BY <2>1, Types, RecordType
<1>13. /\ log' \in [Requests -> Seq(LogRecords)] /\ log'[r] = (IF status \in Unlogged THEN log[r] ELSE Append(log[r], Record(status, "none", 0)))
      /\ \A q \in Requests \ {r} : log'[q] = log[q]
  BY <1>11, <1>12 DEF Typing
<1>14. Steps(r)
  BY <1>1, <1>2, <1>4, <1>8, <1>9, <1>10, <1>13 DEF Steps, Same, Typing
<1> QED BY <1>14, <1>1, <1>2, <1>4, <1>8, <1>9, <1>10, <1>13 DEF l0

(* No lease. *)
LEMMA AcquireFailsEffect ==
    ASSUME Typing, NEW r \in Requests, AcquireFails(r)
    PROVE  /\ Steps(r)
           /\ h[r].pc = "new"
           /\ h'[r].pc = "done" /\ h'[r].head = h[r].head /\ h'[r].frame = h[r].frame
           /\ h'[r].seen = h[r].seen /\ h'[r].cause = h[r].cause /\ h'[r].status \in {429, 503}
           /\ client'[r] = client[r] /\ expired'[r] = expired[r] /\ upstream'[r] = upstream[r] /\ sw'[r] = sw[r]
           /\ ka'[r] = ka[r] /\ got'[r] = got[r] /\ log'[r] = Append(log[r], Record(h'[r].status, "none", 0))
           /\ (r \in leased' <=> r \in leased)
<1>0. PICK status \in {429, 503} :
        /\ h' = [h EXCEPT ![r].pc = "done", ![r].status = status]
        /\ LogFailure(r, status)
  BY DEF AcquireFails
<1>1. UNCHANGED <<client, expired, upstream, sw, ka, got, leased>>
  BY <1>0 DEF AcquireFails, Goto, env, relay
<1>2. /\ h[r].pc = "new"
  BY DEF AcquireFails, Goto, env, relay
<1> DEFINE l0 == h[r]
           l1 == [l0 EXCEPT !.pc = "done"]
           l2 == [l1 EXCEPT !.status = status]
<1>3. h[r] \in Locals /\ h \in [Requests -> Locals]
  BY DEF Typing
<1>4. h'[r] = l2 /\ \A q \in Requests \ {r} : h'[q] = h[q]
  BY <1>0, <1>3
<1>5. (\A q \in Requests : h'[q] \in Locals) => h' \in [Requests -> Locals]
  BY <1>0, <1>3
<1>6. "done" \in Stages
  BY <1>3, Types DEF Stages, AllCauses, Refusals, Unlogged, Frames
<1>7. status \in Nat
  BY <1>3, Types DEF Stages, AllCauses, Refusals, Unlogged, Frames
<1> HIDE DEF l0, l1, l2
<1>8. /\ l1 \in Locals
      /\ l1.pc = "done" /\ l1.head = l0.head /\ l1.frame = l0.frame /\ l1.seen = l0.seen /\ l1.cause = l0.cause /\ l1.status = l0.status
  BY <1>3, <1>6 DEF l1, Locals, l0
<1>9. /\ l2 \in Locals
      /\ l2.pc = l1.pc /\ l2.head = l1.head /\ l2.frame = l1.frame /\ l2.seen = l1.seen /\ l2.cause = l1.cause /\ l2.status = status
  BY <1>8, <1>7 DEF l2, Locals
<1>10. h' \in [Requests -> Locals]
  BY <1>3, <1>4, <1>5, <1>9
<1>11. log' = [log EXCEPT ![r] = Append(log[r], Record(status, "none", 0))]
  BY <1>0 DEF AcquireFails, Goto, env, relay, Typing, Log, LogFailure
<1>12. Append(log[r], Record(status, "none", 0)) \in Seq(LogRecords)
  BY Types, RecordType
<1>13. /\ log' \in [Requests -> Seq(LogRecords)] /\ log'[r] = Append(log[r], Record(status, "none", 0))
      /\ \A q \in Requests \ {r} : log'[q] = log[q]
  BY <1>11, <1>12 DEF Typing
<1>14. Steps(r)
  BY <1>1, <1>2, <1>4, <1>8, <1>9, <1>10, <1>13 DEF Steps, Same, Typing
<1> QED BY <1>14, <1>1, <1>2, <1>4, <1>8, <1>9, <1>10, <1>13 DEF l0

(* The handler asks whose fault it was. *)
LEMMA BlameEffect ==
    ASSUME Typing, NEW r \in Requests, Blame(r)
    PROVE  /\ Steps(r)
           /\ h[r].pc = "blame"
           /\ h'[r].pc = "release" /\ h'[r].head = h[r].head /\ h'[r].frame = h[r].frame
           /\ h'[r].seen = h[r].seen /\ h'[r].cause = h[r].cause /\ h'[r].status = (IF client[r] = "noticed" THEN 499 ELSE 502)
           /\ client'[r] = client[r] /\ expired'[r] = expired[r] /\ upstream'[r] = upstream[r] /\ sw'[r] = sw[r]
           /\ ka'[r] = ka[r] /\ got'[r] = got[r] /\ log'[r] = Append(log[r], Record((IF client[r] = "noticed" THEN 499 ELSE 502), "none", 0))
           /\ (r \in leased' <=> r \in leased)
<1>1. UNCHANGED <<client, expired, upstream, sw, ka, got, leased>>
  BY DEF Blame, Goto, env, relay
<1>2. /\ h[r].pc = "blame"
  BY DEF Blame, Goto, env, relay
<1> DEFINE l0 == h[r]
           l1 == [l0 EXCEPT !.pc = "release"]
           l2 == [l1 EXCEPT !.status = (IF client[r] = "noticed" THEN 499 ELSE 502)]
<1>3. h[r] \in Locals /\ h \in [Requests -> Locals]
  BY DEF Typing
<1>4. h'[r] = l2 /\ \A q \in Requests \ {r} : h'[q] = h[q]
  BY <1>3 DEF Blame, Goto, env, relay
<1>5. (\A q \in Requests : h'[q] \in Locals) => h' \in [Requests -> Locals]
  BY <1>3 DEF Blame, Goto, env, relay
<1>6. "release" \in Stages
  BY <1>3, Types DEF Stages, AllCauses, Refusals, Unlogged, Frames
<1>7. (IF client[r] = "noticed" THEN 499 ELSE 502) \in Nat
  BY <1>3, Types DEF Stages, AllCauses, Refusals, Unlogged, Frames
<1> HIDE DEF l0, l1, l2
<1>8. /\ l1 \in Locals
      /\ l1.pc = "release" /\ l1.head = l0.head /\ l1.frame = l0.frame /\ l1.seen = l0.seen /\ l1.cause = l0.cause /\ l1.status = l0.status
  BY <1>3, <1>6 DEF l1, Locals, l0
<1>9. /\ l2 \in Locals
      /\ l2.pc = l1.pc /\ l2.head = l1.head /\ l2.frame = l1.frame /\ l2.seen = l1.seen /\ l2.cause = l1.cause /\ l2.status = (IF client[r] = "noticed" THEN 499 ELSE 502)
  BY <1>8, <1>7 DEF l2, Locals
<1>10. h' \in [Requests -> Locals]
  BY <1>3, <1>4, <1>5, <1>9
<1>11. log' = [log EXCEPT ![r] = Append(log[r], Record((IF client[r] = "noticed" THEN 499 ELSE 502), "none", 0))]
  BY DEF Blame, Goto, env, relay, Typing, Log, LogFailure
<1>12. Append(log[r], Record((IF client[r] = "noticed" THEN 499 ELSE 502), "none", 0)) \in Seq(LogRecords)
  <2>1. (IF client[r] = "noticed" THEN 499 ELSE 502) \in Nat
    OBVIOUS
  <2> QED BY <2>1, Types, RecordType
<1>13. /\ log' \in [Requests -> Seq(LogRecords)] /\ log'[r] = Append(log[r], Record((IF client[r] = "noticed" THEN 499 ELSE 502), "none", 0))
      /\ \A q \in Requests \ {r} : log'[q] = log[q]
  BY <1>11, <1>12 DEF Typing
<1>14. Steps(r)
  BY <1>1, <1>2, <1>4, <1>8, <1>9, <1>10, <1>13 DEF Steps, Same, Typing
<1> QED BY <1>14, <1>1, <1>2, <1>4, <1>8, <1>9, <1>10, <1>13 DEF l0

(* The URL cannot be used. *)
LEMMA BuildFailsEffect ==
    ASSUME Typing, NEW r \in Requests, BuildFails(r)
    PROVE  /\ Steps(r)
           /\ h[r].pc = "do"
           /\ upstream[r] = "none"
           /\ h'[r].pc = "release" /\ h'[r].head = h[r].head /\ h'[r].frame = h[r].frame
           /\ h'[r].seen = h[r].seen /\ h'[r].cause = "build" /\ h'[r].status = 500
           /\ client'[r] = client[r] /\ expired'[r] = expired[r] /\ upstream'[r] = upstream[r] /\ sw'[r] = sw[r]
           /\ ka'[r] = ka[r] /\ got'[r] = got[r] /\ log'[r] = log[r]
           /\ (r \in leased' <=> r \in leased)
<1>1. UNCHANGED <<client, expired, upstream, sw, ka, got, log, leased>>
  BY DEF BuildFails, Goto, env, relay
<1>2. /\ h[r].pc = "do"
      /\ upstream[r] = "none"
  BY DEF BuildFails, Goto, env, relay
<1> DEFINE l0 == h[r]
           l1 == [l0 EXCEPT !.pc = "release"]
           l2 == [l1 EXCEPT !.status = 500]
           l3 == [l2 EXCEPT !.cause = "build"]
<1>3. h[r] \in Locals /\ h \in [Requests -> Locals]
  BY DEF Typing
<1>4. h'[r] = l3 /\ \A q \in Requests \ {r} : h'[q] = h[q]
  BY <1>3 DEF BuildFails, Goto, env, relay
<1>5. (\A q \in Requests : h'[q] \in Locals) => h' \in [Requests -> Locals]
  BY <1>3 DEF BuildFails, Goto, env, relay
<1>6. "release" \in Stages
  BY <1>3, Types DEF Stages, AllCauses, Refusals, Unlogged, Frames
<1>7. 500 \in Nat
  BY <1>3, Types DEF Stages, AllCauses, Refusals, Unlogged, Frames
<1>8. "build" \in AllCauses
  BY <1>3, Types DEF Stages, AllCauses, Refusals, Unlogged, Frames
<1> HIDE DEF l0, l1, l2, l3
<1>9. /\ l1 \in Locals
      /\ l1.pc = "release" /\ l1.head = l0.head /\ l1.frame = l0.frame /\ l1.seen = l0.seen /\ l1.cause = l0.cause /\ l1.status = l0.status
  BY <1>3, <1>6 DEF l1, Locals, l0
<1>10. /\ l2 \in Locals
      /\ l2.pc = l1.pc /\ l2.head = l1.head /\ l2.frame = l1.frame /\ l2.seen = l1.seen /\ l2.cause = l1.cause /\ l2.status = 500
  BY <1>9, <1>7 DEF l2, Locals
<1>11. /\ l3 \in Locals
      /\ l3.pc = l2.pc /\ l3.head = l2.head /\ l3.frame = l2.frame /\ l3.seen = l2.seen /\ l3.cause = "build" /\ l3.status = l2.status
  BY <1>10, <1>8 DEF l3, Locals
<1>12. h' \in [Requests -> Locals]
  BY <1>3, <1>4, <1>5, <1>11
<1>13. Steps(r)
  BY <1>1, <1>2, <1>4, <1>9, <1>10, <1>11, <1>12 DEF Steps, Same, Typing
<1> QED BY <1>13, <1>1, <1>2, <1>4, <1>9, <1>10, <1>11, <1>12 DEF l0

(* The request is sent. *)
LEMMA SendEffect ==
    ASSUME Typing, NEW r \in Requests, Send(r)
    PROVE  /\ Steps(r)
           /\ h[r].pc = "do"
           /\ upstream[r] = "none"
           /\ h'[r] = h[r]
           /\ client'[r] = client[r] /\ expired'[r] = expired[r] /\ upstream'[r] = "open" /\ sw'[r] = sw[r]
           /\ ka'[r] = ka[r] /\ got'[r] = got[r] /\ log'[r] = log[r]
           /\ (r \in leased' <=> r \in leased)
<1>1. UNCHANGED <<client, expired, sw, ka, got, log, h, leased>>
  BY DEF Send, Goto, env, relay
<1>2. /\ h[r].pc = "do"
      /\ upstream[r] = "none"
  BY DEF Send, Goto, env, relay
<1>3. upstream' = [upstream EXCEPT ![r] = "open"]
  BY DEF Send, Goto, env, relay, Typing, Log, LogFailure
<1>4. "open" \in {"none", "open", "closed"}
  BY Types
<1>5. /\ upstream' \in [Requests -> {"none", "open", "closed"}] /\ upstream'[r] = "open"
      /\ \A q \in Requests \ {r} : upstream'[q] = upstream[q]
  BY <1>3, <1>4 DEF Typing
<1>6. Steps(r)
  BY <1>1, <1>2, <1>5 DEF Steps, Same, Typing
<1> QED BY <1>6, <1>1, <1>2, <1>5

(* The call fails. *)
LEMMA DoFailsEffect ==
    ASSUME Typing, NEW r \in Requests, NEW cause \in AllCauses, DoFails(r, cause)
    PROVE  /\ Steps(r)
           /\ h[r].pc = "do"
           /\ upstream[r] = "open"
           /\ cause \in {"upstream", "hangup", "timeout"} /\ (cause = "hangup" => client[r] = "noticed")
           /\ h'[r].pc = "blame" /\ h'[r].head = h[r].head /\ h'[r].frame = h[r].frame
           /\ h'[r].seen = h[r].seen /\ h'[r].cause = cause /\ h'[r].status = h[r].status
           /\ client'[r] = client[r] /\ expired'[r] = expired[r] /\ upstream'[r] = "closed" /\ sw'[r] = sw[r]
           /\ ka'[r] = ka[r] /\ got'[r] = got[r] /\ log'[r] = log[r]
           /\ (r \in leased' <=> r \in leased)
<1>1. UNCHANGED <<client, expired, sw, ka, got, log, leased>>
  BY DEF DoFails, Goto, env, relay, Causes
<1>2. /\ h[r].pc = "do"
      /\ upstream[r] = "open"
      /\ cause \in {"upstream", "hangup", "timeout"} /\ (cause = "hangup" => client[r] = "noticed")
  BY DEF DoFails, Goto, env, relay, Causes
<1> DEFINE l0 == h[r]
           l1 == [l0 EXCEPT !.pc = "blame"]
           l2 == [l1 EXCEPT !.cause = cause]
<1>3. h[r] \in Locals /\ h \in [Requests -> Locals]
  BY DEF Typing
<1>4. h'[r] = l2 /\ \A q \in Requests \ {r} : h'[q] = h[q]
  BY <1>3 DEF DoFails, Goto, env, relay, Causes
<1>5. (\A q \in Requests : h'[q] \in Locals) => h' \in [Requests -> Locals]
  BY <1>3 DEF DoFails, Goto, env, relay, Causes
<1>6. "blame" \in Stages
  BY <1>3, Types DEF Stages, AllCauses, Refusals, Unlogged, Frames
<1>7. cause \in AllCauses
  BY <1>3, Types DEF Stages, AllCauses, Refusals, Unlogged, Frames
<1> HIDE DEF l0, l1, l2
<1>8. /\ l1 \in Locals
      /\ l1.pc = "blame" /\ l1.head = l0.head /\ l1.frame = l0.frame /\ l1.seen = l0.seen /\ l1.cause = l0.cause /\ l1.status = l0.status
  BY <1>3, <1>6 DEF l1, Locals, l0
<1>9. /\ l2 \in Locals
      /\ l2.pc = l1.pc /\ l2.head = l1.head /\ l2.frame = l1.frame /\ l2.seen = l1.seen /\ l2.cause = cause /\ l2.status = l1.status
  BY <1>8, <1>7 DEF l2, Locals
<1>10. h' \in [Requests -> Locals]
  BY <1>3, <1>4, <1>5, <1>9
<1>11. upstream' = [upstream EXCEPT ![r] = "closed"]
  BY DEF DoFails, Goto, env, relay, Causes, Typing, Log, LogFailure
<1>12. "closed" \in {"none", "open", "closed"}
  BY Types
<1>13. /\ upstream' \in [Requests -> {"none", "open", "closed"}] /\ upstream'[r] = "closed"
      /\ \A q \in Requests \ {r} : upstream'[q] = upstream[q]
  BY <1>11, <1>12 DEF Typing
<1>14. Steps(r)
  BY <1>1, <1>2, <1>4, <1>8, <1>9, <1>10, <1>13 DEF Steps, Same, Typing
<1> QED BY <1>14, <1>1, <1>2, <1>4, <1>8, <1>9, <1>10, <1>13 DEF l0

(* The engine's own error is about to be forwarded. *)
LEMMA RelayErrorEffect ==
    ASSUME Typing, NEW r \in Requests, NEW status \in {400, 500}, RelayError(r, status)
    PROVE  /\ Steps(r)
           /\ h[r].pc = "do"
           /\ upstream[r] = "open"
           /\ h'[r].pc = "reply" /\ h'[r].head = h[r].head /\ h'[r].frame = h[r].frame
           /\ h'[r].seen = h[r].seen /\ h'[r].cause = h[r].cause /\ h'[r].status = status
           /\ client'[r] = client[r] /\ expired'[r] = expired[r] /\ upstream'[r] = upstream[r] /\ sw'[r] = sw[r]
           /\ ka'[r] = ka[r] /\ got'[r] = got[r] /\ log'[r] = log[r]
           /\ (r \in leased' <=> r \in leased)
<1>1. UNCHANGED <<client, expired, upstream, sw, ka, got, log, leased>>
  BY DEF RelayError, Goto, env, relay
<1>2. /\ h[r].pc = "do"
      /\ upstream[r] = "open"
  BY DEF RelayError, Goto, env, relay
<1> DEFINE l0 == h[r]
           l1 == [l0 EXCEPT !.pc = "reply"]
           l2 == [l1 EXCEPT !.status = status]
<1>3. h[r] \in Locals /\ h \in [Requests -> Locals]
  BY DEF Typing
<1>4. h'[r] = l2 /\ \A q \in Requests \ {r} : h'[q] = h[q]
  BY <1>3 DEF RelayError, Goto, env, relay
<1>5. (\A q \in Requests : h'[q] \in Locals) => h' \in [Requests -> Locals]
  BY <1>3 DEF RelayError, Goto, env, relay
<1>6. "reply" \in Stages
  BY <1>3, Types DEF Stages, AllCauses, Refusals, Unlogged, Frames
<1>7. status \in Nat
  BY <1>3, Types DEF Stages, AllCauses, Refusals, Unlogged, Frames
<1> HIDE DEF l0, l1, l2
<1>8. /\ l1 \in Locals
      /\ l1.pc = "reply" /\ l1.head = l0.head /\ l1.frame = l0.frame /\ l1.seen = l0.seen /\ l1.cause = l0.cause /\ l1.status = l0.status
  BY <1>3, <1>6 DEF l1, Locals, l0
<1>9. /\ l2 \in Locals
      /\ l2.pc = l1.pc /\ l2.head = l1.head /\ l2.frame = l1.frame /\ l2.seen = l1.seen /\ l2.cause = l1.cause /\ l2.status = status
  BY <1>8, <1>7 DEF l2, Locals
<1>10. h' \in [Requests -> Locals]
  BY <1>3, <1>4, <1>5, <1>9
<1>11. Steps(r)
  BY <1>1, <1>2, <1>4, <1>8, <1>9, <1>10 DEF Steps, Same, Typing
<1> QED BY <1>11, <1>1, <1>2, <1>4, <1>8, <1>9, <1>10 DEF l0

(* relayJSON begins. *)
LEMMA BodyBeginEffect ==
    ASSUME Typing, NEW r \in Requests, BodyBegin(r)
    PROVE  /\ Steps(r)
           /\ h[r].pc = "do"
           /\ upstream[r] = "open"
           /\ ~h[r].head.stream
           /\ h'[r].pc = "body" /\ h'[r].head = h[r].head /\ h'[r].frame = h[r].frame
           /\ h'[r].seen = h[r].seen /\ h'[r].cause = h[r].cause /\ h'[r].status = h[r].status
           /\ client'[r] = client[r] /\ expired'[r] = expired[r] /\ upstream'[r] = upstream[r] /\ sw'[r] = sw[r]
           /\ ka'[r] = ka[r] /\ got'[r] = got[r] /\ log'[r] = log[r]
           /\ (r \in leased' <=> r \in leased)
<1>1. UNCHANGED <<client, expired, upstream, sw, ka, got, log, leased>>
  BY DEF BodyBegin, Goto, env, relay
<1>2. /\ h[r].pc = "do"
      /\ upstream[r] = "open"
      /\ ~h[r].head.stream
  BY DEF BodyBegin, Goto, env, relay
<1> DEFINE l0 == h[r]
           l1 == [l0 EXCEPT !.pc = "body"]
<1>3. h[r] \in Locals /\ h \in [Requests -> Locals]
  BY DEF Typing
<1>4. h'[r] = l1 /\ \A q \in Requests \ {r} : h'[q] = h[q]
  BY <1>3 DEF BodyBegin, Goto, env, relay
<1>5. (\A q \in Requests : h'[q] \in Locals) => h' \in [Requests -> Locals]
  BY <1>3 DEF BodyBegin, Goto, env, relay
<1>6. "body" \in Stages
  BY <1>3, Types DEF Stages, AllCauses, Refusals, Unlogged, Frames
<1> HIDE DEF l0, l1
<1>7. /\ l1 \in Locals
      /\ l1.pc = "body" /\ l1.head = l0.head /\ l1.frame = l0.frame /\ l1.seen = l0.seen /\ l1.cause = l0.cause /\ l1.status = l0.status
  BY <1>3, <1>6 DEF l1, Locals, l0
<1>8. h' \in [Requests -> Locals]
  BY <1>3, <1>4, <1>5, <1>7
<1>9. Steps(r)
  BY <1>1, <1>2, <1>4, <1>7, <1>8 DEF Steps, Same, Typing
<1> QED BY <1>9, <1>1, <1>2, <1>4, <1>7, <1>8 DEF l0

(* The body is complete. *)
LEMMA BodyReadEffect ==
    ASSUME Typing, NEW r \in Requests, BodyRead(r)
    PROVE  /\ Steps(r)
           /\ h[r].pc = "body"
           /\ h'[r].pc = "reply" /\ h'[r].head = h[r].head /\ h'[r].frame = h[r].frame
           /\ h'[r].seen = h[r].seen /\ h'[r].cause = "eof" /\ h'[r].status = 200
           /\ client'[r] = client[r] /\ expired'[r] = expired[r] /\ upstream'[r] = upstream[r] /\ sw'[r] = sw[r]
           /\ ka'[r] = ka[r] /\ got'[r] = got[r] /\ log'[r] = log[r]
           /\ (r \in leased' <=> r \in leased)
<1>1. UNCHANGED <<client, expired, upstream, sw, ka, got, log, leased>>
  BY DEF BodyRead, Goto, env, relay
<1>2. /\ h[r].pc = "body"
  BY DEF BodyRead, Goto, env, relay
<1> DEFINE l0 == h[r]
           l1 == [l0 EXCEPT !.pc = "reply"]
           l2 == [l1 EXCEPT !.status = 200]
           l3 == [l2 EXCEPT !.cause = "eof"]
<1>3. h[r] \in Locals /\ h \in [Requests -> Locals]
  BY DEF Typing
<1>4. h'[r] = l3 /\ \A q \in Requests \ {r} : h'[q] = h[q]
  BY <1>3 DEF BodyRead, Goto, env, relay
<1>5. (\A q \in Requests : h'[q] \in Locals) => h' \in [Requests -> Locals]
  BY <1>3 DEF BodyRead, Goto, env, relay
<1>6. "reply" \in Stages
  BY <1>3, Types DEF Stages, AllCauses, Refusals, Unlogged, Frames
<1>7. 200 \in Nat
  BY <1>3, Types DEF Stages, AllCauses, Refusals, Unlogged, Frames
<1>8. "eof" \in AllCauses
  BY <1>3, Types DEF Stages, AllCauses, Refusals, Unlogged, Frames
<1> HIDE DEF l0, l1, l2, l3
<1>9. /\ l1 \in Locals
      /\ l1.pc = "reply" /\ l1.head = l0.head /\ l1.frame = l0.frame /\ l1.seen = l0.seen /\ l1.cause = l0.cause /\ l1.status = l0.status
  BY <1>3, <1>6 DEF l1, Locals, l0
<1>10. /\ l2 \in Locals
      /\ l2.pc = l1.pc /\ l2.head = l1.head /\ l2.frame = l1.frame /\ l2.seen = l1.seen /\ l2.cause = l1.cause /\ l2.status = 200
  BY <1>9, <1>7 DEF l2, Locals
<1>11. /\ l3 \in Locals
      /\ l3.pc = l2.pc /\ l3.head = l2.head /\ l3.frame = l2.frame /\ l3.seen = l2.seen /\ l3.cause = "eof" /\ l3.status = l2.status
  BY <1>10, <1>8 DEF l3, Locals
<1>12. h' \in [Requests -> Locals]
  BY <1>3, <1>4, <1>5, <1>11
<1>13. Steps(r)
  BY <1>1, <1>2, <1>4, <1>9, <1>10, <1>11, <1>12 DEF Steps, Same, Typing
<1> QED BY <1>13, <1>1, <1>2, <1>4, <1>9, <1>10, <1>11, <1>12 DEF l0

(* The body has been written. *)
LEMMA ReplyEffect ==
    ASSUME Typing, NEW r \in Requests, Reply(r)
    PROVE  /\ Steps(r)
           /\ h[r].pc = "reply"
           /\ h'[r].pc = "log" /\ h'[r].head = h[r].head /\ h'[r].frame = h[r].frame
           /\ h'[r].seen = h[r].seen /\ h'[r].cause = h[r].cause /\ h'[r].status = h[r].status
           /\ client'[r] = client[r] /\ expired'[r] = expired[r] /\ upstream'[r] = upstream[r] /\ sw'[r] = sw[r]
           /\ ka'[r] = ka[r] /\ got'[r] = got[r] /\ log'[r] = log[r]
           /\ (r \in leased' <=> r \in leased)
<1>1. UNCHANGED <<client, expired, upstream, sw, ka, got, log, leased>>
  BY DEF Reply, Goto, env, relay
<1>2. /\ h[r].pc = "reply"
  BY DEF Reply, Goto, env, relay
<1> DEFINE l0 == h[r]
           l1 == [l0 EXCEPT !.pc = "log"]
<1>3. h[r] \in Locals /\ h \in [Requests -> Locals]
  BY DEF Typing
<1>4. h'[r] = l1 /\ \A q \in Requests \ {r} : h'[q] = h[q]
  BY <1>3 DEF Reply, Goto, env, relay
<1>5. (\A q \in Requests : h'[q] \in Locals) => h' \in [Requests -> Locals]
  BY <1>3 DEF Reply, Goto, env, relay
<1>6. "log" \in Stages
  BY <1>3, Types DEF Stages, AllCauses, Refusals, Unlogged, Frames
<1> HIDE DEF l0, l1
<1>7. /\ l1 \in Locals
      /\ l1.pc = "log" /\ l1.head = l0.head /\ l1.frame = l0.frame /\ l1.seen = l0.seen /\ l1.cause = l0.cause /\ l1.status = l0.status
  BY <1>3, <1>6 DEF l1, Locals, l0
<1>8. h' \in [Requests -> Locals]
  BY <1>3, <1>4, <1>5, <1>7
<1>9. Steps(r)
  BY <1>1, <1>2, <1>4, <1>7, <1>8 DEF Steps, Same, Typing
<1> QED BY <1>9, <1>1, <1>2, <1>4, <1>7, <1>8 DEF l0

(* The body breaks off. *)
LEMMA BodyFailsEffect ==
    ASSUME Typing, NEW r \in Requests, NEW cause \in AllCauses, BodyFails(r, cause)
    PROVE  /\ Steps(r)
           /\ h[r].pc = "body"
           /\ cause \in {"upstream", "hangup", "timeout"} /\ (cause = "hangup" => client[r] = "noticed")
           /\ h'[r].pc = "log" /\ h'[r].head = h[r].head /\ h'[r].frame = h[r].frame
           /\ h'[r].seen = h[r].seen /\ h'[r].cause = cause /\ h'[r].status = 502
           /\ client'[r] = client[r] /\ expired'[r] = expired[r] /\ upstream'[r] = upstream[r] /\ sw'[r] = sw[r]
           /\ ka'[r] = ka[r] /\ got'[r] = got[r] /\ log'[r] = log[r]
           /\ (r \in leased' <=> r \in leased)
<1>1. UNCHANGED <<client, expired, upstream, sw, ka, got, log, leased>>
  BY DEF BodyFails, Goto, env, relay, Causes
<1>2. /\ h[r].pc = "body"
      /\ cause \in {"upstream", "hangup", "timeout"} /\ (cause = "hangup" => client[r] = "noticed")
  BY DEF BodyFails, Goto, env, relay, Causes
<1> DEFINE l0 == h[r]
           l1 == [l0 EXCEPT !.pc = "log"]
           l2 == [l1 EXCEPT !.status = 502]
           l3 == [l2 EXCEPT !.cause = cause]
<1>3. h[r] \in Locals /\ h \in [Requests -> Locals]
  BY DEF Typing
<1>4. h'[r] = l3 /\ \A q \in Requests \ {r} : h'[q] = h[q]
  BY <1>3 DEF BodyFails, Goto, env, relay, Causes
<1>5. (\A q \in Requests : h'[q] \in Locals) => h' \in [Requests -> Locals]
  BY <1>3 DEF BodyFails, Goto, env, relay, Causes
<1>6. "log" \in Stages
  BY <1>3, Types DEF Stages, AllCauses, Refusals, Unlogged, Frames
<1>7. 502 \in Nat
  BY <1>3, Types DEF Stages, AllCauses, Refusals, Unlogged, Frames
<1>8. cause \in AllCauses
  BY <1>3, Types DEF Stages, AllCauses, Refusals, Unlogged, Frames
<1> HIDE DEF l0, l1, l2, l3
<1>9. /\ l1 \in Locals
      /\ l1.pc = "log" /\ l1.head = l0.head /\ l1.frame = l0.frame /\ l1.seen = l0.seen /\ l1.cause = l0.cause /\ l1.status = l0.status
  BY <1>3, <1>6 DEF l1, Locals, l0
<1>10. /\ l2 \in Locals
      /\ l2.pc = l1.pc /\ l2.head = l1.head /\ l2.frame = l1.frame /\ l2.seen = l1.seen /\ l2.cause = l1.cause /\ l2.status = 502
  BY <1>9, <1>7 DEF l2, Locals
<1>11. /\ l3 \in Locals
      /\ l3.pc = l2.pc /\ l3.head = l2.head /\ l3.frame = l2.frame /\ l3.seen = l2.seen /\ l3.cause = cause /\ l3.status = l2.status
  BY <1>10, <1>8 DEF l3, Locals
<1>12. h' \in [Requests -> Locals]
  BY <1>3, <1>4, <1>5, <1>11
<1>13. Steps(r)
  BY <1>1, <1>2, <1>4, <1>9, <1>10, <1>11, <1>12 DEF Steps, Same, Typing
<1> QED BY <1>13, <1>1, <1>2, <1>4, <1>9, <1>10, <1>11, <1>12 DEF l0

(* relayStream begins. *)
LEMMA StreamBeginEffect ==
    ASSUME Typing, NEW r \in Requests, StreamBegin(r)
    PROVE  /\ Steps(r)
           /\ h[r].pc = "do"
           /\ upstream[r] = "open"
           /\ h[r].head.stream
           /\ h'[r].pc = "read" /\ h'[r].head = h[r].head /\ h'[r].frame = h[r].frame
           /\ h'[r].seen = h[r].seen /\ h'[r].cause = h[r].cause /\ h'[r].status = 200
           /\ client'[r] = client[r] /\ expired'[r] = expired[r] /\ upstream'[r] = upstream[r] /\ sw'[r] = sw[r]
           /\ ka'[r] = "wait" /\ got'[r] = got[r] /\ log'[r] = log[r]
           /\ (r \in leased' <=> r \in leased)
<1>1. UNCHANGED <<client, expired, upstream, sw, got, log, leased>>
  BY DEF StreamBegin, Goto, env, relay
<1>2. /\ h[r].pc = "do"
      /\ upstream[r] = "open"
      /\ h[r].head.stream
  BY DEF StreamBegin, Goto, env, relay
<1> DEFINE l0 == h[r]
           l1 == [l0 EXCEPT !.pc = "read"]
           l2 == [l1 EXCEPT !.status = 200]
<1>3. h[r] \in Locals /\ h \in [Requests -> Locals]
  BY DEF Typing
<1>4. h'[r] = l2 /\ \A q \in Requests \ {r} : h'[q] = h[q]
  BY <1>3 DEF StreamBegin, Goto, env, relay
<1>5. (\A q \in Requests : h'[q] \in Locals) => h' \in [Requests -> Locals]
  BY <1>3 DEF StreamBegin, Goto, env, relay
<1>6. "read" \in Stages
  BY <1>3, Types DEF Stages, AllCauses, Refusals, Unlogged, Frames
<1>7. 200 \in Nat
  BY <1>3, Types DEF Stages, AllCauses, Refusals, Unlogged, Frames
<1> HIDE DEF l0, l1, l2
<1>8. /\ l1 \in Locals
      /\ l1.pc = "read" /\ l1.head = l0.head /\ l1.frame = l0.frame /\ l1.seen = l0.seen /\ l1.cause = l0.cause /\ l1.status = l0.status
  BY <1>3, <1>6 DEF l1, Locals, l0
<1>9. /\ l2 \in Locals
      /\ l2.pc = l1.pc /\ l2.head = l1.head /\ l2.frame = l1.frame /\ l2.seen = l1.seen /\ l2.cause = l1.cause /\ l2.status = 200
  BY <1>8, <1>7 DEF l2, Locals
<1>10. h' \in [Requests -> Locals]
  BY <1>3, <1>4, <1>5, <1>9
<1>11. ka' = [ka EXCEPT ![r] = "wait"]
  BY DEF StreamBegin, Goto, env, relay, Typing, Log, LogFailure
<1>12. "wait" \in {"none", "wait", "due", "gone"}
  BY Types
<1>13. /\ ka' \in [Requests -> {"none", "wait", "due", "gone"}] /\ ka'[r] = "wait"
      /\ \A q \in Requests \ {r} : ka'[q] = ka[q]
  BY <1>11, <1>12 DEF Typing
<1>14. Steps(r)
  BY <1>1, <1>2, <1>4, <1>8, <1>9, <1>10, <1>13 DEF Steps, Same, Typing
<1> QED BY <1>14, <1>1, <1>2, <1>4, <1>8, <1>9, <1>10, <1>13 DEF l0

(* A line is read. *)
LEMMA ReadFrameEffect ==
    ASSUME Typing, NEW r \in Requests, NEW f \in Frames, ReadFrame(r, f)
    PROVE  /\ Steps(r)
           /\ h[r].pc = "read"
           /\ Len(h[r].seen) < MaxFrames
           /\ h'[r].pc = "write" /\ h'[r].head = h[r].head /\ h'[r].frame = f
           /\ h'[r].seen = Append(h[r].seen, f) /\ h'[r].cause = h[r].cause /\ h'[r].status = h[r].status
           /\ client'[r] = client[r] /\ expired'[r] = expired[r] /\ upstream'[r] = upstream[r] /\ sw'[r] = sw[r]
           /\ ka'[r] = ka[r] /\ got'[r] = got[r] /\ log'[r] = log[r]
           /\ (r \in leased' <=> r \in leased)
<1>1. UNCHANGED <<client, expired, upstream, sw, ka, got, log, leased>>
  BY DEF ReadFrame, Goto, env, relay
<1>2. /\ h[r].pc = "read"
      /\ Len(h[r].seen) < MaxFrames
  BY DEF ReadFrame, Goto, env, relay
<1> DEFINE l0 == h[r]
           l1 == [l0 EXCEPT !.pc = "write"]
           l2 == [l1 EXCEPT !.frame = f]
           l3 == [l2 EXCEPT !.seen = Append(h[r].seen, f)]
<1>3. h[r] \in Locals /\ h \in [Requests -> Locals]
  BY DEF Typing
<1>4. h'[r] = l3 /\ \A q \in Requests \ {r} : h'[q] = h[q]
  BY <1>3 DEF ReadFrame, Goto, env, relay
<1>5. (\A q \in Requests : h'[q] \in Locals) => h' \in [Requests -> Locals]
  BY <1>3 DEF ReadFrame, Goto, env, relay
<1>6. "write" \in Stages
  BY <1>3, Types DEF Stages, AllCauses, Refusals, Unlogged, Frames
<1>7. f \in Frames \cup {"none"}
  BY <1>3, Types DEF Stages, AllCauses, Refusals, Unlogged, Frames
<1>8. Append(h[r].seen, f) \in Seq(Frames)
  BY <1>3, Types DEF Stages, AllCauses, Refusals, Unlogged, Frames
<1> HIDE DEF l0, l1, l2, l3
<1>9. /\ l1 \in Locals
      /\ l1.pc = "write" /\ l1.head = l0.head /\ l1.frame = l0.frame /\ l1.seen = l0.seen /\ l1.cause = l0.cause /\ l1.status = l0.status
  BY <1>3, <1>6 DEF l1, Locals, l0
<1>10. /\ l2 \in Locals
      /\ l2.pc = l1.pc /\ l2.head = l1.head /\ l2.frame = f /\ l2.seen = l1.seen /\ l2.cause = l1.cause /\ l2.status = l1.status
  BY <1>9, <1>7 DEF l2, Locals
<1>11. /\ l3 \in Locals
      /\ l3.pc = l2.pc /\ l3.head = l2.head /\ l3.frame = l2.frame /\ l3.seen = Append(h[r].seen, f) /\ l3.cause = l2.cause /\ l3.status = l2.status
  BY <1>10, <1>8 DEF l3, Locals
<1>12. h' \in [Requests -> Locals]
  BY <1>3, <1>4, <1>5, <1>11
<1>13. Steps(r)
  BY <1>1, <1>2, <1>4, <1>9, <1>10, <1>11, <1>12 DEF Steps, Same, Typing
<1> QED BY <1>13, <1>1, <1>2, <1>4, <1>9, <1>10, <1>11, <1>12 DEF l0

(* The stream ends. *)
LEMMA ReadEndEffect ==
    ASSUME Typing, NEW r \in Requests, ReadEnd(r)
    PROVE  /\ Steps(r)
           /\ h[r].pc = "read"
           /\ h'[r].pc = "log" /\ h'[r].head = h[r].head /\ h'[r].frame = h[r].frame
           /\ h'[r].seen = h[r].seen /\ h'[r].cause = "eof" /\ h'[r].status = h[r].status
           /\ client'[r] = client[r] /\ expired'[r] = expired[r] /\ upstream'[r] = upstream[r] /\ sw'[r] = sw[r]
           /\ ka'[r] = ka[r] /\ got'[r] = got[r] /\ log'[r] = log[r]
           /\ (r \in leased' <=> r \in leased)
<1>1. UNCHANGED <<client, expired, upstream, sw, ka, got, log, leased>>
  BY DEF ReadEnd, Goto, env, relay
<1>2. /\ h[r].pc = "read"
  BY DEF ReadEnd, Goto, env, relay
<1> DEFINE l0 == h[r]
           l1 == [l0 EXCEPT !.pc = "log"]
           l2 == [l1 EXCEPT !.cause = "eof"]
<1>3. h[r] \in Locals /\ h \in [Requests -> Locals]
  BY DEF Typing
<1>4. h'[r] = l2 /\ \A q \in Requests \ {r} : h'[q] = h[q]
  BY <1>3 DEF ReadEnd, Goto, env, relay
<1>5. (\A q \in Requests : h'[q] \in Locals) => h' \in [Requests -> Locals]
  BY <1>3 DEF ReadEnd, Goto, env, relay
<1>6. "log" \in Stages
  BY <1>3, Types DEF Stages, AllCauses, Refusals, Unlogged, Frames
<1>7. "eof" \in AllCauses
  BY <1>3, Types DEF Stages, AllCauses, Refusals, Unlogged, Frames
<1> HIDE DEF l0, l1, l2
<1>8. /\ l1 \in Locals
      /\ l1.pc = "log" /\ l1.head = l0.head /\ l1.frame = l0.frame /\ l1.seen = l0.seen /\ l1.cause = l0.cause /\ l1.status = l0.status
  BY <1>3, <1>6 DEF l1, Locals, l0
<1>9. /\ l2 \in Locals
      /\ l2.pc = l1.pc /\ l2.head = l1.head /\ l2.frame = l1.frame /\ l2.seen = l1.seen /\ l2.cause = "eof" /\ l2.status = l1.status
  BY <1>8, <1>7 DEF l2, Locals
<1>10. h' \in [Requests -> Locals]
  BY <1>3, <1>4, <1>5, <1>9
<1>11. Steps(r)
  BY <1>1, <1>2, <1>4, <1>8, <1>9, <1>10 DEF Steps, Same, Typing
<1> QED BY <1>11, <1>1, <1>2, <1>4, <1>8, <1>9, <1>10 DEF l0

(* The stream breaks off. *)
LEMMA ReadFailsEffect ==
    ASSUME Typing, NEW r \in Requests, NEW cause \in AllCauses, ReadFails(r, cause)
    PROVE  /\ Steps(r)
           /\ h[r].pc = "read"
           /\ cause \in {"upstream", "hangup", "timeout"} /\ (cause = "hangup" => client[r] = "noticed")
           /\ h'[r].pc = "broken" /\ h'[r].head = h[r].head /\ h'[r].frame = h[r].frame
           /\ h'[r].seen = h[r].seen /\ h'[r].cause = cause /\ h'[r].status = h[r].status
           /\ client'[r] = client[r] /\ expired'[r] = expired[r] /\ upstream'[r] = upstream[r] /\ sw'[r] = sw[r]
           /\ ka'[r] = ka[r] /\ got'[r] = got[r] /\ log'[r] = log[r]
           /\ (r \in leased' <=> r \in leased)
<1>1. UNCHANGED <<client, expired, upstream, sw, ka, got, log, leased>>
  BY DEF ReadFails, Goto, env, relay, Causes
<1>2. /\ h[r].pc = "read"
      /\ cause \in {"upstream", "hangup", "timeout"} /\ (cause = "hangup" => client[r] = "noticed")
  BY DEF ReadFails, Goto, env, relay, Causes
<1> DEFINE l0 == h[r]
           l1 == [l0 EXCEPT !.pc = "broken"]
           l2 == [l1 EXCEPT !.cause = cause]
<1>3. h[r] \in Locals /\ h \in [Requests -> Locals]
  BY DEF Typing
<1>4. h'[r] = l2 /\ \A q \in Requests \ {r} : h'[q] = h[q]
  BY <1>3 DEF ReadFails, Goto, env, relay, Causes
<1>5. (\A q \in Requests : h'[q] \in Locals) => h' \in [Requests -> Locals]
  BY <1>3 DEF ReadFails, Goto, env, relay, Causes
<1>6. "broken" \in Stages
  BY <1>3, Types DEF Stages, AllCauses, Refusals, Unlogged, Frames
<1>7. cause \in AllCauses
  BY <1>3, Types DEF Stages, AllCauses, Refusals, Unlogged, Frames
<1> HIDE DEF l0, l1, l2
<1>8. /\ l1 \in Locals
      /\ l1.pc = "broken" /\ l1.head = l0.head /\ l1.frame = l0.frame /\ l1.seen = l0.seen /\ l1.cause = l0.cause /\ l1.status = l0.status
  BY <1>3, <1>6 DEF l1, Locals, l0
<1>9. /\ l2 \in Locals
      /\ l2.pc = l1.pc /\ l2.head = l1.head /\ l2.frame = l1.frame /\ l2.seen = l1.seen /\ l2.cause = cause /\ l2.status = l1.status
  BY <1>8, <1>7 DEF l2, Locals
<1>10. h' \in [Requests -> Locals]
  BY <1>3, <1>4, <1>5, <1>9
<1>11. Steps(r)
  BY <1>1, <1>2, <1>4, <1>8, <1>9, <1>10 DEF Steps, Same, Typing
<1> QED BY <1>11, <1>1, <1>2, <1>4, <1>8, <1>9, <1>10 DEF l0

(* The handler asks who broke it. *)
LEMMA BrokenEffect ==
    ASSUME Typing, NEW r \in Requests, Broken(r)
    PROVE  /\ Steps(r)
           /\ h[r].pc = "broken"
           /\ h'[r].pc = "log" /\ h'[r].head = h[r].head /\ h'[r].frame = h[r].frame
           /\ h'[r].seen = h[r].seen /\ h'[r].cause = h[r].cause /\ h'[r].status = (IF client[r] = "noticed" THEN 499 ELSE 500)
           /\ client'[r] = client[r] /\ expired'[r] = expired[r] /\ upstream'[r] = upstream[r] /\ sw'[r] = sw[r]
           /\ ka'[r] = ka[r] /\ got'[r] = got[r] /\ log'[r] = log[r]
           /\ (r \in leased' <=> r \in leased)
<1>1. UNCHANGED <<client, expired, upstream, sw, ka, got, log, leased>>
  BY DEF Broken, Goto, env, relay
<1>2. /\ h[r].pc = "broken"
  BY DEF Broken, Goto, env, relay
<1> DEFINE l0 == h[r]
           l1 == [l0 EXCEPT !.pc = "log"]
           l2 == [l1 EXCEPT !.status = (IF client[r] = "noticed" THEN 499 ELSE 500)]
<1>3. h[r] \in Locals /\ h \in [Requests -> Locals]
  BY DEF Typing
<1>4. h'[r] = l2 /\ \A q \in Requests \ {r} : h'[q] = h[q]
  BY <1>3 DEF Broken, Goto, env, relay
<1>5. (\A q \in Requests : h'[q] \in Locals) => h' \in [Requests -> Locals]
  BY <1>3 DEF Broken, Goto, env, relay
<1>6. "log" \in Stages
  BY <1>3, Types DEF Stages, AllCauses, Refusals, Unlogged, Frames
<1>7. (IF client[r] = "noticed" THEN 499 ELSE 500) \in Nat
  BY <1>3, Types DEF Stages, AllCauses, Refusals, Unlogged, Frames
<1> HIDE DEF l0, l1, l2
<1>8. /\ l1 \in Locals
      /\ l1.pc = "log" /\ l1.head = l0.head /\ l1.frame = l0.frame /\ l1.seen = l0.seen /\ l1.cause = l0.cause /\ l1.status = l0.status
  BY <1>3, <1>6 DEF l1, Locals, l0
<1>9. /\ l2 \in Locals
      /\ l2.pc = l1.pc /\ l2.head = l1.head /\ l2.frame = l1.frame /\ l2.seen = l1.seen /\ l2.cause = l1.cause /\ l2.status = (IF client[r] = "noticed" THEN 499 ELSE 500)
  BY <1>8, <1>7 DEF l2, Locals
<1>10. h' \in [Requests -> Locals]
  BY <1>3, <1>4, <1>5, <1>9
<1>11. Steps(r)
  BY <1>1, <1>2, <1>4, <1>8, <1>9, <1>10 DEF Steps, Same, Typing
<1> QED BY <1>11, <1>1, <1>2, <1>4, <1>8, <1>9, <1>10 DEF l0

(* The usage frame is kept back. *)
LEMMA WithholdEffect ==
    ASSUME Typing, NEW r \in Requests, Withhold(r)
    PROVE  /\ Steps(r)
           /\ h[r].pc = "write"
           /\ h[r].frame = "usage" /\ h[r].head.stream /\ ~h[r].head.asked
           /\ h'[r].pc = "read" /\ h'[r].head = h[r].head /\ h'[r].frame = "none"
           /\ h'[r].seen = h[r].seen /\ h'[r].cause = h[r].cause /\ h'[r].status = h[r].status
           /\ client'[r] = client[r] /\ expired'[r] = expired[r] /\ upstream'[r] = upstream[r] /\ sw'[r] = sw[r]
           /\ ka'[r] = ka[r] /\ got'[r] = got[r] /\ log'[r] = log[r]
           /\ (r \in leased' <=> r \in leased)
<1>1. UNCHANGED <<client, expired, upstream, sw, ka, got, log, leased>>
  BY DEF Withhold, Goto, env, relay, Withheld, Injected, EnsureUsage
<1>2. /\ h[r].pc = "write"
      /\ h[r].frame = "usage" /\ h[r].head.stream /\ ~h[r].head.asked
  BY DEF Withhold, Goto, env, relay, Withheld, Injected, EnsureUsage
<1> DEFINE l0 == h[r]
           l1 == [l0 EXCEPT !.pc = "read"]
           l2 == [l1 EXCEPT !.frame = "none"]
<1>3. h[r] \in Locals /\ h \in [Requests -> Locals]
  BY DEF Typing
<1>4. h'[r] = l2 /\ \A q \in Requests \ {r} : h'[q] = h[q]
  BY <1>3 DEF Withhold, Goto, env, relay, Withheld, Injected, EnsureUsage
<1>5. (\A q \in Requests : h'[q] \in Locals) => h' \in [Requests -> Locals]
  BY <1>3 DEF Withhold, Goto, env, relay, Withheld, Injected, EnsureUsage
<1>6. "read" \in Stages
  BY <1>3, Types DEF Stages, AllCauses, Refusals, Unlogged, Frames
<1>7. "none" \in Frames \cup {"none"}
  BY <1>3, Types DEF Stages, AllCauses, Refusals, Unlogged, Frames
<1> HIDE DEF l0, l1, l2
<1>8. /\ l1 \in Locals
      /\ l1.pc = "read" /\ l1.head = l0.head /\ l1.frame = l0.frame /\ l1.seen = l0.seen /\ l1.cause = l0.cause /\ l1.status = l0.status
  BY <1>3, <1>6 DEF l1, Locals, l0
<1>9. /\ l2 \in Locals
      /\ l2.pc = l1.pc /\ l2.head = l1.head /\ l2.frame = "none" /\ l2.seen = l1.seen /\ l2.cause = l1.cause /\ l2.status = l1.status
  BY <1>8, <1>7 DEF l2, Locals
<1>10. h' \in [Requests -> Locals]
  BY <1>3, <1>4, <1>5, <1>9
<1>11. Steps(r)
  BY <1>1, <1>2, <1>4, <1>8, <1>9, <1>10 DEF Steps, Same, Typing
<1> QED BY <1>11, <1>1, <1>2, <1>4, <1>8, <1>9, <1>10 DEF l0

(* A keep-alive is due. *)
LEMMA KeepAliveTickEffect ==
    ASSUME Typing, NEW r \in Requests, KeepAliveTick(r)
    PROVE  /\ Steps(r)
           /\ h'[r] = h[r]
           /\ client'[r] = client[r] /\ expired'[r] = expired[r] /\ upstream'[r] = upstream[r] /\ sw'[r] = sw[r]
           /\ ka'[r] = "due" /\ got'[r] = got[r] /\ log'[r] = log[r]
           /\ (r \in leased' <=> r \in leased)
<1>1. UNCHANGED <<client, expired, upstream, sw, got, log, h, leased>>
  BY DEF KeepAliveTick, env
<1>2. ka' = [ka EXCEPT ![r] = "due"]
  BY DEF KeepAliveTick, env, Typing, Log, LogFailure
<1>3. "due" \in {"none", "wait", "due", "gone"}
  BY Types
<1>4. /\ ka' \in [Requests -> {"none", "wait", "due", "gone"}] /\ ka'[r] = "due"
      /\ \A q \in Requests \ {r} : ka'[q] = ka[q]
  BY <1>2, <1>3 DEF Typing
<1>5. Steps(r)
  BY <1>1, <1>4 DEF Steps, Same, Typing
<1> QED BY <1>5, <1>1, <1>4

(* The keep-alive goroutine ends. *)
LEMMA KeepAliveStopEffect ==
    ASSUME Typing, NEW r \in Requests, KeepAliveStop(r)
    PROVE  /\ Steps(r)
           /\ h'[r] = h[r]
           /\ client'[r] = client[r] /\ expired'[r] = expired[r] /\ upstream'[r] = upstream[r] /\ sw'[r] = sw[r]
           /\ ka'[r] = "gone" /\ got'[r] = got[r] /\ log'[r] = log[r]
           /\ (r \in leased' <=> r \in leased)
<1>1. UNCHANGED <<client, expired, upstream, sw, got, log, h, leased>>
  BY DEF KeepAliveStop, env
<1>2. ka' = [ka EXCEPT ![r] = "gone"]
  BY DEF KeepAliveStop, env, Typing, Log, LogFailure
<1>3. "gone" \in {"none", "wait", "due", "gone"}
  BY Types
<1>4. /\ ka' \in [Requests -> {"none", "wait", "due", "gone"}] /\ ka'[r] = "gone"
      /\ \A q \in Requests \ {r} : ka'[q] = ka[q]
  BY <1>2, <1>3 DEF Typing
<1>5. Steps(r)
  BY <1>1, <1>4 DEF Steps, Same, Typing
<1> QED BY <1>5, <1>1, <1>4

(* The record is made. *)
LEMMA LogRecordEffect ==
    ASSUME Typing, NEW r \in Requests, LogRecord(r)
    PROVE  /\ Steps(r)
           /\ h[r].pc = "log"
           /\ h'[r].pc = "close" /\ h'[r].head = h[r].head /\ h'[r].frame = h[r].frame
           /\ h'[r].seen = h[r].seen /\ h'[r].cause = h[r].cause /\ h'[r].status = h[r].status
           /\ client'[r] = client[r] /\ expired'[r] = expired[r] /\ upstream'[r] = upstream[r] /\ sw'[r] = sw[r]
           /\ ka'[r] = ka[r] /\ got'[r] = got[r] /\ log'[r] = Append(log[r], Account(r))
           /\ (r \in leased' <=> r \in leased)
<1>1. UNCHANGED <<client, expired, upstream, sw, ka, got, leased>>
  BY DEF LogRecord, Goto, env, relay
<1>2. /\ h[r].pc = "log"
  BY DEF LogRecord, Goto, env, relay
<1> DEFINE l0 == h[r]
           l1 == [l0 EXCEPT !.pc = "close"]
<1>3. h[r] \in Locals /\ h \in [Requests -> Locals]
  BY DEF Typing
<1>4. h'[r] = l1 /\ \A q \in Requests \ {r} : h'[q] = h[q]
  BY <1>3 DEF LogRecord, Goto, env, relay
<1>5. (\A q \in Requests : h'[q] \in Locals) => h' \in [Requests -> Locals]
  BY <1>3 DEF LogRecord, Goto, env, relay
<1>6. "close" \in Stages
  BY <1>3, Types DEF Stages, AllCauses, Refusals, Unlogged, Frames
<1> HIDE DEF l0, l1
<1>7. /\ l1 \in Locals
      /\ l1.pc = "close" /\ l1.head = l0.head /\ l1.frame = l0.frame /\ l1.seen = l0.seen /\ l1.cause = l0.cause /\ l1.status = l0.status
  BY <1>3, <1>6 DEF l1, Locals, l0
<1>8. h' \in [Requests -> Locals]
  BY <1>3, <1>4, <1>5, <1>7
<1>9. log' = [log EXCEPT ![r] = Append(log[r], Account(r))]
  BY DEF LogRecord, Goto, env, relay, Typing, Log, LogFailure
<1>10. Append(log[r], Account(r)) \in Seq(LogRecords)
  <2>1. Tokens(h[r].seen) \in Nat
    BY Types, TokensNat
  <2> QED BY <2>1, Types, RecordType DEF Account
<1>11. /\ log' \in [Requests -> Seq(LogRecords)] /\ log'[r] = Append(log[r], Account(r))
      /\ \A q \in Requests \ {r} : log'[q] = log[q]
  BY <1>9, <1>10 DEF Typing
<1>12. Steps(r)
  BY <1>1, <1>2, <1>4, <1>7, <1>8, <1>11 DEF Steps, Same, Typing
<1> QED BY <1>12, <1>1, <1>2, <1>4, <1>7, <1>8, <1>11 DEF l0

(* The upstream is closed. *)
LEMMA CloseEffect ==
    ASSUME Typing, NEW r \in Requests, Close(r)
    PROVE  /\ Steps(r)
           /\ h[r].pc = "close"
           /\ h'[r].pc = "release" /\ h'[r].head = h[r].head /\ h'[r].frame = h[r].frame
           /\ h'[r].seen = h[r].seen /\ h'[r].cause = h[r].cause /\ h'[r].status = h[r].status
           /\ client'[r] = client[r] /\ expired'[r] = expired[r] /\ upstream'[r] = "closed" /\ sw'[r] = sw[r]
           /\ ka'[r] = ka[r] /\ got'[r] = got[r] /\ log'[r] = log[r]
           /\ (r \in leased' <=> r \in leased)
<1>1. UNCHANGED <<client, expired, sw, ka, got, log, leased>>
  BY DEF Close, Goto, env, relay
<1>2. /\ h[r].pc = "close"
  BY DEF Close, Goto, env, relay
<1> DEFINE l0 == h[r]
           l1 == [l0 EXCEPT !.pc = "release"]
<1>3. h[r] \in Locals /\ h \in [Requests -> Locals]
  BY DEF Typing
<1>4. h'[r] = l1 /\ \A q \in Requests \ {r} : h'[q] = h[q]
  BY <1>3 DEF Close, Goto, env, relay
<1>5. (\A q \in Requests : h'[q] \in Locals) => h' \in [Requests -> Locals]
  BY <1>3 DEF Close, Goto, env, relay
<1>6. "release" \in Stages
  BY <1>3, Types DEF Stages, AllCauses, Refusals, Unlogged, Frames
<1> HIDE DEF l0, l1
<1>7. /\ l1 \in Locals
      /\ l1.pc = "release" /\ l1.head = l0.head /\ l1.frame = l0.frame /\ l1.seen = l0.seen /\ l1.cause = l0.cause /\ l1.status = l0.status
  BY <1>3, <1>6 DEF l1, Locals, l0
<1>8. h' \in [Requests -> Locals]
  BY <1>3, <1>4, <1>5, <1>7
<1>9. upstream' = [upstream EXCEPT ![r] = "closed"]
  BY DEF Close, Goto, env, relay, Typing, Log, LogFailure
<1>10. "closed" \in {"none", "open", "closed"}
  BY Types
<1>11. /\ upstream' \in [Requests -> {"none", "open", "closed"}] /\ upstream'[r] = "closed"
      /\ \A q \in Requests \ {r} : upstream'[q] = upstream[q]
  BY <1>9, <1>10 DEF Typing
<1>12. Steps(r)
  BY <1>1, <1>2, <1>4, <1>7, <1>8, <1>11 DEF Steps, Same, Typing
<1> QED BY <1>12, <1>1, <1>2, <1>4, <1>7, <1>8, <1>11 DEF l0

(* The lease goes back. *)
LEMMA ReleaseEffect ==
    ASSUME Typing, NEW r \in Requests, Release(r)
    PROVE  /\ Steps(r)
           /\ h[r].pc = "release"
           /\ h'[r].pc = "done" /\ h'[r].head = h[r].head /\ h'[r].frame = h[r].frame
           /\ h'[r].seen = h[r].seen /\ h'[r].cause = h[r].cause /\ h'[r].status = h[r].status
           /\ client'[r] = client[r] /\ expired'[r] = expired[r] /\ upstream'[r] = upstream[r] /\ sw'[r] = sw[r]
           /\ ka'[r] = ka[r] /\ got'[r] = got[r] /\ log'[r] = log[r]
           /\ r \notin leased'
<1>1. UNCHANGED <<client, expired, upstream, sw, ka, got, log>>
  BY DEF Release, Goto, env, relay
<1>2. /\ h[r].pc = "release"
  BY DEF Release, Goto, env, relay
<1> DEFINE l0 == h[r]
           l1 == [l0 EXCEPT !.pc = "done"]
<1>3. h[r] \in Locals /\ h \in [Requests -> Locals]
  BY DEF Typing
<1>4. h'[r] = l1 /\ \A q \in Requests \ {r} : h'[q] = h[q]
  BY <1>3 DEF Release, Goto, env, relay
<1>5. (\A q \in Requests : h'[q] \in Locals) => h' \in [Requests -> Locals]
  BY <1>3 DEF Release, Goto, env, relay
<1>6. "done" \in Stages
  BY <1>3, Types DEF Stages, AllCauses, Refusals, Unlogged, Frames
<1> HIDE DEF l0, l1
<1>7. /\ l1 \in Locals
      /\ l1.pc = "done" /\ l1.head = l0.head /\ l1.frame = l0.frame /\ l1.seen = l0.seen /\ l1.cause = l0.cause /\ l1.status = l0.status
  BY <1>3, <1>6 DEF l1, Locals, l0
<1>8. h' \in [Requests -> Locals]
  BY <1>3, <1>4, <1>5, <1>7
<1>9. /\ leased' \subseteq Requests /\ r \notin leased'
      /\ \A q \in Requests \ {r} : q \in leased' <=> q \in leased
  BY DEF Release, Goto, env, relay, Typing
<1>10. Steps(r)
  BY <1>1, <1>2, <1>4, <1>7, <1>8, <1>9 DEF Steps, Same, Typing
<1> QED BY <1>10, <1>1, <1>2, <1>4, <1>7, <1>8, <1>9 DEF l0

(* A frame is written to the client, or the write fails. *)
LEMMA ForwardEffect ==
    ASSUME Typing, NEW r \in Requests, h[r].frame \in Frames, Forward(r)
    PROVE  /\ Steps(r) /\ h[r].pc = "write"
           /\ h[r].frame # "usage" \/ ~h[r].head.stream \/ h[r].head.asked
           /\ h'[r].head = h[r].head /\ h'[r].frame = "none" /\ h'[r].seen = h[r].seen
           /\ h'[r].cause = h[r].cause
           /\ \/ /\ ~sw[r].err /\ ~sw'[r].err
                 /\ h'[r].pc = "read" /\ h'[r].status = h[r].status
                 /\ got'[r] = Append(got[r], h[r].frame)
              \/ /\ sw[r].err \/ client[r] # "here"
                 /\ sw'[r].err
                 /\ got'[r] = got[r]
                 /\ \/ /\ h[r].frame \in {"usage", "done"}
                       /\ h'[r].pc = "read" /\ h'[r].status = h[r].status
                    \/ /\ h[r].frame \notin {"usage", "done"}
                       /\ h'[r].pc = "log" /\ h'[r].status = 499
           /\ client'[r] = client[r] /\ expired'[r] = expired[r] /\ upstream'[r] = upstream[r]
           /\ ka'[r] = ka[r] /\ log'[r] = log[r] /\ (r \in leased' <=> r \in leased)
<1>1. h[r] \in Locals /\ h \in [Requests -> Locals] /\ sw[r] \in [err : BOOLEAN, idle : BOOLEAN]
  BY DEF Typing
<1>2. PICK ok \in BOOLEAN :
        /\ WriteFlush(r, h[r].frame, ok)
        /\ h' = [h EXCEPT ![r] =
              IF ok \/ h[r].frame \in {"usage", "done"}
                THEN [h[r] EXCEPT !.pc = "read", !.frame = "none"]
                ELSE [h[r] EXCEPT !.pc = "log", !.frame = "none", !.status = 499]]
  BY DEF Forward
<1>3. UNCHANGED <<client, expired, upstream, ka, leased, log>>
  BY DEF Forward, env
<1>4. h[r].pc = "write" /\ (h[r].frame # "usage" \/ ~h[r].head.stream \/ h[r].head.asked)
  BY DEF Forward, Withheld, Injected, EnsureUsage
<1> DEFINE l0 == h[r]
           a1 == [l0 EXCEPT !.pc = "read"]
           a2 == [a1 EXCEPT !.frame = "none"]
           b1 == [l0 EXCEPT !.pc = "log"]
           b2 == [b1 EXCEPT !.frame = "none"]
           b3 == [b2 EXCEPT !.status = 499]
           l == IF ok \/ h[r].frame \in {"usage", "done"} THEN a2 ELSE b3
<1>5. h' = [h EXCEPT ![r] = l]
  BY <1>2
<1>6. "read" \in Stages /\ "log" \in Stages /\ "none" \in Frames \cup {"none"} /\ 499 \in Nat
  BY DEF Stages
<1> HIDE DEF l, l0, a1, a2, b1, b2, b3
<1>7. /\ a1 \in Locals
      /\ a1.pc = "read" /\ a1.head = l0.head /\ a1.frame = l0.frame /\ a1.seen = l0.seen /\ a1.cause = l0.cause /\ a1.status = l0.status
  BY <1>1, <1>6 DEF a1, l0, Locals
<1>8. /\ a2 \in Locals
      /\ a2.pc = a1.pc /\ a2.head = a1.head /\ a2.frame = "none" /\ a2.seen = a1.seen /\ a2.cause = a1.cause /\ a2.status = a1.status
  BY <1>6, <1>7 DEF a2, Locals
<1>9. /\ b1 \in Locals
      /\ b1.pc = "log" /\ b1.head = l0.head /\ b1.frame = l0.frame /\ b1.seen = l0.seen /\ b1.cause = l0.cause /\ b1.status = l0.status
  BY <1>1, <1>6 DEF b1, l0, Locals
<1>10. /\ b2 \in Locals
       /\ b2.pc = b1.pc /\ b2.head = b1.head /\ b2.frame = "none" /\ b2.seen = b1.seen /\ b2.cause = b1.cause /\ b2.status = b1.status
  BY <1>6, <1>9 DEF b2, Locals
<1>11. /\ b3 \in Locals
       /\ b3.pc = b2.pc /\ b3.head = b2.head /\ b3.frame = b2.frame /\ b3.seen = b2.seen /\ b3.cause = b2.cause /\ b3.status = 499
  BY <1>6, <1>10 DEF b3, Locals
<1>12. /\ l \in Locals /\ l.head = h[r].head /\ l.frame = "none" /\ l.seen = h[r].seen /\ l.cause = h[r].cause
       /\ ok \/ h[r].frame \in {"usage", "done"} => l.pc = "read" /\ l.status = h[r].status
       /\ ~(ok \/ h[r].frame \in {"usage", "done"}) => l.pc = "log" /\ l.status = 499
  BY <1>7, <1>8, <1>9, <1>10, <1>11 DEF l, l0
<1>13. /\ h' \in [Requests -> Locals] /\ h'[r] = l /\ \A q \in Requests \ {r} : h'[q] = h[q]
  BY <1>1, <1>5, <1>12
<1>14. CASE ok
  <2>1. /\ ~sw[r].err /\ sw' = [sw EXCEPT ![r].idle = FALSE]
        /\ got' = [got EXCEPT ![r] = Append(got[r], h[r].frame)]
    BY <1>2, <1>14 DEF WriteFlush
  <2>2. /\ sw' \in [Requests -> [err : BOOLEAN, idle : BOOLEAN]] /\ sw'[r].err = sw[r].err
        /\ \A q \in Requests \ {r} : sw'[q] = sw[q]
    BY <1>1, <2>1 DEF Typing
  <2>3. Append(got[r], h[r].frame) \in Seq(Frames)
    BY Types
  <2>4. /\ got' \in [Requests -> Seq(Frames)] /\ got'[r] = Append(got[r], h[r].frame)
        /\ \A q \in Requests \ {r} : got'[q] = got[q]
    BY <2>1, <2>3 DEF Typing
  <2>5. Steps(r)
    BY <1>3, <1>13, <2>2, <2>4 DEF Steps, Same, Typing
  <2> QED BY <1>3, <1>4, <1>12, <1>13, <1>14, <2>1, <2>2, <2>4, <2>5
<1>15. CASE ~ok
  <2>1. (sw[r].err \/ client[r] # "here") /\ sw' = [sw EXCEPT ![r].err = TRUE] /\ got' = got
    BY <1>2, <1>15 DEF WriteFlush
  <2>2. /\ sw' \in [Requests -> [err : BOOLEAN, idle : BOOLEAN]] /\ sw'[r].err
        /\ \A q \in Requests \ {r} : sw'[q] = sw[q]
    BY <1>1, <2>1 DEF Typing
  <2>3. Steps(r)
    BY <1>3, <1>13, <2>1, <2>2 DEF Steps, Same, Typing
  <2> QED BY <1>3, <1>4, <1>12, <1>13, <1>15, <2>1, <2>2, <2>3
<1> QED BY <1>14, <1>15

(* A keep-alive is written, or the write fails. *)
LEMMA KeepAliveWriteEffect ==
    ASSUME Typing, NEW r \in Requests, KeepAliveWrite(r)
    PROVE  /\ Steps(r) /\ h'[r] = h[r]
           /\ \/ sw'[r].err = sw[r].err
              \/ (sw[r].err \/ client[r] # "here") /\ sw'[r].err
           /\ client'[r] = client[r] /\ expired'[r] = expired[r] /\ upstream'[r] = upstream[r]
           /\ got'[r] = got[r] /\ log'[r] = log[r] /\ (r \in leased' <=> r \in leased)
<1>1. sw[r] \in [err : BOOLEAN, idle : BOOLEAN]
  BY DEF Typing
<1>2. PICK ok \in BOOLEAN :
        /\ ~ok => sw[r].err \/ client[r] # "here"
        /\ sw' = [sw EXCEPT ![r] = IF ok THEN [sw[r] EXCEPT !.idle = FALSE]
                                        ELSE [sw[r] EXCEPT !.err = TRUE]]
  BY DEF KeepAliveWrite
<1>3. UNCHANGED <<h, client, expired, upstream, got, leased, log>>
  BY DEF KeepAliveWrite, env
<1>4. /\ ka' \in [Requests -> {"none", "wait", "due", "gone"}]
      /\ \A q \in Requests \ {r} : ka'[q] = ka[q]
  BY DEF KeepAliveWrite, Typing
<1>5. CASE ok
  <2>1. sw' = [sw EXCEPT ![r] = [sw[r] EXCEPT !.idle = FALSE]]
    BY <1>2, <1>5
  <2>2. /\ sw' \in [Requests -> [err : BOOLEAN, idle : BOOLEAN]] /\ sw'[r].err = sw[r].err
        /\ \A q \in Requests \ {r} : sw'[q] = sw[q]
    BY <1>1, <2>1 DEF Typing
  <2>3. Steps(r)
    BY <1>3, <1>4, <2>2 DEF Steps, Same, Typing
  <2> QED BY <1>3, <2>2, <2>3
<1>6. CASE ~ok
  <2>1. sw' = [sw EXCEPT ![r] = [sw[r] EXCEPT !.err = TRUE]]
    BY <1>2, <1>6
  <2>2. /\ sw' \in [Requests -> [err : BOOLEAN, idle : BOOLEAN]] /\ sw'[r].err
        /\ \A q \in Requests \ {r} : sw'[q] = sw[q]
    BY <1>1, <2>1 DEF Typing
  <2>3. Steps(r)
    BY <1>3, <1>4, <2>2 DEF Steps, Same, Typing
  <2> QED BY <1>2, <1>3, <1>6, <2>2, <2>3
<1> QED BY <1>5, <1>6

-----------------------------------------------------------------------------
(* A step keeps what holds of its own request ... *)

(* The first record of a request is its only one. *)
LEMMA FirstRecord ==
    ASSUME NEW l, l = <<>>, NEW rec
    PROVE  Len(Append(l, rec)) = 1 /\ \A i \in DOMAIN Append(l, rec) : Append(l, rec)[i] = rec
OBVIOUS

LEMMA NoRecord == ASSUME NEW l, l = <<>> PROVE Len(l) = 0 /\ DOMAIN l = {}
OBVIOUS

(* A line that is read is the last one. *)
LEMMA LastLine ==
    ASSUME NEW s \in Seq(Frames), NEW f \in Frames
    PROVE  /\ Append(s, f) \in Seq(Frames) /\ Append(s, f) # <<>>
           /\ Len(s) \in Nat /\ Len(Append(s, f)) = Len(s) + 1
           /\ Append(s, f)[Len(s) + 1] = f /\ \A i \in DOMAIN s : Append(s, f)[i] = s[i]
<1>1. Append(s, f) \in Seq(Frames) /\ Len(s) \in Nat /\ Len(Append(s, f)) = Len(s) + 1
  OBVIOUS
<1>2. Append(s, f) # <<>>
  <2>1. Len(<<>>) = 0
    OBVIOUS
  <2> QED BY <1>1, <2>1
<1>3. Append(s, f)[Len(s) + 1] = f
  OBVIOUS
<1>4. \A i \in DOMAIN s : Append(s, f)[i] = s[i]
  OBVIOUS
<1> QED BY <1>1, <1>2, <1>3, <1>4

LEMMA RecordFields ==
    ASSUME NEW status, NEW by, NEW tokens
    PROVE  /\ Record(status, by, tokens).status = status
           /\ Record(status, by, tokens).by = by
           /\ Record(status, by, tokens).tokens = tokens
BY DEF Record

(* A step that reads, delivers and logs nothing, and does not go to a stage
   where more is claimed. *)
LEMMA ChargedStays ==
    ASSUME NEW r, Charged(r), h'[r].seen = h[r].seen, h'[r].frame = h[r].frame,
           got'[r] = got[r], log'[r] = log[r],
           h'[r].pc = "write" => h[r].pc = "write",
           h'[r].pc = "log" => h[r].pc \in {"new", "do", "blame", "body", "read", "broken", "reply", "log"},
           h'[r].pc \notin {"write", "log", "close", "release", "done"} =>
               h[r].pc \notin {"write", "log", "close", "release", "done"},
           Tokens(got[r]) \in Nat
    PROVE  Charged(r)'
BY DEF Charged

LEMMA DeliveredStays ==
    ASSUME NEW r, Delivered(r), h'[r].seen = h[r].seen, h'[r].head = h[r].head, got'[r] = got[r],
           sw[r].err => sw'[r].err,
           h'[r].pc = "write" => h[r].pc = "write",
           h'[r].pc \in {"new", "do", "read"} => h[r].pc \in {"new", "do", "read"}
    PROVE  Delivered(r)'
<1>1. Shown(r)' = Shown(r) /\ \A i : Place(r, i)' = Place(r, i)
  BY ShownIs, ShownIsNext
<1>2. \A i : (got[r][Place(r, i)])' = got[r][Place(r, i)]
  BY <1>1
<1> QED BY <1>1, <1>2 DEF Delivered

LEMMA HangUpKeeps ==
    ASSUME IInv, NEW r \in Requests, HangUp(r)
    PROVE  Steps(r) /\ Good(r)'
<1>1. /\ Typing /\ Holds(r) /\ Records(r) /\ Blamed(r)
      /\ Charged(r) /\ Delivered(r) /\ InHand(r)
  BY DEF IInv, Good
<1>3. /\ Steps(r)
      /\ client[r] = "here"
      /\ h[r].pc # "done"
      /\ h'[r] = h[r]
      /\ client'[r] = "left" /\ expired'[r] = expired[r] /\ upstream'[r] = upstream[r] /\ sw'[r] = sw[r]
      /\ ka'[r] = ka[r] /\ got'[r] = got[r] /\ log'[r] = log[r]
      /\ (r \in leased' <=> r \in leased)
  BY <1>1, HangUpEffect
<1>4. /\ h[r].seen \in Seq(Frames) /\ got[r] \in Seq(Frames) /\ Tokens(got[r]) \in Nat
      /\ Tokens(h[r].seen) \in Nat /\ h[r].pc \in Stages /\ h[r].head.asked \in BOOLEAN
  BY <1>1, Types, TokensNat
<1>8. Holds(r)'
  BY <1>1, <1>3, <1>4 DEF Holds, Stages
<1>9. Records(r)'
  BY <1>1, <1>3, <1>4 DEF Records, Stages
<1>10. Blamed(r)'
  BY <1>1, <1>3, <1>4 DEF Blamed, Fits, Stages
<1>11. Charged(r)'
  BY <1>1, <1>3, <1>4, ChargedStays
<1>12. Delivered(r)'
  BY <1>1, <1>3, <1>4, DeliveredStays
<1>13. InHand(r)'
  BY <1>1, <1>3, <1>4 DEF InHand, Stages
<1> QED BY <1>3, <1>8, <1>9, <1>10, <1>11, <1>12, <1>13 DEF Good

LEMMA NoticeKeeps ==
    ASSUME IInv, NEW r \in Requests, Notice(r)
    PROVE  Steps(r) /\ Good(r)'
<1>1. /\ Typing /\ Holds(r) /\ Records(r) /\ Blamed(r)
      /\ Charged(r) /\ Delivered(r) /\ InHand(r)
  BY DEF IInv, Good
<1>3. /\ Steps(r)
      /\ client[r] = "left"
      /\ h'[r] = h[r]
      /\ client'[r] = "noticed" /\ expired'[r] = expired[r] /\ upstream'[r] = upstream[r] /\ sw'[r] = sw[r]
      /\ ka'[r] = ka[r] /\ got'[r] = got[r] /\ log'[r] = log[r]
      /\ (r \in leased' <=> r \in leased)
  BY <1>1, NoticeEffect
<1>4. /\ h[r].seen \in Seq(Frames) /\ got[r] \in Seq(Frames) /\ Tokens(got[r]) \in Nat
      /\ Tokens(h[r].seen) \in Nat /\ h[r].pc \in Stages /\ h[r].head.asked \in BOOLEAN
  BY <1>1, Types, TokensNat
<1>8. Holds(r)'
  BY <1>1, <1>3, <1>4 DEF Holds, Stages
<1>9. Records(r)'
  BY <1>1, <1>3, <1>4 DEF Records, Stages
<1>10. Blamed(r)'
  BY <1>1, <1>3, <1>4 DEF Blamed, Fits, Stages
<1>11. Charged(r)'
  BY <1>1, <1>3, <1>4, ChargedStays
<1>12. Delivered(r)'
  BY <1>1, <1>3, <1>4, DeliveredStays
<1>13. InHand(r)'
  BY <1>1, <1>3, <1>4 DEF InHand, Stages
<1> QED BY <1>3, <1>8, <1>9, <1>10, <1>11, <1>12, <1>13 DEF Good

LEMMA TimeoutKeeps ==
    ASSUME IInv, NEW r \in Requests, Timeout(r)
    PROVE  Steps(r) /\ Good(r)'
<1>1. /\ Typing /\ Holds(r) /\ Records(r) /\ Blamed(r)
      /\ Charged(r) /\ Delivered(r) /\ InHand(r)
  BY DEF IInv, Good
<1>3. /\ Steps(r)
      /\ h'[r] = h[r]
      /\ client'[r] = client[r] /\ expired'[r] = TRUE /\ upstream'[r] = upstream[r] /\ sw'[r] = sw[r]
      /\ ka'[r] = ka[r] /\ got'[r] = got[r] /\ log'[r] = log[r]
      /\ (r \in leased' <=> r \in leased)
  BY <1>1, TimeoutEffect
<1>4. /\ h[r].seen \in Seq(Frames) /\ got[r] \in Seq(Frames) /\ Tokens(got[r]) \in Nat
      /\ Tokens(h[r].seen) \in Nat /\ h[r].pc \in Stages /\ h[r].head.asked \in BOOLEAN
  BY <1>1, Types, TokensNat
<1>8. Holds(r)'
  BY <1>1, <1>3, <1>4 DEF Holds, Stages
<1>9. Records(r)'
  BY <1>1, <1>3, <1>4 DEF Records, Stages
<1>10. Blamed(r)'
  BY <1>1, <1>3, <1>4 DEF Blamed, Fits, Stages
<1>11. Charged(r)'
  BY <1>1, <1>3, <1>4, ChargedStays
<1>12. Delivered(r)'
  BY <1>1, <1>3, <1>4, DeliveredStays
<1>13. InHand(r)'
  BY <1>1, <1>3, <1>4 DEF InHand, Stages
<1> QED BY <1>3, <1>8, <1>9, <1>10, <1>11, <1>12, <1>13 DEF Good

LEMMA SilenceKeeps ==
    ASSUME IInv, NEW r \in Requests, Silence(r)
    PROVE  Steps(r) /\ Good(r)'
<1>1. /\ Typing /\ Holds(r) /\ Records(r) /\ Blamed(r)
      /\ Charged(r) /\ Delivered(r) /\ InHand(r)
  BY DEF IInv, Good
<1>3. /\ Steps(r)
      /\ h'[r] = h[r]
      /\ client'[r] = client[r] /\ expired'[r] = expired[r] /\ upstream'[r] = upstream[r] /\ sw'[r] = [sw[r] EXCEPT !.idle = TRUE]
      /\ ka'[r] = ka[r] /\ got'[r] = got[r] /\ log'[r] = log[r]
      /\ (r \in leased' <=> r \in leased)
  BY <1>1, SilenceEffect
<1>4. /\ h[r].seen \in Seq(Frames) /\ got[r] \in Seq(Frames) /\ Tokens(got[r]) \in Nat
      /\ Tokens(h[r].seen) \in Nat /\ h[r].pc \in Stages /\ h[r].head.asked \in BOOLEAN
  BY <1>1, Types, TokensNat
<1>8. Holds(r)'
  BY <1>1, <1>3, <1>4 DEF Holds, Stages
<1>9. Records(r)'
  BY <1>1, <1>3, <1>4 DEF Records, Stages
<1>10. Blamed(r)'
  BY <1>1, <1>3, <1>4 DEF Blamed, Fits, Stages
<1>11. Charged(r)'
  BY <1>1, <1>3, <1>4, ChargedStays
<1>12. Delivered(r)'
  <2>1. sw[r] \in [err : BOOLEAN, idle : BOOLEAN]
    BY <1>1 DEF Typing
  <2>2. sw'[r].err = sw[r].err
    BY <1>3, <2>1
  <2> QED BY <1>1, <1>3, <2>2, DeliveredStays
<1>13. InHand(r)'
  BY <1>1, <1>3, <1>4 DEF InHand, Stages
<1> QED BY <1>3, <1>8, <1>9, <1>10, <1>11, <1>12, <1>13 DEF Good

LEMMA RefuseKeeps ==
    ASSUME IInv, NEW r \in Requests, NEW status \in Refusals, Refuse(r, status)
    PROVE  Steps(r) /\ Good(r)'
<1>1. /\ Typing /\ Holds(r) /\ Records(r) /\ Blamed(r)
      /\ Charged(r) /\ Delivered(r) /\ InHand(r)
  BY DEF IInv, Good
<1>3. /\ Steps(r)
      /\ h[r].pc = "new"
      /\ h'[r].pc = "done" /\ h'[r].head = h[r].head /\ h'[r].frame = h[r].frame
      /\ h'[r].seen = h[r].seen /\ h'[r].cause = h[r].cause /\ h'[r].status = status
      /\ client'[r] = client[r] /\ expired'[r] = expired[r] /\ upstream'[r] = upstream[r] /\ sw'[r] = sw[r]
      /\ ka'[r] = ka[r] /\ got'[r] = got[r] /\ log'[r] = (IF status \in Unlogged THEN log[r] ELSE Append(log[r], Record(status, "none", 0)))
      /\ (r \in leased' <=> r \in leased)
  BY <1>1, RefuseEffect
<1>4. /\ h[r].seen \in Seq(Frames) /\ got[r] \in Seq(Frames) /\ Tokens(got[r]) \in Nat
      /\ Tokens(h[r].seen) \in Nat /\ h[r].pc \in Stages /\ h[r].head.asked \in BOOLEAN
  BY <1>1, Types, TokensNat
<1>5. log[r] = <<>>
  BY <1>1, <1>3 DEF Records
<1>6. /\ status \in Unlogged => log'[r] = <<>>
      /\ status \notin Unlogged =>
            /\ Len(log'[r]) = 1
            /\ \A i \in DOMAIN log'[r] : log'[r][i].status = status /\ log'[r][i].by = "none"
  BY <1>3, <1>5, FirstRecord, RecordFields
<1>8. Holds(r)'
  BY <1>1, <1>3, <1>4, <1>5, <1>6 DEF Holds, Stages
<1>9. Records(r)'
  <2>1. h'[r].status = status /\ Len(log'[r]) = IF status \in Unlogged THEN 0 ELSE 1
    BY <1>3, <1>5, <1>6, NoRecord
  <2>2. Holds(r) /\ Records(r) /\ h[r].pc = "new" /\ h'[r].pc = "done" /\ upstream'[r] = upstream[r] /\ h'[r].cause = h[r].cause
    BY <1>1, <1>3
  <2> QED BY <2>1, <2>2 DEF Records, Holds
<1>10. Blamed(r)'
  BY <1>1, <1>3, <1>4, <1>5, <1>6 DEF Blamed, Fits, Stages, Refusals, Unlogged
<1>11. Charged(r)'
  BY <1>1, <1>3, <1>4, <1>5, <1>6 DEF Charged
<1>12. Delivered(r)'
  BY <1>1, <1>3, <1>4, <1>5, <1>6, DeliveredStays
<1>13. InHand(r)'
  BY <1>1, <1>3, <1>4, <1>5, <1>6 DEF InHand, Stages
<1> QED BY <1>3, <1>8, <1>9, <1>10, <1>11, <1>12, <1>13 DEF Good

LEMMA AcquireKeeps ==
    ASSUME IInv, NEW r \in Requests, NEW head \in Heads, Acquire(r, head)
    PROVE  Steps(r) /\ Good(r)'
<1>1. /\ Typing /\ Holds(r) /\ Records(r) /\ Blamed(r)
      /\ Charged(r) /\ Delivered(r) /\ InHand(r)
  BY DEF IInv, Good
<1>3. /\ Steps(r)
      /\ h[r].pc = "new"
      /\ h'[r].pc = "do" /\ h'[r].head = head /\ h'[r].frame = h[r].frame
      /\ h'[r].seen = h[r].seen /\ h'[r].cause = h[r].cause /\ h'[r].status = h[r].status
      /\ client'[r] = client[r] /\ expired'[r] = expired[r] /\ upstream'[r] = upstream[r] /\ sw'[r] = sw[r]
      /\ ka'[r] = ka[r] /\ got'[r] = got[r] /\ log'[r] = log[r]
      /\ r \in leased'
  BY <1>1, AcquireEffect
<1>4. /\ h[r].seen \in Seq(Frames) /\ got[r] \in Seq(Frames) /\ Tokens(got[r]) \in Nat
      /\ Tokens(h[r].seen) \in Nat /\ h[r].pc \in Stages /\ h[r].head.asked \in BOOLEAN
  BY <1>1, Types, TokensNat
<1>8. Holds(r)'
  BY <1>1, <1>3, <1>4 DEF Holds, Stages
<1>9. Records(r)'
  BY <1>1, <1>3, <1>4 DEF Records, Stages
<1>10. Blamed(r)'
  BY <1>1, <1>3, <1>4 DEF Blamed, Fits, Stages
<1>11. Charged(r)'
  BY <1>1, <1>3, <1>4, ChargedStays
<1>12. Delivered(r)'
  <2>1. h[r].seen = <<>> /\ h'[r].seen = <<>>
    BY <1>1, <1>3 DEF InHand
  <2>2. \A a : ShownIn(<<>>, a) = {}
    BY DEF ShownIn
  <2>3. Shown(r) = {} /\ Shown(r)' = {}
    BY <2>1, <2>2, ShownIs, ShownIsNext
  <2> QED BY <1>1, <1>3, <2>3 DEF Delivered
<1>13. InHand(r)'
  BY <1>1, <1>3, <1>4 DEF InHand, Stages
<1> QED BY <1>3, <1>8, <1>9, <1>10, <1>11, <1>12, <1>13 DEF Good

LEMMA AcquireFailsKeeps ==
    ASSUME IInv, NEW r \in Requests, AcquireFails(r)
    PROVE  Steps(r) /\ Good(r)'
<1>1. /\ Typing /\ Holds(r) /\ Records(r) /\ Blamed(r)
      /\ Charged(r) /\ Delivered(r) /\ InHand(r)
  BY DEF IInv, Good
<1>3. /\ Steps(r)
      /\ h[r].pc = "new"
      /\ h'[r].pc = "done" /\ h'[r].head = h[r].head /\ h'[r].frame = h[r].frame
      /\ h'[r].seen = h[r].seen /\ h'[r].cause = h[r].cause /\ h'[r].status \in {429, 503}
      /\ client'[r] = client[r] /\ expired'[r] = expired[r] /\ upstream'[r] = upstream[r] /\ sw'[r] = sw[r]
      /\ ka'[r] = ka[r] /\ got'[r] = got[r] /\ log'[r] = Append(log[r], Record(h'[r].status, "none", 0))
      /\ (r \in leased' <=> r \in leased)
  BY <1>1, AcquireFailsEffect
<1>4. /\ h[r].seen \in Seq(Frames) /\ got[r] \in Seq(Frames) /\ Tokens(got[r]) \in Nat
      /\ Tokens(h[r].seen) \in Nat /\ h[r].pc \in Stages /\ h[r].head.asked \in BOOLEAN
  BY <1>1, Types, TokensNat
<1>5. log[r] = <<>>
  BY <1>1, <1>3 DEF Records
<1>6. /\ Len(log'[r]) = 1
      /\ \A i \in DOMAIN log'[r] : log'[r][i].status = h'[r].status /\ log'[r][i].by = "none"
  BY <1>3, <1>5, FirstRecord, RecordFields
<1>8. Holds(r)'
  BY <1>1, <1>3, <1>4, <1>5, <1>6 DEF Holds, Stages
<1>9. Records(r)'
  <2>1. h'[r].status \notin Unlogged /\ Len(log'[r]) = 1
    BY <1>3, <1>5, <1>6, NoRecord DEF Unlogged
  <2>2. Holds(r) /\ Records(r) /\ h[r].pc = "new" /\ h'[r].pc = "done" /\ upstream'[r] = upstream[r] /\ h'[r].cause = h[r].cause
    BY <1>1, <1>3
  <2> QED BY <2>1, <2>2 DEF Records, Holds
<1>10. Blamed(r)'
  BY <1>1, <1>3, <1>4, <1>5, <1>6 DEF Blamed, Fits, Stages
<1>11. Charged(r)'
  BY <1>1, <1>3, <1>4, <1>5, <1>6 DEF Charged
<1>12. Delivered(r)'
  BY <1>1, <1>3, <1>4, <1>5, <1>6, DeliveredStays
<1>13. InHand(r)'
  BY <1>1, <1>3, <1>4, <1>5, <1>6 DEF InHand, Stages
<1> QED BY <1>3, <1>8, <1>9, <1>10, <1>11, <1>12, <1>13 DEF Good

LEMMA BuildFailsKeeps ==
    ASSUME IInv, NEW r \in Requests, BuildFails(r)
    PROVE  Steps(r) /\ Good(r)'
<1>1. /\ Typing /\ Holds(r) /\ Records(r) /\ Blamed(r)
      /\ Charged(r) /\ Delivered(r) /\ InHand(r)
  BY DEF IInv, Good
<1>3. /\ Steps(r)
      /\ h[r].pc = "do"
      /\ upstream[r] = "none"
      /\ h'[r].pc = "release" /\ h'[r].head = h[r].head /\ h'[r].frame = h[r].frame
      /\ h'[r].seen = h[r].seen /\ h'[r].cause = "build" /\ h'[r].status = 500
      /\ client'[r] = client[r] /\ expired'[r] = expired[r] /\ upstream'[r] = upstream[r] /\ sw'[r] = sw[r]
      /\ ka'[r] = ka[r] /\ got'[r] = got[r] /\ log'[r] = log[r]
      /\ (r \in leased' <=> r \in leased)
  BY <1>1, BuildFailsEffect
<1>4. /\ h[r].seen \in Seq(Frames) /\ got[r] \in Seq(Frames) /\ Tokens(got[r]) \in Nat
      /\ Tokens(h[r].seen) \in Nat /\ h[r].pc \in Stages /\ h[r].head.asked \in BOOLEAN
  BY <1>1, Types, TokensNat
<1>8. Holds(r)'
  BY <1>1, <1>3, <1>4 DEF Holds, Stages
<1>9. Records(r)'
  BY <1>1, <1>3, <1>4 DEF Records, Stages
<1>10. Blamed(r)'
  <2>1. log[r] = <<>>
    BY <1>1, <1>3 DEF Records
  <2>2. DOMAIN log'[r] = {}
    BY <1>3, <2>1, NoRecord
  <2> QED BY <1>1, <1>3, <2>2 DEF Blamed, Fits, Stages
<1>11. Charged(r)'
  BY <1>1, <1>3, <1>4, ChargedStays
<1>12. Delivered(r)'
  BY <1>1, <1>3, <1>4, DeliveredStays
<1>13. InHand(r)'
  BY <1>1, <1>3, <1>4 DEF InHand, Stages
<1> QED BY <1>3, <1>8, <1>9, <1>10, <1>11, <1>12, <1>13 DEF Good

LEMMA SendKeeps ==
    ASSUME IInv, NEW r \in Requests, Send(r)
    PROVE  Steps(r) /\ Good(r)'
<1>1. /\ Typing /\ Holds(r) /\ Records(r) /\ Blamed(r)
      /\ Charged(r) /\ Delivered(r) /\ InHand(r)
  BY DEF IInv, Good
<1>3. /\ Steps(r)
      /\ h[r].pc = "do"
      /\ upstream[r] = "none"
      /\ h'[r] = h[r]
      /\ client'[r] = client[r] /\ expired'[r] = expired[r] /\ upstream'[r] = "open" /\ sw'[r] = sw[r]
      /\ ka'[r] = ka[r] /\ got'[r] = got[r] /\ log'[r] = log[r]
      /\ (r \in leased' <=> r \in leased)
  BY <1>1, SendEffect
<1>4. /\ h[r].seen \in Seq(Frames) /\ got[r] \in Seq(Frames) /\ Tokens(got[r]) \in Nat
      /\ Tokens(h[r].seen) \in Nat /\ h[r].pc \in Stages /\ h[r].head.asked \in BOOLEAN
  BY <1>1, Types, TokensNat
<1>8. Holds(r)'
  BY <1>1, <1>3, <1>4 DEF Holds, Stages
<1>9. Records(r)'
  BY <1>1, <1>3, <1>4 DEF Records, Stages
<1>10. Blamed(r)'
  BY <1>1, <1>3, <1>4 DEF Blamed, Fits, Stages
<1>11. Charged(r)'
  BY <1>1, <1>3, <1>4, ChargedStays
<1>12. Delivered(r)'
  BY <1>1, <1>3, <1>4, DeliveredStays
<1>13. InHand(r)'
  BY <1>1, <1>3, <1>4 DEF InHand, Stages
<1> QED BY <1>3, <1>8, <1>9, <1>10, <1>11, <1>12, <1>13 DEF Good

LEMMA DoFailsKeeps ==
    ASSUME IInv, NEW r \in Requests, NEW cause \in AllCauses, DoFails(r, cause)
    PROVE  Steps(r) /\ Good(r)'
<1>1. /\ Typing /\ Holds(r) /\ Records(r) /\ Blamed(r)
      /\ Charged(r) /\ Delivered(r) /\ InHand(r)
  BY DEF IInv, Good
<1>3. /\ Steps(r)
      /\ h[r].pc = "do"
      /\ upstream[r] = "open"
      /\ cause \in {"upstream", "hangup", "timeout"} /\ (cause = "hangup" => client[r] = "noticed")
      /\ h'[r].pc = "blame" /\ h'[r].head = h[r].head /\ h'[r].frame = h[r].frame
      /\ h'[r].seen = h[r].seen /\ h'[r].cause = cause /\ h'[r].status = h[r].status
      /\ client'[r] = client[r] /\ expired'[r] = expired[r] /\ upstream'[r] = "closed" /\ sw'[r] = sw[r]
      /\ ka'[r] = ka[r] /\ got'[r] = got[r] /\ log'[r] = log[r]
      /\ (r \in leased' <=> r \in leased)
  BY <1>1, DoFailsEffect
<1>4. /\ h[r].seen \in Seq(Frames) /\ got[r] \in Seq(Frames) /\ Tokens(got[r]) \in Nat
      /\ Tokens(h[r].seen) \in Nat /\ h[r].pc \in Stages /\ h[r].head.asked \in BOOLEAN
  BY <1>1, Types, TokensNat
<1>8. Holds(r)'
  BY <1>1, <1>3, <1>4 DEF Holds, Stages
<1>9. Records(r)'
  BY <1>1, <1>3, <1>4 DEF Records, Stages
<1>10. Blamed(r)'
  <2>1. log[r] = <<>>
    BY <1>1, <1>3 DEF Records
  <2>2. DOMAIN log'[r] = {}
    BY <1>3, <2>1, NoRecord
  <2> QED BY <1>1, <1>3, <2>2 DEF Blamed, Fits, Stages
<1>11. Charged(r)'
  BY <1>1, <1>3, <1>4, ChargedStays
<1>12. Delivered(r)'
  BY <1>1, <1>3, <1>4, DeliveredStays
<1>13. InHand(r)'
  BY <1>1, <1>3, <1>4 DEF InHand, Stages
<1> QED BY <1>3, <1>8, <1>9, <1>10, <1>11, <1>12, <1>13 DEF Good

LEMMA BlameKeeps ==
    ASSUME IInv, NEW r \in Requests, Blame(r)
    PROVE  Steps(r) /\ Good(r)'
<1>1. /\ Typing /\ Holds(r) /\ Records(r) /\ Blamed(r)
      /\ Charged(r) /\ Delivered(r) /\ InHand(r)
  BY DEF IInv, Good
<1>3. /\ Steps(r)
      /\ h[r].pc = "blame"
      /\ h'[r].pc = "release" /\ h'[r].head = h[r].head /\ h'[r].frame = h[r].frame
      /\ h'[r].seen = h[r].seen /\ h'[r].cause = h[r].cause /\ h'[r].status = (IF client[r] = "noticed" THEN 499 ELSE 502)
      /\ client'[r] = client[r] /\ expired'[r] = expired[r] /\ upstream'[r] = upstream[r] /\ sw'[r] = sw[r]
      /\ ka'[r] = ka[r] /\ got'[r] = got[r] /\ log'[r] = Append(log[r], Record((IF client[r] = "noticed" THEN 499 ELSE 502), "none", 0))
      /\ (r \in leased' <=> r \in leased)
  BY <1>1, BlameEffect
<1>4. /\ h[r].seen \in Seq(Frames) /\ got[r] \in Seq(Frames) /\ Tokens(got[r]) \in Nat
      /\ Tokens(h[r].seen) \in Nat /\ h[r].pc \in Stages /\ h[r].head.asked \in BOOLEAN
  BY <1>1, Types, TokensNat
<1>5. log[r] = <<>>
  BY <1>1, <1>3 DEF Records
<1>6. /\ Len(log'[r]) = 1
      /\ \A i \in DOMAIN log'[r] : log'[r][i].status = (IF client[r] = "noticed" THEN 499 ELSE 502) /\ log'[r][i].by = "none"
  BY <1>3, <1>5, FirstRecord, RecordFields
<1>8. Holds(r)'
  BY <1>1, <1>3, <1>4, <1>5, <1>6 DEF Holds, Stages
<1>9. Records(r)'
  <2>1. Len(log'[r]) = 1
    BY <1>3, <1>5, <1>6, NoRecord
  <2>2. Holds(r) /\ Records(r) /\ h[r].pc = "blame" /\ h'[r].pc = "release" /\ upstream'[r] = upstream[r] /\ h'[r].cause = h[r].cause
    BY <1>1, <1>3
  <2> QED BY <2>1, <2>2 DEF Records, Holds
<1>10. Blamed(r)'
  BY <1>1, <1>3, <1>4, <1>5, <1>6 DEF Blamed, Fits, Stages
<1>11. Charged(r)'
  BY <1>1, <1>3, <1>4, <1>5, <1>6 DEF Charged
<1>12. Delivered(r)'
  BY <1>1, <1>3, <1>4, <1>5, <1>6, DeliveredStays
<1>13. InHand(r)'
  BY <1>1, <1>3, <1>4, <1>5, <1>6 DEF InHand, Stages
<1> QED BY <1>3, <1>8, <1>9, <1>10, <1>11, <1>12, <1>13 DEF Good

LEMMA RelayErrorKeeps ==
    ASSUME IInv, NEW r \in Requests, NEW status \in {400, 500}, RelayError(r, status)
    PROVE  Steps(r) /\ Good(r)'
<1>1. /\ Typing /\ Holds(r) /\ Records(r) /\ Blamed(r)
      /\ Charged(r) /\ Delivered(r) /\ InHand(r)
  BY DEF IInv, Good
<1>3. /\ Steps(r)
      /\ h[r].pc = "do"
      /\ upstream[r] = "open"
      /\ h'[r].pc = "reply" /\ h'[r].head = h[r].head /\ h'[r].frame = h[r].frame
      /\ h'[r].seen = h[r].seen /\ h'[r].cause = h[r].cause /\ h'[r].status = status
      /\ client'[r] = client[r] /\ expired'[r] = expired[r] /\ upstream'[r] = upstream[r] /\ sw'[r] = sw[r]
      /\ ka'[r] = ka[r] /\ got'[r] = got[r] /\ log'[r] = log[r]
      /\ (r \in leased' <=> r \in leased)
  BY <1>1, RelayErrorEffect
<1>4. /\ h[r].seen \in Seq(Frames) /\ got[r] \in Seq(Frames) /\ Tokens(got[r]) \in Nat
      /\ Tokens(h[r].seen) \in Nat /\ h[r].pc \in Stages /\ h[r].head.asked \in BOOLEAN
  BY <1>1, Types, TokensNat
<1>8. Holds(r)'
  BY <1>1, <1>3, <1>4 DEF Holds, Stages
<1>9. Records(r)'
  BY <1>1, <1>3, <1>4 DEF Records, Stages
<1>10. Blamed(r)'
  <2>1. log[r] = <<>>
    BY <1>1, <1>3 DEF Records
  <2>2. DOMAIN log'[r] = {}
    BY <1>3, <2>1, NoRecord
  <2> QED BY <1>1, <1>3, <2>2 DEF Blamed, Fits, Stages
<1>11. Charged(r)'
  BY <1>1, <1>3, <1>4, ChargedStays
<1>12. Delivered(r)'
  BY <1>1, <1>3, <1>4, DeliveredStays
<1>13. InHand(r)'
  BY <1>1, <1>3, <1>4 DEF InHand, Stages
<1> QED BY <1>3, <1>8, <1>9, <1>10, <1>11, <1>12, <1>13 DEF Good

LEMMA BodyBeginKeeps ==
    ASSUME IInv, NEW r \in Requests, BodyBegin(r)
    PROVE  Steps(r) /\ Good(r)'
<1>1. /\ Typing /\ Holds(r) /\ Records(r) /\ Blamed(r)
      /\ Charged(r) /\ Delivered(r) /\ InHand(r)
  BY DEF IInv, Good
<1>3. /\ Steps(r)
      /\ h[r].pc = "do"
      /\ upstream[r] = "open"
      /\ ~h[r].head.stream
      /\ h'[r].pc = "body" /\ h'[r].head = h[r].head /\ h'[r].frame = h[r].frame
      /\ h'[r].seen = h[r].seen /\ h'[r].cause = h[r].cause /\ h'[r].status = h[r].status
      /\ client'[r] = client[r] /\ expired'[r] = expired[r] /\ upstream'[r] = upstream[r] /\ sw'[r] = sw[r]
      /\ ka'[r] = ka[r] /\ got'[r] = got[r] /\ log'[r] = log[r]
      /\ (r \in leased' <=> r \in leased)
  BY <1>1, BodyBeginEffect
<1>4. /\ h[r].seen \in Seq(Frames) /\ got[r] \in Seq(Frames) /\ Tokens(got[r]) \in Nat
      /\ Tokens(h[r].seen) \in Nat /\ h[r].pc \in Stages /\ h[r].head.asked \in BOOLEAN
  BY <1>1, Types, TokensNat
<1>8. Holds(r)'
  BY <1>1, <1>3, <1>4 DEF Holds, Stages
<1>9. Records(r)'
  BY <1>1, <1>3, <1>4 DEF Records, Stages
<1>10. Blamed(r)'
  BY <1>1, <1>3, <1>4 DEF Blamed, Fits, Stages
<1>11. Charged(r)'
  BY <1>1, <1>3, <1>4, ChargedStays
<1>12. Delivered(r)'
  BY <1>1, <1>3, <1>4, DeliveredStays
<1>13. InHand(r)'
  BY <1>1, <1>3, <1>4 DEF InHand, Stages
<1> QED BY <1>3, <1>8, <1>9, <1>10, <1>11, <1>12, <1>13 DEF Good

LEMMA BodyReadKeeps ==
    ASSUME IInv, NEW r \in Requests, BodyRead(r)
    PROVE  Steps(r) /\ Good(r)'
<1>1. /\ Typing /\ Holds(r) /\ Records(r) /\ Blamed(r)
      /\ Charged(r) /\ Delivered(r) /\ InHand(r)
  BY DEF IInv, Good
<1>3. /\ Steps(r)
      /\ h[r].pc = "body"
      /\ h'[r].pc = "reply" /\ h'[r].head = h[r].head /\ h'[r].frame = h[r].frame
      /\ h'[r].seen = h[r].seen /\ h'[r].cause = "eof" /\ h'[r].status = 200
      /\ client'[r] = client[r] /\ expired'[r] = expired[r] /\ upstream'[r] = upstream[r] /\ sw'[r] = sw[r]
      /\ ka'[r] = ka[r] /\ got'[r] = got[r] /\ log'[r] = log[r]
      /\ (r \in leased' <=> r \in leased)
  BY <1>1, BodyReadEffect
<1>4. /\ h[r].seen \in Seq(Frames) /\ got[r] \in Seq(Frames) /\ Tokens(got[r]) \in Nat
      /\ Tokens(h[r].seen) \in Nat /\ h[r].pc \in Stages /\ h[r].head.asked \in BOOLEAN
  BY <1>1, Types, TokensNat
<1>8. Holds(r)'
  BY <1>1, <1>3, <1>4 DEF Holds, Stages
<1>9. Records(r)'
  BY <1>1, <1>3, <1>4 DEF Records, Stages
<1>10. Blamed(r)'
  <2>1. log[r] = <<>>
    BY <1>1, <1>3 DEF Records
  <2>2. DOMAIN log'[r] = {}
    BY <1>3, <2>1, NoRecord
  <2> QED BY <1>1, <1>3, <2>2 DEF Blamed, Fits, Stages
<1>11. Charged(r)'
  BY <1>1, <1>3, <1>4, ChargedStays
<1>12. Delivered(r)'
  BY <1>1, <1>3, <1>4, DeliveredStays
<1>13. InHand(r)'
  BY <1>1, <1>3, <1>4 DEF InHand, Stages
<1> QED BY <1>3, <1>8, <1>9, <1>10, <1>11, <1>12, <1>13 DEF Good

LEMMA ReplyKeeps ==
    ASSUME IInv, NEW r \in Requests, Reply(r)
    PROVE  Steps(r) /\ Good(r)'
<1>1. /\ Typing /\ Holds(r) /\ Records(r) /\ Blamed(r)
      /\ Charged(r) /\ Delivered(r) /\ InHand(r)
  BY DEF IInv, Good
<1>3. /\ Steps(r)
      /\ h[r].pc = "reply"
      /\ h'[r].pc = "log" /\ h'[r].head = h[r].head /\ h'[r].frame = h[r].frame
      /\ h'[r].seen = h[r].seen /\ h'[r].cause = h[r].cause /\ h'[r].status = h[r].status
      /\ client'[r] = client[r] /\ expired'[r] = expired[r] /\ upstream'[r] = upstream[r] /\ sw'[r] = sw[r]
      /\ ka'[r] = ka[r] /\ got'[r] = got[r] /\ log'[r] = log[r]
      /\ (r \in leased' <=> r \in leased)
  BY <1>1, ReplyEffect
<1>4. /\ h[r].seen \in Seq(Frames) /\ got[r] \in Seq(Frames) /\ Tokens(got[r]) \in Nat
      /\ Tokens(h[r].seen) \in Nat /\ h[r].pc \in Stages /\ h[r].head.asked \in BOOLEAN
  BY <1>1, Types, TokensNat
<1>8. Holds(r)'
  BY <1>1, <1>3, <1>4 DEF Holds, Stages
<1>9. Records(r)'
  BY <1>1, <1>3, <1>4 DEF Records, Stages
<1>10. Blamed(r)'
  BY <1>1, <1>3, <1>4 DEF Blamed, Fits, Stages
<1>11. Charged(r)'
  BY <1>1, <1>3, <1>4, ChargedStays
<1>12. Delivered(r)'
  BY <1>1, <1>3, <1>4, DeliveredStays
<1>13. InHand(r)'
  BY <1>1, <1>3, <1>4 DEF InHand, Stages
<1> QED BY <1>3, <1>8, <1>9, <1>10, <1>11, <1>12, <1>13 DEF Good

LEMMA BodyFailsKeeps ==
    ASSUME IInv, NEW r \in Requests, NEW cause \in AllCauses, BodyFails(r, cause)
    PROVE  Steps(r) /\ Good(r)'
<1>1. /\ Typing /\ Holds(r) /\ Records(r) /\ Blamed(r)
      /\ Charged(r) /\ Delivered(r) /\ InHand(r)
  BY DEF IInv, Good
<1>3. /\ Steps(r)
      /\ h[r].pc = "body"
      /\ cause \in {"upstream", "hangup", "timeout"} /\ (cause = "hangup" => client[r] = "noticed")
      /\ h'[r].pc = "log" /\ h'[r].head = h[r].head /\ h'[r].frame = h[r].frame
      /\ h'[r].seen = h[r].seen /\ h'[r].cause = cause /\ h'[r].status = 502
      /\ client'[r] = client[r] /\ expired'[r] = expired[r] /\ upstream'[r] = upstream[r] /\ sw'[r] = sw[r]
      /\ ka'[r] = ka[r] /\ got'[r] = got[r] /\ log'[r] = log[r]
      /\ (r \in leased' <=> r \in leased)
  BY <1>1, BodyFailsEffect
<1>4. /\ h[r].seen \in Seq(Frames) /\ got[r] \in Seq(Frames) /\ Tokens(got[r]) \in Nat
      /\ Tokens(h[r].seen) \in Nat /\ h[r].pc \in Stages /\ h[r].head.asked \in BOOLEAN
  BY <1>1, Types, TokensNat
<1>8. Holds(r)'
  BY <1>1, <1>3, <1>4 DEF Holds, Stages
<1>9. Records(r)'
  BY <1>1, <1>3, <1>4 DEF Records, Stages
<1>10. Blamed(r)'
  <2>1. log[r] = <<>>
    BY <1>1, <1>3 DEF Records
  <2>2. DOMAIN log'[r] = {}
    BY <1>3, <2>1, NoRecord
  <2> QED BY <1>1, <1>3, <2>2 DEF Blamed, Fits, Stages
<1>11. Charged(r)'
  BY <1>1, <1>3, <1>4, ChargedStays
<1>12. Delivered(r)'
  BY <1>1, <1>3, <1>4, DeliveredStays
<1>13. InHand(r)'
  BY <1>1, <1>3, <1>4 DEF InHand, Stages
<1> QED BY <1>3, <1>8, <1>9, <1>10, <1>11, <1>12, <1>13 DEF Good

LEMMA StreamBeginKeeps ==
    ASSUME IInv, NEW r \in Requests, StreamBegin(r)
    PROVE  Steps(r) /\ Good(r)'
<1>1. /\ Typing /\ Holds(r) /\ Records(r) /\ Blamed(r)
      /\ Charged(r) /\ Delivered(r) /\ InHand(r)
  BY DEF IInv, Good
<1>3. /\ Steps(r)
      /\ h[r].pc = "do"
      /\ upstream[r] = "open"
      /\ h[r].head.stream
      /\ h'[r].pc = "read" /\ h'[r].head = h[r].head /\ h'[r].frame = h[r].frame
      /\ h'[r].seen = h[r].seen /\ h'[r].cause = h[r].cause /\ h'[r].status = 200
      /\ client'[r] = client[r] /\ expired'[r] = expired[r] /\ upstream'[r] = upstream[r] /\ sw'[r] = sw[r]
      /\ ka'[r] = "wait" /\ got'[r] = got[r] /\ log'[r] = log[r]
      /\ (r \in leased' <=> r \in leased)
  BY <1>1, StreamBeginEffect
<1>4. /\ h[r].seen \in Seq(Frames) /\ got[r] \in Seq(Frames) /\ Tokens(got[r]) \in Nat
      /\ Tokens(h[r].seen) \in Nat /\ h[r].pc \in Stages /\ h[r].head.asked \in BOOLEAN
  BY <1>1, Types, TokensNat
<1>8. Holds(r)'
  BY <1>1, <1>3, <1>4 DEF Holds, Stages
<1>9. Records(r)'
  BY <1>1, <1>3, <1>4 DEF Records, Stages
<1>10. Blamed(r)'
  BY <1>1, <1>3, <1>4 DEF Blamed, Fits, Stages
<1>11. Charged(r)'
  BY <1>1, <1>3, <1>4, ChargedStays
<1>12. Delivered(r)'
  BY <1>1, <1>3, <1>4, DeliveredStays
<1>13. InHand(r)'
  BY <1>1, <1>3, <1>4 DEF InHand, Stages
<1> QED BY <1>3, <1>8, <1>9, <1>10, <1>11, <1>12, <1>13 DEF Good

LEMMA ReadFrameKeeps ==
    ASSUME IInv, NEW r \in Requests, NEW f \in Frames, ReadFrame(r, f)
    PROVE  Steps(r) /\ Good(r)'
<1>1. /\ Typing /\ Holds(r) /\ Records(r) /\ Blamed(r)
      /\ Charged(r) /\ Delivered(r) /\ InHand(r)
  BY DEF IInv, Good
<1>3. /\ Steps(r)
      /\ h[r].pc = "read"
      /\ Len(h[r].seen) < MaxFrames
      /\ h'[r].pc = "write" /\ h'[r].head = h[r].head /\ h'[r].frame = f
      /\ h'[r].seen = Append(h[r].seen, f) /\ h'[r].cause = h[r].cause /\ h'[r].status = h[r].status
      /\ client'[r] = client[r] /\ expired'[r] = expired[r] /\ upstream'[r] = upstream[r] /\ sw'[r] = sw[r]
      /\ ka'[r] = ka[r] /\ got'[r] = got[r] /\ log'[r] = log[r]
      /\ (r \in leased' <=> r \in leased)
  BY <1>1, ReadFrameEffect
<1>4. /\ h[r].seen \in Seq(Frames) /\ got[r] \in Seq(Frames) /\ Tokens(got[r]) \in Nat
      /\ Tokens(h[r].seen) \in Nat /\ h[r].pc \in Stages /\ h[r].head.asked \in BOOLEAN
  BY <1>1, Types, TokensNat
<1>8. Holds(r)'
  BY <1>1, <1>3, <1>4 DEF Holds, Stages
<1>9. Records(r)'
  BY <1>1, <1>3, <1>4 DEF Records, Stages
<1>10. Blamed(r)'
  BY <1>1, <1>3, <1>4 DEF Blamed, Fits, Stages
<1>11. Charged(r)'
  <2>1. Tokens(h'[r].seen) = Tokens(h[r].seen) + IF f = "token" THEN 1 ELSE 0
    BY <1>3, <1>4, TokensAppend
  <2>2. h'[r].seen # <<>> /\ h'[r].seen[Len(h'[r].seen)] = f
    BY <1>3, <1>4, LastLine
  <2> QED BY <1>1, <1>3, <1>4, <2>1, <2>2 DEF Charged
<1>12. Delivered(r)'
  <2> DEFINE s == h[r].seen
             asked == h[r].head.asked
  <2>1. /\ Shown(r) = ShownIn(s, asked) /\ Shown(r)' = ShownIn(Append(s, f), asked)
        /\ \A i : Place(r, i) = PlaceIn(s, asked, i) /\ Place(r, i)' = PlaceIn(Append(s, f), asked, i)
    BY <1>3, ShownIs, ShownIsNext
  <2>2. Len(h'[r].seen) = Len(s) + 1 /\ \A i \in DOMAIN s : h'[r].seen[i] = s[i]
    BY <1>3, <1>4, LastLine
  <2>3. Shown(r)' \ {Len(h'[r].seen)} = Shown(r)
    BY <1>4, <2>1, <2>2, ShownAppend
  <2>4. Len(got'[r]) = Len(got[r]) /\ Len(got[r]) \in Nat
    BY <1>3, <1>4
  <2>5. /\ Cardinality(Shown(r)) \in Nat /\ Cardinality(Shown(r)') \in Nat
        /\ Cardinality(Shown(r)) <= Cardinality(Shown(r)')
    <3>1. Append(s, f) \in Seq(Frames)
      BY <1>4
    <3>2. Cardinality(ShownIn(s, asked)) \in Nat
      BY <1>4, ShownFinite
    <3>3. Cardinality(ShownIn(Append(s, f), asked)) \in Nat
      BY <3>1, ShownFinite
    <3>4. Cardinality(ShownIn(s, asked)) <= Cardinality(ShownIn(Append(s, f), asked))
      BY <1>4, ShownAppend
    <3> QED BY <2>1, <3>2, <3>3, <3>4
  <2>6. Len(got'[r]) <= Cardinality(Shown(r)')
    BY <1>1, <2>4, <2>5 DEF Delivered
  <2>7. ASSUME NEW i \in Shown(r)', Place(r, i)' <= Len(got'[r])
        PROVE  got'[r][Place(r, i)'] = h'[r].seen[i]
    <3>1. CASE i \in Shown(r)
      <4>1. Place(r, i)' = Place(r, i)
        BY <1>4, <2>1, <3>1, ShownAppend
      <4>2. h'[r].seen[i] = s[i]
        BY <2>2, <3>1 DEF Shown
      <4>3. Place(r, i) <= Len(got[r])
        BY <2>4, <2>7, <4>1
      <4>4. got[r][Place(r, i)] = s[i]
        BY <1>1, <3>1, <4>3 DEF Delivered
      <4> QED BY <1>3, <4>1, <4>2, <4>4
    <3>2. CASE i \notin Shown(r)
      <4>1. i = Len(s) + 1
        BY <2>2, <2>3, <2>7, <3>2
      <4>2. f # "usage" \/ asked
        BY <1>4, <2>1, <2>7, <3>2, ShownAppend
      <4>3. Place(r, i)' = Cardinality(Shown(r)) + 1
        BY <1>4, <2>1, <4>1, <4>2, ShownAppend
      <4> QED BY <1>1, <2>4, <2>5, <2>7, <4>3 DEF Delivered
    <3> QED BY <3>1, <3>2
  <2>8. ~sw'[r].err => Len(got'[r]) = Cardinality(Shown(r)' \ {Len(h'[r].seen)})
    BY <1>1, <1>3, <2>3 DEF Delivered
  <2>9. h'[r].pc = "write"
    BY <1>3
  <2> QED BY <2>6, <2>7, <2>8, <2>9 DEF Delivered
<1>13. InHand(r)'
  <2>1. Len(h'[r].seen) = Len(h[r].seen) + 1 /\ Len(h[r].seen) \in Nat
    BY <1>3, <1>4
  <2> QED BY <1>1, <1>3, <2>1, ProxyAssumption DEF InHand
<1> QED BY <1>3, <1>8, <1>9, <1>10, <1>11, <1>12, <1>13 DEF Good

LEMMA ReadEndKeeps ==
    ASSUME IInv, NEW r \in Requests, ReadEnd(r)
    PROVE  Steps(r) /\ Good(r)'
<1>1. /\ Typing /\ Holds(r) /\ Records(r) /\ Blamed(r)
      /\ Charged(r) /\ Delivered(r) /\ InHand(r)
  BY DEF IInv, Good
<1>3. /\ Steps(r)
      /\ h[r].pc = "read"
      /\ h'[r].pc = "log" /\ h'[r].head = h[r].head /\ h'[r].frame = h[r].frame
      /\ h'[r].seen = h[r].seen /\ h'[r].cause = "eof" /\ h'[r].status = h[r].status
      /\ client'[r] = client[r] /\ expired'[r] = expired[r] /\ upstream'[r] = upstream[r] /\ sw'[r] = sw[r]
      /\ ka'[r] = ka[r] /\ got'[r] = got[r] /\ log'[r] = log[r]
      /\ (r \in leased' <=> r \in leased)
  BY <1>1, ReadEndEffect
<1>4. /\ h[r].seen \in Seq(Frames) /\ got[r] \in Seq(Frames) /\ Tokens(got[r]) \in Nat
      /\ Tokens(h[r].seen) \in Nat /\ h[r].pc \in Stages /\ h[r].head.asked \in BOOLEAN
  BY <1>1, Types, TokensNat
<1>8. Holds(r)'
  BY <1>1, <1>3, <1>4 DEF Holds, Stages
<1>9. Records(r)'
  BY <1>1, <1>3, <1>4 DEF Records, Stages
<1>10. Blamed(r)'
  <2>1. log[r] = <<>>
    BY <1>1, <1>3 DEF Records
  <2>2. DOMAIN log'[r] = {}
    BY <1>3, <2>1, NoRecord
  <2> QED BY <1>1, <1>3, <2>2 DEF Blamed, Fits, Stages
<1>11. Charged(r)'
  BY <1>1, <1>3, <1>4, ChargedStays
<1>12. Delivered(r)'
  BY <1>1, <1>3, <1>4, DeliveredStays
<1>13. InHand(r)'
  BY <1>1, <1>3, <1>4 DEF InHand, Stages
<1> QED BY <1>3, <1>8, <1>9, <1>10, <1>11, <1>12, <1>13 DEF Good

LEMMA ReadFailsKeeps ==
    ASSUME IInv, NEW r \in Requests, NEW cause \in AllCauses, ReadFails(r, cause)
    PROVE  Steps(r) /\ Good(r)'
<1>1. /\ Typing /\ Holds(r) /\ Records(r) /\ Blamed(r)
      /\ Charged(r) /\ Delivered(r) /\ InHand(r)
  BY DEF IInv, Good
<1>3. /\ Steps(r)
      /\ h[r].pc = "read"
      /\ cause \in {"upstream", "hangup", "timeout"} /\ (cause = "hangup" => client[r] = "noticed")
      /\ h'[r].pc = "broken" /\ h'[r].head = h[r].head /\ h'[r].frame = h[r].frame
      /\ h'[r].seen = h[r].seen /\ h'[r].cause = cause /\ h'[r].status = h[r].status
      /\ client'[r] = client[r] /\ expired'[r] = expired[r] /\ upstream'[r] = upstream[r] /\ sw'[r] = sw[r]
      /\ ka'[r] = ka[r] /\ got'[r] = got[r] /\ log'[r] = log[r]
      /\ (r \in leased' <=> r \in leased)
  BY <1>1, ReadFailsEffect
<1>4. /\ h[r].seen \in Seq(Frames) /\ got[r] \in Seq(Frames) /\ Tokens(got[r]) \in Nat
      /\ Tokens(h[r].seen) \in Nat /\ h[r].pc \in Stages /\ h[r].head.asked \in BOOLEAN
  BY <1>1, Types, TokensNat
<1>8. Holds(r)'
  BY <1>1, <1>3, <1>4 DEF Holds, Stages
<1>9. Records(r)'
  BY <1>1, <1>3, <1>4 DEF Records, Stages
<1>10. Blamed(r)'
  <2>1. log[r] = <<>>
    BY <1>1, <1>3 DEF Records
  <2>2. DOMAIN log'[r] = {}
    BY <1>3, <2>1, NoRecord
  <2> QED BY <1>1, <1>3, <2>2 DEF Blamed, Fits, Stages
<1>11. Charged(r)'
  BY <1>1, <1>3, <1>4, ChargedStays
<1>12. Delivered(r)'
  BY <1>1, <1>3, <1>4, DeliveredStays
<1>13. InHand(r)'
  BY <1>1, <1>3, <1>4 DEF InHand, Stages
<1> QED BY <1>3, <1>8, <1>9, <1>10, <1>11, <1>12, <1>13 DEF Good

LEMMA BrokenKeeps ==
    ASSUME IInv, NEW r \in Requests, Broken(r)
    PROVE  Steps(r) /\ Good(r)'
<1>1. /\ Typing /\ Holds(r) /\ Records(r) /\ Blamed(r)
      /\ Charged(r) /\ Delivered(r) /\ InHand(r)
  BY DEF IInv, Good
<1>3. /\ Steps(r)
      /\ h[r].pc = "broken"
      /\ h'[r].pc = "log" /\ h'[r].head = h[r].head /\ h'[r].frame = h[r].frame
      /\ h'[r].seen = h[r].seen /\ h'[r].cause = h[r].cause /\ h'[r].status = (IF client[r] = "noticed" THEN 499 ELSE 500)
      /\ client'[r] = client[r] /\ expired'[r] = expired[r] /\ upstream'[r] = upstream[r] /\ sw'[r] = sw[r]
      /\ ka'[r] = ka[r] /\ got'[r] = got[r] /\ log'[r] = log[r]
      /\ (r \in leased' <=> r \in leased)
  BY <1>1, BrokenEffect
<1>4. /\ h[r].seen \in Seq(Frames) /\ got[r] \in Seq(Frames) /\ Tokens(got[r]) \in Nat
      /\ Tokens(h[r].seen) \in Nat /\ h[r].pc \in Stages /\ h[r].head.asked \in BOOLEAN
  BY <1>1, Types, TokensNat
<1>8. Holds(r)'
  BY <1>1, <1>3, <1>4 DEF Holds, Stages
<1>9. Records(r)'
  BY <1>1, <1>3, <1>4 DEF Records, Stages
<1>10. Blamed(r)'
  <2>1. log[r] = <<>>
    BY <1>1, <1>3 DEF Records
  <2>2. DOMAIN log'[r] = {}
    BY <1>3, <2>1, NoRecord
  <2> QED BY <1>1, <1>3, <2>2 DEF Blamed, Fits, Stages
<1>11. Charged(r)'
  BY <1>1, <1>3, <1>4, ChargedStays
<1>12. Delivered(r)'
  BY <1>1, <1>3, <1>4, DeliveredStays
<1>13. InHand(r)'
  BY <1>1, <1>3, <1>4 DEF InHand, Stages
<1> QED BY <1>3, <1>8, <1>9, <1>10, <1>11, <1>12, <1>13 DEF Good

LEMMA WithholdKeeps ==
    ASSUME IInv, NEW r \in Requests, Withhold(r)
    PROVE  Steps(r) /\ Good(r)'
<1>1. /\ Typing /\ Holds(r) /\ Records(r) /\ Blamed(r)
      /\ Charged(r) /\ Delivered(r) /\ InHand(r)
  BY DEF IInv, Good
<1>3. /\ Steps(r)
      /\ h[r].pc = "write"
      /\ h[r].frame = "usage" /\ h[r].head.stream /\ ~h[r].head.asked
      /\ h'[r].pc = "read" /\ h'[r].head = h[r].head /\ h'[r].frame = "none"
      /\ h'[r].seen = h[r].seen /\ h'[r].cause = h[r].cause /\ h'[r].status = h[r].status
      /\ client'[r] = client[r] /\ expired'[r] = expired[r] /\ upstream'[r] = upstream[r] /\ sw'[r] = sw[r]
      /\ ka'[r] = ka[r] /\ got'[r] = got[r] /\ log'[r] = log[r]
      /\ (r \in leased' <=> r \in leased)
  BY <1>1, WithholdEffect
<1>4. /\ h[r].seen \in Seq(Frames) /\ got[r] \in Seq(Frames) /\ Tokens(got[r]) \in Nat
      /\ Tokens(h[r].seen) \in Nat /\ h[r].pc \in Stages /\ h[r].head.asked \in BOOLEAN
  BY <1>1, Types, TokensNat
<1>8. Holds(r)'
  BY <1>1, <1>3, <1>4 DEF Holds, Stages
<1>9. Records(r)'
  BY <1>1, <1>3, <1>4 DEF Records, Stages
<1>10. Blamed(r)'
  BY <1>1, <1>3, <1>4 DEF Blamed, Fits, Stages
<1>11. Charged(r)'
  BY <1>1, <1>3, <1>4 DEF Charged
<1>12. Delivered(r)'
  <2>1. Shown(r)' = Shown(r) /\ \A i : Place(r, i)' = Place(r, i)
    BY <1>3, ShownIs, ShownIsNext
  <2>2. Len(h[r].seen) \notin Shown(r)
    BY <1>1, <1>3 DEF Shown, Charged
  <2>3. Shown(r) \ {Len(h[r].seen)} = Shown(r)
    BY <2>2
  <2>4. \A i : (got[r][Place(r, i)])' = got[r][Place(r, i)]
    BY <1>3, <2>1
  <2> QED BY <1>1, <1>3, <2>1, <2>3, <2>4 DEF Delivered
<1>13. InHand(r)'
  BY <1>1, <1>3, <1>4 DEF InHand, Stages
<1> QED BY <1>3, <1>8, <1>9, <1>10, <1>11, <1>12, <1>13 DEF Good

LEMMA ForwardKeeps ==
    ASSUME IInv, NEW r \in Requests, Forward(r)
    PROVE  Steps(r) /\ Good(r)'
<1>1. /\ Typing /\ Holds(r) /\ Records(r) /\ Blamed(r)
      /\ Charged(r) /\ Delivered(r) /\ InHand(r)
  BY DEF IInv, Good
<1>2. h[r].frame \in Frames
  BY <1>1 DEF InHand, Forward
<1>3. /\ Steps(r) /\ h[r].pc = "write"
      /\ h[r].frame # "usage" \/ ~h[r].head.stream \/ h[r].head.asked
      /\ h'[r].head = h[r].head /\ h'[r].frame = "none" /\ h'[r].seen = h[r].seen
      /\ h'[r].cause = h[r].cause
      /\ \/ /\ ~sw[r].err /\ ~sw'[r].err
            /\ h'[r].pc = "read" /\ h'[r].status = h[r].status
            /\ got'[r] = Append(got[r], h[r].frame)
         \/ /\ sw[r].err \/ client[r] # "here"
            /\ sw'[r].err
            /\ got'[r] = got[r]
            /\ \/ /\ h[r].frame \in {"usage", "done"}
                  /\ h'[r].pc = "read" /\ h'[r].status = h[r].status
               \/ /\ h[r].frame \notin {"usage", "done"}
                  /\ h'[r].pc = "log" /\ h'[r].status = 499
      /\ client'[r] = client[r] /\ expired'[r] = expired[r] /\ upstream'[r] = upstream[r]
      /\ ka'[r] = ka[r] /\ log'[r] = log[r] /\ (r \in leased' <=> r \in leased)
  BY <1>1, <1>2, ForwardEffect
<1>4. /\ h[r].seen \in Seq(Frames) /\ got[r] \in Seq(Frames) /\ Tokens(got[r]) \in Nat
      /\ Tokens(h[r].seen) \in Nat /\ h[r].pc \in Stages /\ h[r].head.asked \in BOOLEAN
  BY <1>1, Types, TokensNat
<1>8. Holds(r)'
  BY <1>1, <1>3, <1>4 DEF Holds, Stages
<1>9. Records(r)'
  BY <1>1, <1>3, <1>4 DEF Records, Stages
<1>10. Blamed(r)'
  BY <1>1, <1>3, <1>4 DEF Blamed, Fits, Stages
<1>11. Charged(r)'
  <2>1. CASE got'[r] = Append(got[r], h[r].frame) /\ h'[r].pc = "read"
    <3>1. Tokens(got'[r]) = Tokens(got[r]) + IF h[r].frame = "token" THEN 1 ELSE 0
      BY <1>2, <1>4, <2>1, TokensAppend
    <3>2. log'[r] = <<>>
      BY <1>1, <1>3 DEF Records
    <3> QED BY <1>1, <1>3, <1>4, <2>1, <3>1, <3>2 DEF Charged
  <2>2. CASE got'[r] = got[r]
    BY <1>1, <1>3, <1>4, <2>2 DEF Charged
  <2> QED BY <1>3, <2>1, <2>2
<1>12. Delivered(r)'
  <2>1. Shown(r)' = Shown(r) /\ \A i : Place(r, i)' = Place(r, i)
    BY <1>3, ShownIs, ShownIsNext
  <2>2. CASE got'[r] = got[r] /\ sw'[r].err
    <3>1. \A i : (got[r][Place(r, i)])' = got[r][Place(r, i)]
      BY <2>1, <2>2
    <3> QED BY <1>1, <2>1, <2>2, <3>1, <1>3 DEF Delivered
  <2>3. CASE ~sw[r].err /\ got'[r] = Append(got[r], h[r].frame) /\ h'[r].pc = "read"
    <3> DEFINE n == Len(h[r].seen)
    <3>1. n \in Shown(r) /\ h[r].seen[n] = h[r].frame /\ n \in Nat
      <4>1. h[r].seen # <<>> /\ h[r].seen[n] = h[r].frame /\ h[r].head.stream
        BY <1>1, <1>3 DEF Charged, Blamed
      <4>2. n \in DOMAIN h[r].seen /\ n \in Nat
        BY <1>4, <4>1
      <4> QED BY <1>3, <4>1, <4>2 DEF Shown
    <3>2. IsFiniteSet(Shown(r)) /\ Cardinality(Shown(r)) \in Nat
      BY <1>4, ShownIs, ShownFinite
    <3>3. Cardinality(Shown(r) \ {n}) = Cardinality(Shown(r)) - 1
      BY <3>1, <3>2, FS_RemoveElement
    <3>4. Len(got[r]) = Cardinality(Shown(r)) - 1
      BY <1>1, <1>3, <2>3, <3>3 DEF Delivered
    <3>5. Len(got'[r]) = Cardinality(Shown(r)) /\ got'[r][Cardinality(Shown(r))] = h[r].frame
      BY <1>2, <1>4, <2>3, <3>2, <3>4
    <3>6. Place(r, n) = Cardinality(Shown(r))
      <4>1. \A k \in Shown(r) : k <= n
        BY <1>4 DEF Shown
      <4>2. {k \in Shown(r) : k <= n} = Shown(r)
        BY <4>1
      <4> QED BY <4>2 DEF Place
    <3>7. ASSUME NEW i \in Shown(r)
          PROVE  got'[r][Place(r, i)] = h[r].seen[i]
      <4>1. CASE i = n
        BY <3>1, <3>5, <3>6, <4>1
      <4>2. CASE i # n
        <5>1. Place(r, i) \in 1..Cardinality(Shown(r))
          BY <1>4, ShownIs, PlaceBound
        <5>2. Place(r, i) < Cardinality(Shown(r))
          <6>1. {k \in Shown(r) : k <= i} \subseteq Shown(r) \ {n}
            BY <1>4, <3>1, <4>2 DEF Shown
          <6>2. IsFiniteSet(Shown(r) \ {n})
            BY <3>2, FS_RemoveElement
          <6>3. Cardinality({k \in Shown(r) : k <= i}) <= Cardinality(Shown(r) \ {n})
            BY <6>1, <6>2, FS_Subset
          <6>4. Place(r, i) <= Cardinality(Shown(r)) - 1
            BY <3>3, <6>3 DEF Place
          <6> QED BY <3>2, <5>1, <6>4
        <5>3. Place(r, i) \in 1..Len(got[r])
          BY <3>2, <3>4, <5>1, <5>2
        <5>4. got[r][Place(r, i)] = h[r].seen[i]
          BY <1>1, <5>3 DEF Delivered
        <5> QED BY <1>2, <1>4, <2>3, <5>3, <5>4
      <4> QED BY <4>1, <4>2
    <3>8. \A i : (got[r][Place(r, i)])' = got'[r][Place(r, i)]
      BY <2>1
    <3>9. h'[r].seen = h[r].seen /\ h'[r].pc # "write"
      BY <1>3, <2>3
    <3>10. Len(got[r])' = Cardinality(Shown(r)')
      BY <2>1, <3>5
    <3>11. Len(got[r])' <= Cardinality(Shown(r)')
      BY <2>1, <3>2, <3>10
    <3> QED BY <2>1, <3>7, <3>8, <3>9, <3>10, <3>11 DEF Delivered
  <2> QED BY <1>3, <2>2, <2>3
<1>13. InHand(r)'
  BY <1>1, <1>3, <1>4 DEF InHand, Stages
<1> QED BY <1>3, <1>8, <1>9, <1>10, <1>11, <1>12, <1>13 DEF Good

LEMMA KeepAliveTickKeeps ==
    ASSUME IInv, NEW r \in Requests, KeepAliveTick(r)
    PROVE  Steps(r) /\ Good(r)'
<1>1. /\ Typing /\ Holds(r) /\ Records(r) /\ Blamed(r)
      /\ Charged(r) /\ Delivered(r) /\ InHand(r)
  BY DEF IInv, Good
<1>3. /\ Steps(r)
      /\ h'[r] = h[r]
      /\ client'[r] = client[r] /\ expired'[r] = expired[r] /\ upstream'[r] = upstream[r] /\ sw'[r] = sw[r]
      /\ ka'[r] = "due" /\ got'[r] = got[r] /\ log'[r] = log[r]
      /\ (r \in leased' <=> r \in leased)
  BY <1>1, KeepAliveTickEffect
<1>4. /\ h[r].seen \in Seq(Frames) /\ got[r] \in Seq(Frames) /\ Tokens(got[r]) \in Nat
      /\ Tokens(h[r].seen) \in Nat /\ h[r].pc \in Stages /\ h[r].head.asked \in BOOLEAN
  BY <1>1, Types, TokensNat
<1>8. Holds(r)'
  BY <1>1, <1>3, <1>4 DEF Holds, Stages
<1>9. Records(r)'
  BY <1>1, <1>3, <1>4 DEF Records, Stages
<1>10. Blamed(r)'
  BY <1>1, <1>3, <1>4 DEF Blamed, Fits, Stages
<1>11. Charged(r)'
  BY <1>1, <1>3, <1>4, ChargedStays
<1>12. Delivered(r)'
  BY <1>1, <1>3, <1>4, DeliveredStays
<1>13. InHand(r)'
  BY <1>1, <1>3, <1>4 DEF InHand, Stages
<1> QED BY <1>3, <1>8, <1>9, <1>10, <1>11, <1>12, <1>13 DEF Good

LEMMA KeepAliveWriteKeeps ==
    ASSUME IInv, NEW r \in Requests, KeepAliveWrite(r)
    PROVE  Steps(r) /\ Good(r)'
<1>1. /\ Typing /\ Holds(r) /\ Records(r) /\ Blamed(r)
      /\ Charged(r) /\ Delivered(r) /\ InHand(r)
  BY DEF IInv, Good
<1>3. /\ Steps(r) /\ h'[r] = h[r]
      /\ \/ sw'[r].err = sw[r].err
         \/ (sw[r].err \/ client[r] # "here") /\ sw'[r].err
      /\ client'[r] = client[r] /\ expired'[r] = expired[r] /\ upstream'[r] = upstream[r]
      /\ got'[r] = got[r] /\ log'[r] = log[r] /\ (r \in leased' <=> r \in leased)
  BY <1>1, KeepAliveWriteEffect
<1>4. /\ h[r].seen \in Seq(Frames) /\ got[r] \in Seq(Frames) /\ Tokens(got[r]) \in Nat
      /\ Tokens(h[r].seen) \in Nat /\ h[r].pc \in Stages /\ h[r].head.asked \in BOOLEAN
  BY <1>1, Types, TokensNat
<1>8. Holds(r)'
  BY <1>1, <1>3, <1>4 DEF Holds, Stages
<1>9. Records(r)'
  BY <1>1, <1>3, <1>4 DEF Records, Stages
<1>10. Blamed(r)'
  BY <1>1, <1>3, <1>4 DEF Blamed, Fits, Stages
<1>11. Charged(r)'
  BY <1>1, <1>3, <1>4, ChargedStays
<1>12. Delivered(r)'
  BY <1>1, <1>3, <1>4, DeliveredStays
<1>13. InHand(r)'
  BY <1>1, <1>3, <1>4 DEF InHand, Stages
<1> QED BY <1>3, <1>8, <1>9, <1>10, <1>11, <1>12, <1>13 DEF Good

LEMMA KeepAliveStopKeeps ==
    ASSUME IInv, NEW r \in Requests, KeepAliveStop(r)
    PROVE  Steps(r) /\ Good(r)'
<1>1. /\ Typing /\ Holds(r) /\ Records(r) /\ Blamed(r)
      /\ Charged(r) /\ Delivered(r) /\ InHand(r)
  BY DEF IInv, Good
<1>3. /\ Steps(r)
      /\ h'[r] = h[r]
      /\ client'[r] = client[r] /\ expired'[r] = expired[r] /\ upstream'[r] = upstream[r] /\ sw'[r] = sw[r]
      /\ ka'[r] = "gone" /\ got'[r] = got[r] /\ log'[r] = log[r]
      /\ (r \in leased' <=> r \in leased)
  BY <1>1, KeepAliveStopEffect
<1>4. /\ h[r].seen \in Seq(Frames) /\ got[r] \in Seq(Frames) /\ Tokens(got[r]) \in Nat
      /\ Tokens(h[r].seen) \in Nat /\ h[r].pc \in Stages /\ h[r].head.asked \in BOOLEAN
  BY <1>1, Types, TokensNat
<1>8. Holds(r)'
  BY <1>1, <1>3, <1>4 DEF Holds, Stages
<1>9. Records(r)'
  BY <1>1, <1>3, <1>4 DEF Records, Stages
<1>10. Blamed(r)'
  BY <1>1, <1>3, <1>4 DEF Blamed, Fits, Stages
<1>11. Charged(r)'
  BY <1>1, <1>3, <1>4, ChargedStays
<1>12. Delivered(r)'
  BY <1>1, <1>3, <1>4, DeliveredStays
<1>13. InHand(r)'
  BY <1>1, <1>3, <1>4 DEF InHand, Stages
<1> QED BY <1>3, <1>8, <1>9, <1>10, <1>11, <1>12, <1>13 DEF Good

LEMMA LogRecordKeeps ==
    ASSUME IInv, NEW r \in Requests, LogRecord(r)
    PROVE  Steps(r) /\ Good(r)'
<1>1. /\ Typing /\ Holds(r) /\ Records(r) /\ Blamed(r)
      /\ Charged(r) /\ Delivered(r) /\ InHand(r)
  BY DEF IInv, Good
<1>3. /\ Steps(r)
      /\ h[r].pc = "log"
      /\ h'[r].pc = "close" /\ h'[r].head = h[r].head /\ h'[r].frame = h[r].frame
      /\ h'[r].seen = h[r].seen /\ h'[r].cause = h[r].cause /\ h'[r].status = h[r].status
      /\ client'[r] = client[r] /\ expired'[r] = expired[r] /\ upstream'[r] = upstream[r] /\ sw'[r] = sw[r]
      /\ ka'[r] = ka[r] /\ got'[r] = got[r] /\ log'[r] = Append(log[r], Account(r))
      /\ (r \in leased' <=> r \in leased)
  BY <1>1, LogRecordEffect
<1>4. /\ h[r].seen \in Seq(Frames) /\ got[r] \in Seq(Frames) /\ Tokens(got[r]) \in Nat
      /\ Tokens(h[r].seen) \in Nat /\ h[r].pc \in Stages /\ h[r].head.asked \in BOOLEAN
  BY <1>1, Types, TokensNat
<1>5. log[r] = <<>>
  BY <1>1, <1>3 DEF Records
<1>6. Len(log'[r]) = 1 /\ \A i \in DOMAIN log'[r] : log'[r][i] = Account(r)
  BY <1>3, <1>5, FirstRecord
<1>7. /\ Account(r).status = h[r].status
      /\ Account(r).by = "chunks" => Account(r).tokens = Tokens(h[r].seen)
  BY RecordFields DEF Account
<1>8. Holds(r)'
  BY <1>1, <1>3, <1>4, <1>7, <1>5, <1>6 DEF Holds, Stages
<1>9. Records(r)'
  BY <1>1, <1>3, <1>4, <1>7, <1>5, <1>6 DEF Records, Stages
<1>10. Blamed(r)'
  BY <1>1, <1>3, <1>4, <1>7, <1>5, <1>6 DEF Blamed, Fits, Stages
<1>11. Charged(r)'
  BY <1>1, <1>3, <1>4, <1>7, <1>5, <1>6 DEF Charged
<1>12. Delivered(r)'
  BY <1>1, <1>3, <1>4, <1>7, <1>5, <1>6, DeliveredStays
<1>13. InHand(r)'
  BY <1>1, <1>3, <1>4, <1>7, <1>5, <1>6 DEF InHand, Stages
<1> QED BY <1>3, <1>8, <1>9, <1>10, <1>11, <1>12, <1>13 DEF Good

LEMMA CloseKeeps ==
    ASSUME IInv, NEW r \in Requests, Close(r)
    PROVE  Steps(r) /\ Good(r)'
<1>1. /\ Typing /\ Holds(r) /\ Records(r) /\ Blamed(r)
      /\ Charged(r) /\ Delivered(r) /\ InHand(r)
  BY DEF IInv, Good
<1>3. /\ Steps(r)
      /\ h[r].pc = "close"
      /\ h'[r].pc = "release" /\ h'[r].head = h[r].head /\ h'[r].frame = h[r].frame
      /\ h'[r].seen = h[r].seen /\ h'[r].cause = h[r].cause /\ h'[r].status = h[r].status
      /\ client'[r] = client[r] /\ expired'[r] = expired[r] /\ upstream'[r] = "closed" /\ sw'[r] = sw[r]
      /\ ka'[r] = ka[r] /\ got'[r] = got[r] /\ log'[r] = log[r]
      /\ (r \in leased' <=> r \in leased)
  BY <1>1, CloseEffect
<1>4. /\ h[r].seen \in Seq(Frames) /\ got[r] \in Seq(Frames) /\ Tokens(got[r]) \in Nat
      /\ Tokens(h[r].seen) \in Nat /\ h[r].pc \in Stages /\ h[r].head.asked \in BOOLEAN
  BY <1>1, Types, TokensNat
<1>8. Holds(r)'
  BY <1>1, <1>3, <1>4 DEF Holds, Stages
<1>9. Records(r)'
  BY <1>1, <1>3, <1>4 DEF Records, Stages
<1>10. Blamed(r)'
  BY <1>1, <1>3, <1>4 DEF Blamed, Fits, Stages
<1>11. Charged(r)'
  BY <1>1, <1>3, <1>4, ChargedStays
<1>12. Delivered(r)'
  BY <1>1, <1>3, <1>4, DeliveredStays
<1>13. InHand(r)'
  BY <1>1, <1>3, <1>4 DEF InHand, Stages
<1> QED BY <1>3, <1>8, <1>9, <1>10, <1>11, <1>12, <1>13 DEF Good

LEMMA ReleaseKeeps ==
    ASSUME IInv, NEW r \in Requests, Release(r)
    PROVE  Steps(r) /\ Good(r)'
<1>1. /\ Typing /\ Holds(r) /\ Records(r) /\ Blamed(r)
      /\ Charged(r) /\ Delivered(r) /\ InHand(r)
  BY DEF IInv, Good
<1>3. /\ Steps(r)
      /\ h[r].pc = "release"
      /\ h'[r].pc = "done" /\ h'[r].head = h[r].head /\ h'[r].frame = h[r].frame
      /\ h'[r].seen = h[r].seen /\ h'[r].cause = h[r].cause /\ h'[r].status = h[r].status
      /\ client'[r] = client[r] /\ expired'[r] = expired[r] /\ upstream'[r] = upstream[r] /\ sw'[r] = sw[r]
      /\ ka'[r] = ka[r] /\ got'[r] = got[r] /\ log'[r] = log[r]
      /\ r \notin leased'
  BY <1>1, ReleaseEffect
<1>4. /\ h[r].seen \in Seq(Frames) /\ got[r] \in Seq(Frames) /\ Tokens(got[r]) \in Nat
      /\ Tokens(h[r].seen) \in Nat /\ h[r].pc \in Stages /\ h[r].head.asked \in BOOLEAN
  BY <1>1, Types, TokensNat
<1>8. Holds(r)'
  BY <1>1, <1>3, <1>4 DEF Holds, Stages
<1>9. Records(r)'
  BY <1>1, <1>3, <1>4 DEF Records, Stages
<1>10. Blamed(r)'
  BY <1>1, <1>3, <1>4 DEF Blamed, Fits, Stages
<1>11. Charged(r)'
  BY <1>1, <1>3, <1>4, ChargedStays
<1>12. Delivered(r)'
  BY <1>1, <1>3, <1>4, DeliveredStays
<1>13. InHand(r)'
  BY <1>1, <1>3, <1>4 DEF InHand, Stages
<1> QED BY <1>3, <1>8, <1>9, <1>10, <1>11, <1>12, <1>13 DEF Good

-----------------------------------------------------------------------------
(* The invariant *)

(* A request nothing happens to. *)
LEMMA SameGood ==
    ASSUME NEW q \in Requests, Same(q), Good(q)
    PROVE  Good(q)'
<1>1. /\ h'[q] = h[q] /\ client'[q] = client[q] /\ upstream'[q] = upstream[q]
      /\ sw'[q] = sw[q] /\ got'[q] = got[q] /\ log'[q] = log[q]
      /\ (q \in leased' <=> q \in leased)
  BY DEF Same
<1>2. /\ Holds(q) /\ Records(q) /\ Blamed(q) /\ Charged(q) /\ Delivered(q) /\ InHand(q)
  BY DEF Good
<1>3. Holds(q)'
  BY <1>1, <1>2 DEF Holds
<1>4. Records(q)'
  BY <1>1, <1>2 DEF Records
<1>5. Blamed(q)'
  BY <1>1, <1>2 DEF Blamed, Fits
<1>6. Charged(q)'
  BY <1>1, <1>2 DEF Charged
<1>7. Delivered(q)'
  BY <1>1, <1>2, DeliveredStays
<1>8. InHand(q)'
  BY <1>1, <1>2 DEF InHand
<1> QED BY <1>3, <1>4, <1>5, <1>6, <1>7, <1>8 DEF Good

LEMMA StepsGood ==
    ASSUME IInv, NEW r \in Requests, Steps(r), Good(r)'
    PROVE  IInv'
<1>1. Typing' /\ \A q \in Requests \ {r} : Same(q)
  BY DEF Steps
<1>2. \A q \in Requests : Good(q)
  BY DEF IInv
<1>3. ASSUME NEW q \in Requests PROVE Good(q)'
  BY <1>1, <1>2, SameGood
<1> QED BY <1>1, <1>3 DEF IInv

(* The failures a handler can meet are among the causes. *)
LEMMA CausesKnown ==
    ASSUME NEW r
    PROVE  Causes(r) \subseteq AllCauses /\ "upstream" \in AllCauses
BY DEF Causes, AllCauses

LEMMA InitInv == Init => IInv
<1> SUFFICES ASSUME Init PROVE IInv
  OBVIOUS
<1>1. Fresh \in Locals
  BY DEF Fresh, Locals, Stages, AllCauses, Heads, Frames
<1>2. Typing
  BY <1>1 DEF Init, Typing
<1>3. ASSUME NEW r \in Requests PROVE Good(r)
  <2>1. /\ h[r].pc = "new" /\ h[r].seen = <<>> /\ h[r].cause = "none" /\ h[r].frame = "none"
        /\ got[r] = <<>> /\ log[r] = <<>> /\ upstream[r] = "none" /\ r \notin leased
        /\ ~sw[r].err
    BY DEF Init, Fresh
  <2>2. DOMAIN log[r] = {}
    BY <2>1, NoRecord
  <2>3. Len(got[r]) = 0 /\ Len(h[r].seen) = 0
    BY <2>1, NoRecord
  <2>4. Shown(r) = {} /\ Cardinality(Shown(r)) = 0
    <3>1. DOMAIN h[r].seen = {}
      BY <2>1, NoRecord
    <3> QED BY <3>1, FS_EmptySet DEF Shown
  <2>5. Holds(r) /\ Records(r)
    BY <2>1 DEF Holds, Records
  <2>6. Blamed(r)
    BY <2>1, <2>2 DEF Blamed
  <2>7. Charged(r)
    BY <2>1, <2>2 DEF Charged
  <2>8. Delivered(r)
    BY <2>1, <2>3, <2>4 DEF Delivered
  <2>9. InHand(r)
    BY <2>1, <2>3, ProxyAssumption DEF InHand
  <2> QED BY <2>5, <2>6, <2>7, <2>8, <2>9 DEF Good
<1> QED BY <1>2, <1>3 DEF IInv

LEMMA NextInv == IInv /\ [Next]_vars => IInv'
<1> SUFFICES ASSUME IInv, [Next]_vars PROVE IInv'
  OBVIOUS
<1>1. CASE UNCHANGED vars
  <2>1. UNCHANGED <<h, client, expired, upstream, sw, ka, leased, got, log>>
    BY <1>1 DEF vars
  <2>2. Typing'
    BY <2>1 DEF IInv, Typing
  <2>3. ASSUME NEW q \in Requests PROVE Good(q)'
    <3>1. Same(q)
      BY <2>1 DEF Same
    <3> QED BY <3>1, SameGood DEF IInv
  <2> QED BY <2>2, <2>3 DEF IInv
<1>2. ASSUME NEW r \in Requests, Arrive(r) PROVE IInv'
  <2>1. ASSUME NEW s \in Refusals, Refuse(r, s) PROVE IInv'
    BY <2>1, RefuseKeeps, StepsGood
  <2>2. ASSUME NEW head \in Heads, Acquire(r, head) PROVE IInv'
    BY <2>2, AcquireKeeps, StepsGood
  <2>3. CASE AcquireFails(r)
    BY <2>3, AcquireFailsKeeps, StepsGood
  <2> QED BY <1>2, <2>1, <2>2, <2>3 DEF Arrive
<1>3. ASSUME NEW r \in Requests, Handler(r) PROVE IInv'
  <2>1. CASE BuildFails(r)
    BY <2>1, BuildFailsKeeps, StepsGood
  <2>2. CASE Send(r)
    BY <2>2, SendKeeps, StepsGood
  <2>3. CASE Blame(r)
    BY <2>3, BlameKeeps, StepsGood
  <2>4. CASE Broken(r)
    BY <2>4, BrokenKeeps, StepsGood
  <2>5. CASE Withhold(r)
    BY <2>5, WithholdKeeps, StepsGood
  <2>6. CASE LogRecord(r)
    BY <2>6, LogRecordKeeps, StepsGood
  <2>7. CASE Close(r)
    BY <2>7, CloseKeeps, StepsGood
  <2>8. CASE Release(r)
    BY <2>8, ReleaseKeeps, StepsGood
  <2> QED BY <1>3, <2>1, <2>2, <2>3, <2>4, <2>5, <2>6, <2>7, <2>8 DEF Handler
<1>4. ASSUME NEW r \in Requests, NEW cause \in AllCauses,
             DoFails(r, cause) \/ BodyFails(r, cause) \/ ReadFails(r, cause)
      PROVE  IInv'
  <2>1. CASE DoFails(r, cause)
    BY <2>1, DoFailsKeeps, StepsGood
  <2>2. CASE BodyFails(r, cause)
    BY <2>2, BodyFailsKeeps, StepsGood
  <2>3. CASE ReadFails(r, cause)
    BY <2>3, ReadFailsKeeps, StepsGood
  <2> QED BY <1>4, <2>1, <2>2, <2>3
<1>5. ASSUME NEW r \in Requests, Cancelled(r) PROVE IInv'
  <2>1. PICK cause \in Causes(r) \ {"upstream"} :
          DoFails(r, cause) \/ BodyFails(r, cause) \/ ReadFails(r, cause)
    BY <1>5 DEF Cancelled
  <2> QED BY <1>4, <2>1, CausesKnown
<1>6. ASSUME NEW r \in Requests, Failure(r) PROVE IInv'
  BY <1>4, <1>6, CausesKnown DEF Failure
<1>7. ASSUME NEW r \in Requests, Upstream(r) PROVE IInv'
  <2>1. ASSUME NEW s \in {400, 500}, RelayError(r, s) PROVE IInv'
    BY <2>1, RelayErrorKeeps, StepsGood
  <2>2. ASSUME NEW f \in Frames, ReadFrame(r, f) PROVE IInv'
    BY <2>2, ReadFrameKeeps, StepsGood
  <2>3. CASE BodyBegin(r)
    BY <2>3, BodyBeginKeeps, StepsGood
  <2>4. CASE BodyRead(r)
    BY <2>4, BodyReadKeeps, StepsGood
  <2>5. CASE StreamBegin(r)
    BY <2>5, StreamBeginKeeps, StepsGood
  <2>6. CASE ReadEnd(r)
    BY <2>6, ReadEndKeeps, StepsGood
  <2> QED BY <1>7, <2>1, <2>2, <2>3, <2>4, <2>5, <2>6 DEF Upstream
<1>8. ASSUME NEW r \in Requests, KeepAlive(r) PROVE IInv'
  <2>1. CASE KeepAliveTick(r)
    BY <2>1, KeepAliveTickKeeps, StepsGood
  <2>2. CASE KeepAliveWrite(r)
    BY <2>2, KeepAliveWriteKeeps, StepsGood
  <2>3. CASE KeepAliveStop(r)
    BY <2>3, KeepAliveStopKeeps, StepsGood
  <2> QED BY <1>8, <2>1, <2>2, <2>3 DEF KeepAlive
<1>9. ASSUME NEW r \in Requests, HangUp(r) \/ Notice(r) \/ Timeout(r) \/ Silence(r)
      PROVE  IInv'
  <2>1. CASE HangUp(r)
    BY <2>1, HangUpKeeps, StepsGood
  <2>2. CASE Notice(r)
    BY <2>2, NoticeKeeps, StepsGood
  <2>3. CASE Timeout(r)
    BY <2>3, TimeoutKeeps, StepsGood
  <2>4. CASE Silence(r)
    BY <2>4, SilenceKeeps, StepsGood
  <2> QED BY <1>9, <2>1, <2>2, <2>3, <2>4
<1>10. ASSUME NEW r \in Requests, Deliver(r) PROVE IInv'
  <2>1. CASE Forward(r)
    BY <2>1, ForwardKeeps, StepsGood
  <2>2. CASE Reply(r)
    BY <2>2, ReplyKeeps, StepsGood
  <2> QED BY <1>10, <2>1, <2>2 DEF Deliver
<1> QED BY <1>1, <1>2, <1>3, <1>5, <1>6, <1>7, <1>8, <1>9, <1>10 DEF Next

(* Every request is, at every stage of serveInference and its relays, in a
   state its stage accounts for: what it holds, what it has logged, whom it will
   blame, and what it has read and handed on. *)
THEOREM Invariant == Spec => []IInv
<1>1. Init => IInv
  BY InitInv
<1>2. IInv /\ [Next]_vars => IInv'
  BY NextInv
<1> QED BY <1>1, <1>2, PTL DEF Spec

(* What the client got is no more than what was read. *)
LEMMA GotBounded ==
    ASSUME Typing, NEW r \in Requests, Delivered(r), InHand(r)
    PROVE  /\ Len(got[r]) \in Nat /\ Len(got[r]) <= MaxFrames
           /\ Len(h[r].seen) \in Nat /\ Len(h[r].seen) <= MaxFrames
<1>1. h[r].seen \in Seq(Frames) /\ got[r] \in Seq(Frames)
  BY Types
<1>2. Len(h[r].seen) \in Nat /\ Len(got[r]) \in Nat
  BY <1>1
<1>3. Cardinality(Shown(r)) \in Nat /\ Cardinality(Shown(r)) <= Len(h[r].seen)
  BY <1>1, ShownIs, ShownFinite
<1> QED BY <1>2, <1>3, ProxyAssumption DEF Delivered, InHand

LEMMA IsBounded ==
    ASSUME NEW s \in Seq(Frames), Len(s) \in Nat, Len(s) <= MaxFrames
    PROVE  s \in BoundedSeq(Frames, MaxFrames)
<1>1. s \in [1..Len(s) -> Frames] /\ Len(s) \in 0..MaxFrames
  BY ProxyAssumption
<1> QED BY <1>1 DEF BoundedSeq, SeqOf

(* The variables of Proxy keep their types, a line is in hand only between its
   read and its write, and neither side of a relay exceeds what the upstream
   sent. *)
THEOREM TypeCorrect == Spec => []TypeOK
<1>1. IInv => TypeOK
  <2> SUFFICES ASSUME IInv PROVE TypeOK
    OBVIOUS
  <2>1. Typing
    BY DEF IInv
  <2>2. ASSUME NEW r \in Requests
        PROVE  /\ h[r].pc \in Stages /\ h[r].cause \in AllCauses
               /\ h[r].frame \in (IF h[r].pc = "write" THEN Frames ELSE {"none"})
               /\ h[r].seen \in BoundedSeq(Frames, MaxFrames)
               /\ got[r] \in BoundedSeq(Frames, MaxFrames)
    <3>1. Delivered(r) /\ InHand(r)
      BY DEF IInv, Good
    <3>2. h[r].seen \in Seq(Frames) /\ got[r] \in Seq(Frames) /\ h[r].pc \in Stages
          /\ h[r].cause \in AllCauses
      BY <2>1, Types
    <3>3. h[r].seen \in BoundedSeq(Frames, MaxFrames)
      BY <2>1, <3>1, <3>2, GotBounded, IsBounded
    <3>4. got[r] \in BoundedSeq(Frames, MaxFrames)
      BY <2>1, <3>1, <3>2, GotBounded, IsBounded
    <3> QED BY <3>1, <3>2, <3>3, <3>4 DEF InHand
  <2>3. /\ client \in [Requests -> {"here", "left", "noticed"}]
        /\ expired \in [Requests -> BOOLEAN]
        /\ upstream \in [Requests -> {"none", "open", "closed"}]
        /\ sw \in [Requests -> [err : BOOLEAN, idle : BOOLEAN]]
        /\ ka \in [Requests -> {"none", "wait", "due", "gone"}]
        /\ leased \subseteq Requests
    BY <2>1 DEF Typing
  <2> QED BY <2>2, <2>3 DEF TypeOK, Stages, AllCauses
<1> QED BY <1>1, Invariant, PTL

(* Whichever way serveInference ends, the upstream call is closed before the
   lease goes back: an engine works for no request the pool does not count. *)
THEOREM UpstreamLeased == Spec => []UpstreamWithinLease
<1>1. IInv => UpstreamWithinLease
  <2> SUFFICES ASSUME IInv, NEW r \in Requests, upstream[r] = "open" PROVE r \in leased
    BY DEF UpstreamWithinLease
  <2>1. Holds(r)
    BY DEF IInv, Good
  <2> QED BY <2>1 DEF Holds
<1> QED BY <1>1, Invariant, PTL

(* A request that got a backend is logged exactly once by the time its lease is
   back, unless its URL could not be used; one that got none unless it was at
   fault itself. *)
THEOREM OneRecord == Spec => []LoggedOnce
<1>1. IInv => LoggedOnce
  <2> SUFFICES ASSUME IInv, NEW r \in Requests
               PROVE  /\ Len(log[r]) <= 1
                      /\ h[r].pc = "done" =>
                          (Len(log[r]) = 0 <=>
                            (h[r].cause = "build" \/ (upstream[r] = "none" /\ h[r].status \in Unlogged)))
    BY DEF LoggedOnce
  <2>1. Records(r) /\ h[r].pc \in Stages
    BY Types DEF IInv, Good
  <2>2. log[r] = <<>> => Len(log[r]) = 0
    BY NoRecord
  <2>3. Len(log[r]) <= 1
    <3>1. log[r] = <<>> \/ Len(log[r]) \in {0, 1}
      BY <2>1 DEF Records
    <3>2. Len(log[r]) \in {0, 1}
      BY <2>2, <3>1
    <3> DEFINE n == Len(log[r])
    <3> HIDE DEF n
    <3>3. n \in {0, 1} => n <= 1
      OBVIOUS
    <3> QED BY <3>2, <3>3 DEF n
  <2>4. CASE h[r].pc = "done"
    <3>1. CASE h[r].cause = "build" /\ log[r] = <<>>
      BY <2>2, <2>3, <3>1
    <3>2. CASE h[r].cause # "build" /\ upstream[r] = "closed" /\ Len(log[r]) = 1
      BY <2>3, <3>2
    <3>3. CASE /\ h[r].cause # "build" /\ upstream[r] = "none"
               /\ Len(log[r]) = IF h[r].status \in Unlogged THEN 0 ELSE 1
      BY <2>3, <3>3
    <3> QED BY <2>1, <2>4, <3>1, <3>2, <3>3 DEF Records
  <2> QED BY <2>3, <2>4
<1> QED BY <1>1, Invariant, PTL

(* The status a record carries says who ended the request, although the hang-up
   is noticed, the timeout passes and a write fails in any order. *)
THEOREM StatusFits == Spec => []StatusFitsOutcome
<1>1. IInv => StatusFitsOutcome
  <2> SUFFICES ASSUME IInv PROVE StatusFitsOutcome
    OBVIOUS
  <2>1. ASSUME NEW r \in Requests, NEW i \in DOMAIN log[r]
        PROVE  Fits(r, log[r][i].status)
    BY DEF IInv, Good, Blamed
  <2> QED BY <2>1 DEF StatusFitsOutcome, Fits
<1> QED BY <1>1, Invariant, PTL

(* What a client's connection took is a prefix of what it is to see of the
   stream: relayStream ignores two kinds of write errors, and sseWriter's sticky
   error, set by it or by the keep-alive goroutine, makes up for it. *)
THEOREM PrefixDelivered == Spec => []NoGaps
<1>1. IInv => NoGaps
  <2> SUFFICES ASSUME IInv PROVE NoGaps
    OBVIOUS
  <2>1. \A r \in Requests : Delivered(r)
    BY DEF IInv, Good
  <2> QED BY <2>1 DEF NoGaps, Delivered
<1> QED BY <1>1, Invariant, PTL

(* Without the upstream's own count finishStream charges for the tokens
   delivered and at most the one whose write failed. *)
THEOREM ChargeDelivered == Spec => []ChargedForDelivered
<1>1. IInv => ChargedForDelivered
  <2> SUFFICES ASSUME IInv PROVE ChargedForDelivered
    OBVIOUS
  <2>1. \A r \in Requests : Charged(r)
    BY DEF IInv, Good
  <2> QED BY <2>1 DEF ChargedForDelivered, Charged
<1> QED BY <1>1, Invariant, PTL

=============================================================================
