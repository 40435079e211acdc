--------------------------------- MODULE Proxy ---------------------------------
(***************************************************************************)
(* The inference path of the gateway (internal/gateway/proxy.go, sse.go):  *)
(* a request is checked, gets a lease on a backend, is sent upstream and   *)
(* its answer is relayed, as a stream of SSE frames or as one JSON body;   *)
(* one record of it is logged, and the deferred calls close the upstream   *)
(* and give the lease back.                                                *)
(*                                                                         *)
(* Four parties act on a request: the handler, the client (who may hang up *)
(* at any moment), the upstream engine (which may answer, fail or say      *)
(* nothing), and, during a stream, the keep-alive goroutine, which writes  *)
(* to the same response.  Requests share the key cache, the limiters, the  *)
(* pool and the log, which are modules of their own; what those answer is  *)
(* a choice here.                                                          *)
(***************************************************************************)
EXTENDS Naturals, Sequences, FiniteSets, SequencesExt

CONSTANTS
    Requests,   \* client requests
    MaxFrames   \* bound: frames of one stream

ASSUME ProxyAssumption == MaxFrames \in Nat

VARIABLES
    h,         \* the handler of each request: its local variables
    client,    \* here, left, or noticed (r.Context() is cancelled)
    expired,   \* the backend's timeout has passed
    upstream,  \* the request to the engine: none, open, closed
    sw,        \* sseWriter: sticky error, silent for a keep-alive interval
    ka,        \* the keep-alive goroutine: none, wait, due, gone
    leased,    \* requests that hold a lease
    got,       \* frames the client's connection took
    log        \* records handed to the store

vars == <<h, client, expired, upstream, sw, ka, leased, got, log>>

(* Frames by what relayStream tells apart: a delta with output, any other line
   (role, comment, blank), the usage frame, and [DONE]. *)
Frames == {"token", "other", "usage", "done"}

(* The handler's locals: the fields of the request, the line in hand and all
   lines so far, what ended the upstream's answer, and the record's status. *)
Fresh == [pc |-> "new", head |-> [stream |-> FALSE, asked |-> FALSE],
          frame |-> "none", seen |-> <<>>, cause |-> "none", status |-> 0]

Init ==
    /\ h = [r \in Requests |-> Fresh]
    /\ client = [r \in Requests |-> "here"]
    /\ expired = [r \in Requests |-> FALSE]
    /\ upstream = [r \in Requests |-> "none"]
    /\ sw = [r \in Requests |-> [err |-> FALSE, idle |-> FALSE]]
    /\ ka = [r \in Requests |-> "none"]
    /\ leased = {}
    /\ got = [r \in Requests |-> <<>>]
    /\ log = [r \in Requests |-> <<>>]

Goto(r, pc) == h' = [h EXCEPT ![r].pc = pc]

env == <<client, expired>>
relay == <<sw, ka, got>>

Record(status, by, tokens) == [status |-> status, by |-> by, tokens |-> tokens]

Log(r, rec) == log' = [log EXCEPT ![r] = Append(@, rec)]

(* logRecord of an attempt that produced nothing. *)
LogFailure(r, status) == Log(r, Record(status, "none", 0))

-----------------------------------------------------------------------------
(* The environment *)

HangUp(r) ==
    /\ client[r] = "here"
    /\ h[r].pc # "done"
    /\ client' = [client EXCEPT ![r] = "left"]
    /\ UNCHANGED <<h, expired, upstream, sw, ka, leased, got, log>>

(* net/http sees the closed connection and cancels the request's context. *)
Notice(r) ==
    /\ client[r] = "left"
    /\ client' = [client EXCEPT ![r] = "noticed"]
    /\ UNCHANGED <<h, expired, upstream, sw, ka, leased, got, log>>

Timeout(r) ==
    /\ r \in leased
    /\ ~expired[r]
    /\ expired' = [expired EXCEPT ![r] = TRUE]
    /\ UNCHANGED <<h, client, upstream, sw, ka, leased, got, log>>

(* A keep-alive interval passes with nothing written. *)
Silence(r) ==
    /\ ka[r] \in {"wait", "due"}
    /\ ~sw[r].idle
    /\ sw' = [sw EXCEPT ![r].idle = TRUE]
    /\ UNCHANGED <<h, client, expired, upstream, ka, leased, got, log>>

(* A mutant: the upstream's context is not derived from the client's. *)
CausesDetached(r) ==
    {"upstream"} \cup (IF expired[r] THEN {"timeout"} ELSE {})

(* Why a call on the upstream's context can fail: the engine or the network at
   any time, a context that is cancelled by the hang-up or the timeout. *)
Causes(r) ==
    {"upstream"} \cup (IF client[r] = "noticed" THEN {"hangup"} ELSE {})
                 \cup (IF expired[r] THEN {"timeout"} ELSE {})

-----------------------------------------------------------------------------
(* Before the lease *)

(* The answers serveInference gives without a backend: the body is too large,
   is not JSON, lacks a model or cannot be re-encoded (no record); the key, the
   model or the key's rate is refused (a record). *)
Unlogged == {400, 413}
Refusals == Unlogged \cup {401, 404, 429}

Refuse(r, status) ==
    /\ h[r].pc = "new"
    /\ h' = [h EXCEPT ![r].pc = "done", ![r].status = status]
    /\ IF status \in Unlogged THEN UNCHANGED log ELSE LogFailure(r, status)
    /\ UNCHANGED <<env, upstream, relay, leased>>

(* peekRequest: the fields of the body the proxy looks at besides the model;
   asked is include_usage. *)
Heads == [stream : BOOLEAN, asked : BOOLEAN]

(* pool.Acquire *)
Acquire(r, head) ==
    /\ h[r].pc = "new"
    /\ leased' = leased \cup {r}
    /\ h' = [h EXCEPT ![r].pc = "do", ![r].head = head]
    /\ UNCHANGED <<env, upstream, relay, log>>

(* ErrNoCapacity or ErrNoBackend. *)
AcquireFails(r) ==
    /\ h[r].pc = "new"
    /\ \E status \in {429, 503} :
        /\ h' = [h EXCEPT ![r].pc = "done", ![r].status = status]
        /\ LogFailure(r, status)
    /\ UNCHANGED <<env, upstream, relay, leased>>

(* http.NewRequestWithContext rejects the backend's URL: no record. *)
BuildFails(r) ==
    /\ h[r].pc = "do"
    /\ upstream[r] = "none"
    /\ h' = [h EXCEPT ![r].pc = "release", ![r].status = 500, ![r].cause = "build"]
    /\ UNCHANGED <<env, upstream, relay, leased, log>>

Send(r) ==
    /\ h[r].pc = "do"
    /\ upstream[r] = "none"
    /\ upstream' = [upstream EXCEPT ![r] = "open"]
    /\ UNCHANGED <<h, env, relay, leased, log>>

(* Do fails ... *)
DoFails(r, cause) ==
    /\ h[r].pc = "do"
    /\ upstream[r] = "open"
    /\ cause \in Causes(r)
    /\ upstream' = [upstream EXCEPT ![r] = "closed"]
    /\ h' = [h EXCEPT ![r].pc = "blame", ![r].cause = cause]
    /\ UNCHANGED <<env, relay, leased, log>>

(* A mutant: any cancelled context is taken for a client that left. *)
BlameAnyCancel(r) ==
    /\ h[r].pc = "blame"
    /\ LET status == IF client[r] = "noticed" \/ expired[r] THEN 499 ELSE 502 IN
        /\ h' = [h EXCEPT ![r].pc = "release", ![r].status = status]
        /\ LogFailure(r, status)
    /\ UNCHANGED <<env, upstream, relay, leased>>

(* ... and the handler asks whose fault it was. *)
Blame(r) ==
    /\ h[r].pc = "blame"
    /\ LET status == IF client[r] = "noticed" THEN 499 ELSE 502 IN
        /\ h' = [h EXCEPT ![r].pc = "release", ![r].status = status]
        /\ LogFailure(r, status)
    /\ UNCHANGED <<env, upstream, relay, leased>>

(* relayUpstreamError: the engine's own status, to be forwarded and logged. *)
RelayError(r, status) ==
    /\ h[r].pc = "do"
    /\ upstream[r] = "open"
    /\ h' = [h EXCEPT ![r].pc = "reply", ![r].status = status]
    /\ UNCHANGED <<env, upstream, relay, leased, log>>

-----------------------------------------------------------------------------
(* relayJSON *)

BodyBegin(r) ==
    /\ h[r].pc = "do"
    /\ upstream[r] = "open"
    /\ ~h[r].head.stream
    /\ Goto(r, "body")
    /\ UNCHANGED <<env, upstream, relay, leased, log>>

(* The whole body is read. *)
BodyRead(r) ==
    /\ h[r].pc = "body"
    /\ h' = [h EXCEPT ![r].pc = "reply", ![r].status = 200, ![r].cause = "eof"]
    /\ UNCHANGED <<env, upstream, relay, leased, log>>

(* A failed read is the upstream's, whoever caused it. *)
BodyFails(r, cause) ==
    /\ h[r].pc = "body"
    /\ cause \in Causes(r)
    /\ h' = [h EXCEPT ![r].pc = "log", ![r].status = 502, ![r].cause = cause]
    /\ UNCHANGED <<env, upstream, relay, leased, log>>

(* The write of a forwarded body returns; its error is not looked at.  (The
   short answers of writeError fit the server's buffer.) *)
Reply(r) ==
    /\ h[r].pc = "reply"
    /\ Goto(r, "log")
    /\ UNCHANGED <<env, upstream, relay, leased, log>>

-----------------------------------------------------------------------------
(* relayStream *)

(* ensureUsage: whatever a stream that does not ask for usage says instead is
   overwritten; rewriteBody leaves the others alone. *)
EnsureUsage(head) == ~head.asked

Injected(r) == h[r].head.stream /\ EnsureUsage(h[r].head)

StreamBegin(r) ==
    /\ h[r].pc = "do"
    /\ upstream[r] = "open"
    /\ h[r].head.stream
    /\ h' = [h EXCEPT ![r].pc = "read", ![r].status = 200]
    /\ ka' = [ka EXCEPT ![r] = "wait"]
    /\ UNCHANGED <<env, upstream, sw, got, leased, log>>

(* readSSELine.  A last line without a newline is a frame and then the end. *)
ReadFrame(r, f) ==
    /\ h[r].pc = "read"
    /\ Len(h[r].seen) < MaxFrames
    /\ h' = [h EXCEPT ![r].pc = "write", ![r].frame = f, ![r].seen = Append(@, f)]
    /\ UNCHANGED <<env, upstream, relay, leased, log>>

(* The end of the stream, which nothing but the upstream decides: [DONE] does
   not stop the loop. *)
ReadEnd(r) ==
    /\ h[r].pc = "read"
    /\ h' = [h EXCEPT ![r].pc = "log", ![r].cause = "eof"]
    /\ UNCHANGED <<env, upstream, relay, leased, log>>

ReadFails(r, cause) ==
    /\ h[r].pc = "read"
    /\ cause \in Causes(r)
    /\ h' = [h EXCEPT ![r].pc = "broken", ![r].cause = cause]
    /\ UNCHANGED <<env, upstream, relay, leased, log>>

Broken(r) ==
    /\ h[r].pc = "broken"
    /\ h' = [h EXCEPT ![r].pc = "log",
                      ![r].status = IF client[r] = "noticed" THEN 499 ELSE 500]
    /\ UNCHANGED <<env, upstream, relay, leased, log>>

(* A mutant: the error is not kept. *)
WriteForgets(r, f, ok) ==
    /\ ok \/ client[r] # "here"
    /\ IF ok
         THEN /\ sw' = [sw EXCEPT ![r].idle = FALSE]
              /\ got' = [got EXCEPT ![r] = Append(@, f)]
         ELSE UNCHANGED <<sw, got>>

(* sseWriter.WriteFlush of f, under its mutex: the first error stays, and the
   connection only fails a client that has left (not always at once). *)
WriteFlush(r, f, ok) ==
    /\ ok => ~sw[r].err
    /\ ~ok => sw[r].err \/ client[r] # "here"
    /\ IF ok
         THEN /\ sw' = [sw EXCEPT ![r].idle = FALSE]
              /\ got' = [got EXCEPT ![r] = Append(@, f)]
         ELSE /\ sw' = [sw EXCEPT ![r].err = TRUE]
              /\ UNCHANGED got

(* The usage frame is for a client that asked for it. *)
Withheld(r) == h[r].frame = "usage" /\ Injected(r)

Withhold(r) ==
    /\ h[r].pc = "write"
    /\ Withheld(r)
    /\ h' = [h EXCEPT ![r].pc = "read", ![r].frame = "none"]
    /\ UNCHANGED <<env, upstream, relay, leased, log>>

(* A failed write ends the relay, except for the usage frame and [DONE]. *)
Forward(r) ==
    /\ h[r].pc = "write" /\ ~Withheld(r)
    /\ \E ok \in BOOLEAN :
        /\ WriteFlush(r, h[r].frame, ok)
        /\ h' = [h EXCEPT ![r] =
              IF ok \/ h[r].frame \in {"usage", "done"}
                THEN [@ EXCEPT !.pc = "read", !.frame = "none"]
                ELSE [@ EXCEPT !.pc = "log", !.frame = "none", !.status = 499]]
    /\ UNCHANGED <<env, upstream, ka, leased, log>>

-----------------------------------------------------------------------------
(* The keep-alive goroutine.  close(stopKA) is relayStream's last act and does
   not wait for it; a tick may be chosen even after it. *)

Relaying(r) == h[r].pc \in {"read", "write", "broken"}

KeepAliveTick(r) ==
    /\ ka[r] = "wait"
    /\ sw[r].idle
    /\ ka' = [ka EXCEPT ![r] = "due"]
    /\ UNCHANGED <<h, env, upstream, sw, got, leased, log>>

KeepAliveWrite(r) ==
    /\ ka[r] = "due"
    /\ \E ok \in BOOLEAN :
        /\ ok => ~sw[r].err
        /\ ~ok => sw[r].err \/ client[r] # "here"
        /\ sw' = [sw EXCEPT ![r] = IF ok THEN [@ EXCEPT !.idle = FALSE]
                                         ELSE [@ EXCEPT !.err = TRUE]]
    /\ ka' = [ka EXCEPT ![r] = "wait"]
    /\ UNCHANGED <<h, env, upstream, got, leased, log>>

(* A mutant: stopKA is closed at the end of the loop instead of deferred. *)
KeepAliveStopAtEnd(r) ==
    /\ ka[r] = "wait"
    /\ ~Relaying(r)
    /\ h[r].cause # "none"
    /\ ka' = [ka EXCEPT ![r] = "gone"]
    /\ UNCHANGED <<h, env, upstream, sw, got, leased, log>>

KeepAliveStop(r) ==
    /\ ka[r] = "wait"
    /\ ~Relaying(r)
    /\ ka' = [ka EXCEPT ![r] = "gone"]
    /\ UNCHANGED <<h, env, upstream, sw, got, leased, log>>

-----------------------------------------------------------------------------
(* The end of the handler *)

(* parseUsage found the counts in a frame. *)
UsageSeen(r) == Contains(h[r].seen, "usage")

Tokens(s) == Cardinality({i \in DOMAIN s : s[i] = "token"})

(* A mutant: the frames that reached the client are forgotten in a broken
   stream. *)
AccountOnlyUsage(r) ==
    IF UsageSeen(r)
      THEN Record(h[r].status, "usage", Tokens(h[r].seen))
      ELSE Record(h[r].status, "chunks", 0)

(* finishStream: the upstream's own count when it was received, else one token
   for every delta; a forwarded error has none. *)
Account(r) ==
    IF UsageSeen(r)
      THEN Record(h[r].status, "usage", Tokens(h[r].seen))
      ELSE Record(h[r].status, "chunks", Tokens(h[r].seen))

(* A mutant: a stream the client left is not logged. *)
LogUnlessGone(r) ==
    /\ h[r].pc = "log"
    /\ IF h[r].status = 499 THEN UNCHANGED log ELSE Log(r, Account(r))
    /\ Goto(r, "close")
    /\ UNCHANGED <<env, upstream, relay, leased>>

LogRecord(r) ==
    /\ h[r].pc = "log"
    /\ Log(r, Account(r))
    /\ Goto(r, "close")
    /\ UNCHANGED <<env, upstream, relay, leased>>

(* The deferred calls, last one first: the body and the context ... *)
Close(r) ==
    /\ h[r].pc = "close"
    /\ upstream' = [upstream EXCEPT ![r] = "closed"]
    /\ Goto(r, "release")
    /\ UNCHANGED <<env, relay, leased, log>>

(* A mutant: the lease goes back before the upstream is closed. *)
ReleaseFirst(r) ==
    /\ h[r].pc \in {"close", "release"}
    /\ r \in leased
    /\ leased' = leased \ {r}
    /\ IF h[r].pc = "release" THEN Goto(r, "done") ELSE UNCHANGED h
    /\ UNCHANGED <<env, upstream, relay, log>>

(* ... then the lease. *)
Release(r) ==
    /\ h[r].pc = "release"
    /\ leased' = leased \ {r}
    /\ Goto(r, "done")
    /\ UNCHANGED <<env, upstream, relay, log>>

-----------------------------------------------------------------------------
(* What the upstream decides; a forwarded error is a 400 or a 500. *)
Upstream(r) ==
    \/ \E s \in {400, 500} : RelayError(r, s)
    \/ BodyBegin(r) \/ BodyRead(r) \/ StreamBegin(r)
    \/ \E f \in Frames : ReadFrame(r, f)
    \/ ReadEnd(r)

(* A call on a context that has ended returns. *)
Cancelled(r) ==
    \E cause \in Causes(r) \ {"upstream"} :
        DoFails(r, cause) \/ BodyFails(r, cause) \/ ReadFails(r, cause)

Failure(r) ==
    DoFails(r, "upstream") \/ BodyFails(r, "upstream") \/ ReadFails(r, "upstream")

(* The steps of the handler that wait for nobody ... *)
Handler(r) ==
    \/ BuildFails(r) \/ Send(r) \/ Blame(r) \/ Broken(r)
    \/ Withhold(r)
    \/ LogRecord(r) \/ Close(r) \/ Release(r)

(* ... and those that wait for the client to read. *)
Deliver(r) == Forward(r) \/ Reply(r)

Arrive(r) ==
    \/ \E s \in Refusals : Refuse(r, s)
    \/ \E head \in Heads : Acquire(r, head)
    \/ AcquireFails(r)

KeepAlive(r) == KeepAliveTick(r) \/ KeepAliveWrite(r) \/ KeepAliveStop(r)

Next == \E r \in Requests :
    \/ Arrive(r) \/ Handler(r) \/ Deliver(r) \/ Cancelled(r) \/ Failure(r) \/ Upstream(r)
    \/ KeepAlive(r)
    \/ HangUp(r) \/ Notice(r) \/ Timeout(r) \/ Silence(r)

(* The gateway's own steps are taken; clients and engines owe nothing.  In
   particular a connected client may stop reading: there is no WriteTimeout, so
   a write to it need not return, and only once it has left must one fail.  A
   closed stopKA is chosen sooner or later: between two ticks it is the only
   ready case. *)
Fairness == \A r \in Requests :
    /\ WF_vars(Handler(r) \/ Cancelled(r))
    /\ WF_vars(client[r] # "here" /\ Deliver(r))
    /\ WF_vars(Notice(r))
    /\ WF_vars(client[r] # "here" /\ KeepAliveWrite(r))
    /\ SF_vars(KeepAliveStop(r))

Spec == Init /\ [][Next]_vars /\ Fairness

-----------------------------------------------------------------------------
(* Correctness *)

(* A line is in hand only until the next read (the buffer is reused). *)
TypeOK ==
    /\ \A r \in Requests :
        /\ h[r].pc \in {"new", "do", "blame", "body", "read", "write", "broken",
                        "reply", "log", "close", "release", "done"}
        /\ h[r].frame \in (IF h[r].pc = "write" THEN Frames ELSE {"none"})
        /\ h[r].cause \in {"none", "build", "eof", "upstream", "hangup", "timeout"}
        /\ h[r].seen \in BoundedSeq(Frames, MaxFrames)
        /\ got[r] \in BoundedSeq(Frames, MaxFrames)
    /\ client \in [Requests -> {"here", "left", "noticed"}]
    /\ expired \in [Requests -> BOOLEAN]
    /\ upstream \in [Requests -> {"none", "open", "closed"}]
    /\ sw \in [Requests -> [err : BOOLEAN, idle : BOOLEAN]]
    /\ ka \in [Requests -> {"none", "wait", "due", "gone"}]
    /\ leased \subseteq Requests

(* An engine never works for more requests than the pool admitted: whichever
   way a handler ends, its upstream call is closed before its lease goes
   back. *)
UpstreamWithinLease ==
    \A r \in Requests : upstream[r] = "open" => r \in leased

(* The frames a client is to see, by their place among all, and the place of
   each among them. *)
Shown(r) ==
    {i \in DOMAIN h[r].seen : h[r].seen[i] # "usage" \/ h[r].head.asked}

Place(r, i) == Cardinality({k \in Shown(r) : k <= i})

(* What the client's connection took is a prefix of the upstream's frames, with
   nothing left out in the middle: once a write has failed, the relay's or the
   keep-alive's, no later frame gets through, although the errors of two kinds
   of frame are ignored.  A client that did not ask for usage gets none. *)
NoGaps ==
    \A r \in Requests :
        /\ Len(got[r]) <= Cardinality(Shown(r))
        /\ \A i \in Shown(r) :
              Place(r, i) <= Len(got[r]) => got[r][Place(r, i)] = h[r].seen[i]

(* The status in the log says who ended the request: 499 only for a client that
   left, 200 only for an answer that was complete, a 500 or 502 of a stream or
   of a failed call never for a client that hung up.  (A JSON body cut short by
   a hang-up is logged as 502.) *)
StatusFitsOutcome ==
    \A r \in Requests : \A i \in DOMAIN log[r] :
        LET status == log[r][i].status IN
        /\ status = 499 => client[r] # "here"
        /\ status = 200 => h[r].cause = "eof"
        /\ status \in {500, 502} /\ h[r].cause = "hangup" => ~h[r].head.stream
        /\ h[r].cause = "timeout" /\ client[r] = "here" => status \in {500, 502}

(* The tokens a record charges for: the upstream's own count when its usage
   frame came, else what was delivered and at most the one token whose write
   failed, for an ended, broken or abandoned stream alike. *)
ChargedForDelivered ==
    \A r \in Requests : \A i \in DOMAIN log[r] :
        log[r][i].by = "chunks" =>
            log[r][i].tokens \in Tokens(got[r])..(Tokens(got[r]) + 1)

(* A request that got a backend is logged exactly once by the time its lease is
   back, on every way out but one: the backend's URL could not be used.  One
   that got none is logged unless the request itself was at fault. *)
LoggedOnce ==
    \A r \in Requests :
        /\ Len(log[r]) <= 1
        /\ h[r].pc = "done" =>
            (Len(log[r]) = 0 <=>
                (h[r].cause = "build" \/ (upstream[r] = "none" /\ h[r].status \in Unlogged)))

(* The handler waits, for good, for a connected client that does not read. *)
Unread(r) == [](client[r] = "here" /\ h[r].pc \in {"write", "reply"})

(* A lease comes back once the client has left, even if the engine never
   answers again.  It also does once the timeout has passed, unless the client
   stays connected and never reads what the handler is writing to it. *)
CancelFreesSlot ==
    \A r \in Requests :
        /\ (r \in leased /\ client[r] # "here") ~> (r \notin leased)
        /\ (r \in leased /\ expired[r]) ~> (r \notin leased \/ Unread(r))

(* No keep-alive goroutine outlives its stream for good, unless it is writing
   to a connected client that never reads. *)
KeepAliveEnds ==
    \A r \in Requests :
        (ka[r] # "none" /\ ~Relaying(r)) ~>
            (ka[r] = "gone" \/ [](client[r] = "here" /\ ka[r] = "due"))

-----------------------------------------------------------------------------
(* "A cancelled context is the client hanging up, not our failure, so it is
   recorded with status 499" (proxy.go, line 178).  Violated: a non-streaming
   body whose read the hang-up cancels is recorded as the upstream's 502. *)
HangUpIsNotOurs ==
    \A r \in Requests : \A i \in DOMAIN log[r] :
        h[r].cause = "hangup" => log[r][i].status = 499

(* "No WriteTimeout ... per request deadlines are already applied through the
   request context" (cmd/gateway/main.go, lines 81-83).  Violated: the deadline
   ends the upstream call, not a write; a client that stays connected and stops
   reading holds its slot for as long as it likes. *)
TimeoutFreesSlot ==
    \A r \in Requests : (r \in leased /\ expired[r]) ~> (r \notin leased)

=============================================================================
