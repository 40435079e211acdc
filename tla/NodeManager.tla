------------------------------ MODULE NodeManager ------------------------------
(***************************************************************************)
(* The gateway's node manager (internal/gateway/nodes.go) over the backend *)
(* pool: it polls the agents, all at once and never twice at a time, and   *)
(* mirrors the ready engines of each into the pool.  A poll that fails     *)
(* leaves the pool alone until the node has been silent for longer than    *)
(* the grace period.                                                       *)
(*                                                                         *)
(* A poll updates the status under the manager's lock and the pool after   *)
(* it, so these are two steps.  What a node runs, and whether a call to it *)
(* succeeds, is the environment's.  Reachable and LastError are only shown *)
(* to the operator and left out.                                           *)
(***************************************************************************)
EXTENDS Pool

CONSTANTS
    Grace,     \* nodeUnreachableGrace, in units of Tick
    NodeMax,   \* the configured max_concurrency of each node, 0 if unset
    Seqs       \* values of an engine's max_num_seqs

ASSUME NodeAssumption ==
    /\ Grace \in Nat
    /\ NodeMax \in [Nodes -> Limits]
    /\ Seqs \subseteq Limits
    /\ IsFiniteSet(Nodes)

VARIABLES
    engine,  \* what each node runs
    info,    \* status.Info: what it last said it runs
    silent,  \* the time since status.LastSeen; beyond Grace it is all the same
    poll     \* the poll of each node

nodeVars == <<engine, info, silent, poll>>
nmvars == <<vars, nodeVars>>

Never == Grace + 2

(* What an agent can report: each of its engines has a port of its own. *)
Instance == [port : Ports, seqs : Seqs, ready : BOOLEAN]

Infos ==
    {i \in UNION {[M -> Instance] : M \in SUBSET Models} :
        \A m, k \in DOMAIN i : m # k => i[m].port # i[k].port}

Nothing == [m \in {} |-> None]

NMInit ==
    /\ Init
    /\ engine \in [Nodes -> Infos]
    /\ info = [n \in Nodes |-> Nothing]
    /\ silent = [n \in Nodes |-> Never]
    /\ poll = [n \in Nodes |-> "idle"]

-----------------------------------------------------------------------------
(* Environment: engines come, go, move to another port, become ready. *)
EngineChange(n) ==
    /\ \E i \in Infos : engine' = [engine EXCEPT ![n] = i]
    /\ UNCHANGED <<vars, info, silent, poll>>

Tick ==
    /\ \E n \in Nodes : silent[n] <= Grace
    /\ silent' = [n \in Nodes |-> IF silent[n] <= Grace THEN silent[n] + 1 ELSE silent[n]]
    /\ UNCHANGED <<vars, engine, info, poll>>

-----------------------------------------------------------------------------
(* The ticker: a round starts when the last one is over. *)
PollAll ==
    /\ \A n \in Nodes : poll[n] = "idle"
    /\ poll' = [n \in Nodes |-> "asked"]
    /\ UNCHANGED <<vars, engine, info, silent>>

(* A mutant: every failure drops the node. *)
PollFailsDrops(n) ==
    /\ poll[n] = "asked"
    /\ poll' = [poll EXCEPT ![n] = "drop"]
    /\ UNCHANGED <<vars, engine, info, silent>>

(* A mutant: a failed poll counts as having seen the node. *)
PollFailsSeen(n) ==
    /\ poll[n] = "asked"
    /\ silent' = [silent EXCEPT ![n] = 0]
    /\ poll' = [poll EXCEPT ![n] = "idle"]
    /\ UNCHANGED <<vars, engine, info>>

(* The call failed: the node's engines go if it was never seen, or not for
   longer than the grace period. *)
PollFails(n) ==
    /\ poll[n] = "asked"
    /\ poll' = [poll EXCEPT ![n] = IF silent[n] > Grace THEN "drop" ELSE "idle"]
    /\ UNCHANGED <<vars, engine, info, silent>>

(* A mutant: the drop path leaves without wg.Done. *)
PollDropsHangs(n) ==
    /\ poll[n] = "drop"
    /\ DropNode(n)
    /\ UNCHANGED <<poll, engine, info, silent>>

PollDrops(n) ==
    /\ poll[n] = "drop"
    /\ DropNode(n)
    /\ poll' = [poll EXCEPT ![n] = "idle"]
    /\ UNCHANGED <<engine, info, silent>>

(* The node answered, with the engines it has at that moment. *)
PollAnswers(n) ==
    /\ poll[n] = "asked"
    /\ info' = [info EXCEPT ![n] = engine[n]]
    /\ silent' = [silent EXCEPT ![n] = 0]
    /\ poll' = [poll EXCEPT ![n] = "sync"]
    /\ UNCHANGED <<vars, engine>>

(* The smaller limit, ignoring one that is not set. *)
MinPositive(a, b) == IF a = 0 \/ (b # 0 /\ b <= a) THEN b ELSE a

(* The ready engines, each with the limit that holds for it. *)
Entries(n, i) ==
    [m \in {k \in DOMAIN i : i[k].ready} |->
        [port |-> i[m].port, limit |-> MinPositive(NodeMax[n], i[m].seqs)]]

PollSyncs(n) ==
    /\ poll[n] = "sync"
    /\ SyncNode(n, Entries(n, info[n]))
    /\ poll' = [poll EXCEPT ![n] = "idle"]
    /\ UNCHANGED <<engine, info, silent>>

-----------------------------------------------------------------------------
(* Requests and health probes go on meanwhile. *)
Serve == Traffic /\ UNCHANGED nodeVars

PollStep(n) == PollFails(n) \/ PollAnswers(n) \/ PollDrops(n) \/ PollSyncs(n)

NMNext ==
    \/ PollAll \/ Tick \/ Serve
    \/ \E n \in Nodes : PollStep(n) \/ EngineChange(n)

NMSpec == NMInit /\ [][NMNext]_nmvars

(* The ticker ticks, the clock runs, and a call to a node ends: the client's
   timeout is 20 seconds.  That it ever succeeds is not assumed. *)
NMFairness ==
    /\ WF_nmvars(PollAll) /\ WF_nmvars(Tick)
    /\ \A n \in Nodes : WF_nmvars(PollStep(n))

NMFairSpec == NMSpec /\ NMFairness

-----------------------------------------------------------------------------
(* Correctness *)

NMTypeOK ==
    /\ engine \in [Nodes -> Infos]
    /\ info \in [Nodes -> Infos]
    /\ silent \in [Nodes -> 0..Never]
    /\ poll \in [Nodes -> {"idle", "asked", "drop", "sync"}]

(* The candidates for m on node n. *)
Routed(n, m) == {b \in index[m] : backend[b].url[1] = n}

(* A node that was heard of within the grace period keeps exactly the engines
   it reported ready, at the ports it reported, whatever polls of it failed
   since and whatever happened to the other nodes: a blip costs nothing, and
   nothing that has gone is kept, except between the two halves of a poll.  No
   engine gets more requests than it was started for, nor more than the operator
   allows the node, as far as these are set. *)
MirrorsReport ==
    \A n \in Nodes, m \in Models :
        silent[n] <= Grace /\ poll[n] # "sync" =>
            /\ {backend[b].url[2] : b \in Routed(n, m)} =
                  (IF m \in DOMAIN info[n] /\ info[n][m].ready THEN {info[n][m].port} ELSE {})
            /\ \A b \in Routed(n, m) : \A c \in {NodeMax[n], info[n][m].seqs} \ {0} :
                  backend[b].cap <= c

(* An engine that has gone for good, and every engine of a node that is never
   heard of again, leaves the routes: whether the node answers the polls,
   answers some of them or none. *)
LostEngineLeaves ==
    \A n \in Nodes, m \in Models :
        <>[](m \notin DOMAIN engine[n]) \/ <>[][~PollAnswers(n)]_nmvars
            => <>[](Routed(n, m) = {})

(* An engine that stays ready on a node that answers is routed to: a neighbour
   that is slow or dead does not keep the rounds from starting. *)
ReadyEngineServed ==
    \A n \in Nodes, m \in Models :
        /\ <>[](m \in DOMAIN engine[n] /\ engine[n][m].ready)
        /\ <>[][~PollFails(n)]_nmvars
        => <>[](Routed(n, m) # {})

=============================================================================
