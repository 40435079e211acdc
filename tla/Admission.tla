------------------------------- MODULE Admission -------------------------------
(***************************************************************************)
(* What the backend pool promises about a backend: it is a counting        *)
(* semaphore that never queues.  A request is quoted the limit of one      *)
(* backend, and is granted a slot only while fewer requests hold one than  *)
(* it was quoted; a request is granted at most one slot in its life, and a *)
(* slot is given back by the request that holds it.  The limit may change  *)
(* under the holders, which keep their slots.                              *)
(***************************************************************************)
EXTENDS Naturals, FiniteSets

CONSTANTS Backends, Requests, None

VARIABLES
    holders,  \* the requests that hold a slot of each backend
    limit,    \* the limit in force
    quote,    \* the backend a request is about to enter, and its limit
    served    \* requests that have been granted a slot

vars == <<holders, limit, quote, served>>

NoQuote == <<None, 0>>

Init ==
    /\ holders = [b \in Backends |-> {}]
    /\ limit \in [Backends -> Nat]
    /\ quote = [r \in Requests |-> NoQuote]
    /\ served = {}

Quote(r, b) ==
    /\ r \notin served
    /\ quote' = [quote EXCEPT ![r] = <<b, limit[b]>>]
    /\ UNCHANGED <<holders, limit, served>>

Withdraw(r) ==
    /\ quote' = [quote EXCEPT ![r] = NoQuote]
    /\ UNCHANGED <<holders, limit, served>>

Grant(r, b) ==
    /\ r \notin served
    /\ quote[r][1] = b /\ Cardinality(holders[b]) < quote[r][2]
    /\ holders' = [holders EXCEPT ![b] = @ \cup {r}]
    /\ quote' = [quote EXCEPT ![r] = NoQuote]
    /\ served' = served \cup {r}
    /\ UNCHANGED limit

GiveBack(r, b) ==
    /\ r \in holders[b]
    /\ holders' = [holders EXCEPT ![b] = @ \ {r}]
    /\ UNCHANGED <<limit, quote, served>>

SetLimits ==
    /\ limit' \in [Backends -> Nat]
    /\ UNCHANGED <<holders, quote, served>>

Next ==
    \/ \E r \in Requests :
        \/ Withdraw(r)
        \/ \E b \in Backends : Quote(r, b) \/ Grant(r, b) \/ GiveBack(r, b)
    \/ SetLimits

Spec == Init /\ [][Next]_vars

=============================================================================
