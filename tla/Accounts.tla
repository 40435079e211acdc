------------------------------- MODULE Accounts -------------------------------
(***************************************************************************)
(* Accounts, sessions and the keys an account owns (internal/gateway/      *)
(* adminauth.go and account.go over internal/store/users.go and keys.go).  *)
(*                                                                         *)
(* Every statement is atomic, no handler is: each runs several of them     *)
(* with no transaction around, and decides by what an earlier one read.    *)
(* The first-run setup counts and then inserts, a deletion counts and then *)
(* deletes, a key quota is counted and then used, a sign-in checks the     *)
(* password and then inserts the session, a password change updates the    *)
(* row and then deletes the sessions. Any statement can fail, since its    *)
(* context ends with the request, and what went before it stays.           *)
(***************************************************************************)
EXTENDS Naturals, FiniteSets

CONSTANTS
    Ids,     \* accounts; ids are never used again
    Procs,   \* handlers in progress
    Quota,   \* keys an account may have
    Changers,\* bound: the accounts that change their password ...
    MaxPw,   \* ... and how often
    Owners,  \* bound: the accounts that ask for keys ...
    MaxKeys, \* ... how many they get ...
    MaxFails,\* ... and how many counts of them fail
    None

ASSUME AccountsAssumption ==
    /\ {Quota, MaxPw, MaxKeys, MaxFails} \subseteq Nat /\ Owners \cup Changers \subseteq Ids
    /\ IsFiniteSet(Procs) /\ Procs # {} /\ IsFiniteSet(Ids)

VARIABLES
    user,      \* the row of each account: its role, and its password's version
    session,   \* accounts with a session, and the password behind it
    keys,      \* the number of keys of each account
    op,        \* the handlers
    setups,    \* history: accounts made by the first-run setup
    unread,    \* history: counts of each account's keys that failed
    crossed,   \* history: accounts with a sign-in across a password change
    unevicted, \* history: accounts whose last eviction failed
    met        \* history: setups that met, or deletions that did

vars == <<user, session, keys, op, setups, unread, crossed, unevicted, met>>
history == <<setups, unread, crossed, unevicted, met>>

Idle == [pc |-> "idle", kind |-> None, id |-> None, role |-> None, pw |-> 0]

Fresh == [state |-> "new", role |-> None, pw |-> 0]

Live(i) == user[i].state = "live"

(* CountAdminUsers *)
Admins == {i \in Ids : Live(i) /\ user[i].role = "admin"}

Init ==
    /\ user = [i \in Ids |-> Fresh]
    /\ session = {}
    /\ keys = [i \in Ids |-> 0]
    /\ op = [p \in Procs |-> Idle]
    /\ setups = 0 /\ crossed = {} /\ unevicted = {} /\ met = FALSE
    /\ unread = [i \in Ids |-> 0]

Goto(p, pc) == op' = [op EXCEPT ![p].pc = pc]
End(p) == op' = [op EXCEPT ![p] = Idle]
Begin(p, pc, kind, i, role) ==
    /\ op[p].pc = "idle"
    /\ op' = [op EXCEPT ![p] = [Idle EXCEPT !.pc = pc, !.kind = kind, !.id = i, !.role = role]]

-----------------------------------------------------------------------------
(* adminSetup goes on only while there is no admin. *)
SetupCount(p, i) ==
    /\ Admins = {}
    /\ Begin(p, "insert", "setup", i, "admin")
    /\ UNCHANGED <<user, session, keys, history>>

(* adminCreateUser and the -add-admin flag, which end without a session and
   need no admin (a bearer token will do, or the shell), and userRegister. *)
Register(p, i) ==
    /\ \/ \E kind \in {"add", "flag"} : Begin(p, "insert", kind, i, "admin")
       \/ Begin(p, "insert", "register", i, "user")
    /\ UNCHANGED <<user, session, keys, history>>

(* createAccount: the address is unique. The flag resets the password of an
   account that exists. *)
Insert(p) ==
    /\ op[p].pc = "insert"
    /\ LET i == op[p].id IN
        IF user[i].state = "new"
          THEN /\ user' = [user EXCEPT ![i] = [state |-> "live", role |-> op[p].role, pw |-> 0]]
               /\ IF op[p].kind \in {"add", "flag"} THEN End(p) ELSE Goto(p, "session")
               /\ setups' = IF op[p].kind = "setup" THEN setups + 1 ELSE setups
               /\ met' = (met \/ (op[p].kind = "setup" /\
                     \E q \in Procs \ {p} : op[q].pc = "insert" /\ op[q].kind = "setup"))
          ELSE /\ IF op[p].kind = "flag" THEN Goto(p, "update") ELSE End(p)
               /\ UNCHANGED <<user, setups, met>>
    /\ UNCHANGED <<session, keys, unread, crossed, unevicted>>

-----------------------------------------------------------------------------
(* VerifyAdminLogin with the right password, in a sign-in ... *)
Login(p, i) ==
    /\ op[p].pc = "idle"
    /\ Live(i)
    /\ op' = [op EXCEPT ![p] = [Idle EXCEPT !.pc = "session", !.id = i, !.pw = user[i].pw]]
    /\ UNCHANGED <<user, session, keys, history>>

(* CreateSession; the foreign key refuses an account that is gone. *)
NewSession(p) ==
    /\ op[p].pc = "session"
    /\ session' = session \cup
          {s \in {[id |-> op[p].id, pw |-> op[p].pw]} : Live(op[p].id)}
    /\ End(p)
    /\ UNCHANGED <<user, keys, history>>

(* Sign-out, or the session expires. *)
Logout(s) ==
    /\ session' = session \ {s}
    /\ UNCHANGED <<user, keys, op, history>>

(* The cookie is resolved first: LookupSession finds it and its account. *)
SignedIn(i) == Live(i) /\ \E s \in session : s.id = i

(* ... and in a change of the password, by one who is signed in. *)
ChangeBegin(p, i) ==
    /\ i \in Changers /\ SignedIn(i)
    /\ Begin(p, "verify", "change", i, None)
    /\ UNCHANGED <<user, session, keys, history>>

ChangeVerify(p) ==
    /\ op[p].pc = "verify"
    /\ \E right \in BOOLEAN :
          IF right /\ Live(op[p].id) THEN Goto(p, "update") ELSE End(p)
    /\ UNCHANGED <<user, session, keys, history>>

(* SetAdminPassword changes the row ... *)
ChangeUpdate(p) ==
    /\ op[p].pc = "update"
    /\ LET i == op[p].id IN
        IF Live(i)
          THEN /\ i \in Changers /\ user[i].pw < MaxPw
               /\ user' = [user EXCEPT ![i].pw = @ + 1]
               /\ op' = [op EXCEPT ![p].pc = "evict", ![p].pw = user[i].pw + 1]
               /\ crossed' = crossed \cup {j \in {i} :
                     \E q \in Procs \ {p} :
                        op[q].id = i /\ op[q].pc \in {"session", "verify", "update", "evict"}}
          ELSE End(p) /\ UNCHANGED <<user, crossed>>
    /\ UNCHANGED <<session, keys, setups, unread, unevicted, met>>

(* A mutant: the caller's own session is dropped and no other. *)
ChangeEvictOwn(p) ==
    /\ op[p].pc = "evict"
    /\ Goto(p, "session")
    /\ \E s \in session : session' = session \ {s}
    /\ unevicted' = unevicted \ {op[p].id}
    /\ UNCHANGED <<user, keys, setups, unread, crossed, met>>

(* ... then deletes every session; a handler makes a new one. *)
ChangeEvict(p) ==
    /\ op[p].pc = "evict"
    /\ session' = {s \in session : s.id # op[p].id}
    /\ IF op[p].kind = "flag" THEN End(p) ELSE Goto(p, "session")
    /\ unevicted' = unevicted \ {op[p].id}
    /\ UNCHANGED <<user, keys, setups, unread, crossed, met>>

-----------------------------------------------------------------------------
(* A statement is refused (an address or a new password that will not do), the
   database fails, or the request's context has ended, with its client or by
   the handler's timeout: the handler answers with the error. What it has done
   stays done: after a failed eviction the password is new and the sessions
   are the old ones. *)
StatementFails(p) ==
    /\ op[p].pc \in {"insert", "session", "update", "evict", "delete", "mint"}
    /\ End(p)
    /\ unevicted' = unevicted \cup {i \in {op[p].id} : op[p].pc = "evict"}
    /\ UNCHANGED <<user, session, keys, setups, unread, crossed, met>>

-----------------------------------------------------------------------------
(* A mutant: customers count. *)
DeleteCountAll(p, i) ==
    /\ Cardinality({j \in Ids : Live(j)}) > 1
    /\ Begin(p, "delete", "delete", i, None)
    /\ UNCHANGED <<user, session, keys, history>>

(* DeleteAdminUser refuses while there is one admin, whoever is to go ... *)
DeleteCount(p, i) ==
    /\ Cardinality(Admins) > 1
    /\ Begin(p, "delete", "delete", i, None)
    /\ UNCHANGED <<user, session, keys, history>>

(* ... and deletes; the sessions go with the row, the keys stay. *)
Delete(p) ==
    /\ op[p].pc = "delete"
    /\ LET i == op[p].id IN
        IF Live(i)
          THEN /\ user' = [user EXCEPT ![i].state = "deleted"]
               /\ session' = {s \in session : s.id # i}
               /\ met' = (met \/ \E q \in Procs \ {p} : op[q].pc = "delete")
          ELSE UNCHANGED <<user, session, met>>
    /\ End(p)
    /\ UNCHANGED <<keys, setups, unread, crossed, unevicted>>

-----------------------------------------------------------------------------
(* A mutant: off by one. *)
BelowQuotaOrAt(i) == keys[i] <= Quota

BelowQuota(i) == keys[i] < Quota

(* userCreateKey: a count that cannot be read does not stop it. *)
KeyBegin(p, i) ==
    /\ i \in Owners /\ SignedIn(i)
    /\ Begin(p, "count", "key", i, None)
    /\ UNCHANGED <<user, session, keys, history>>

KeyCount(p) ==
    /\ op[p].pc = "count"
    /\ IF BelowQuota(op[p].id) THEN Goto(p, "mint") ELSE End(p)
    /\ UNCHANGED <<user, session, keys, history>>

KeyCountFails(p) ==
    /\ op[p].pc = "count"
    /\ unread[op[p].id] < MaxFails
    /\ Goto(p, "mint")
    /\ unread' = [unread EXCEPT ![op[p].id] = @ + 1]
    /\ UNCHANGED <<user, session, keys, setups, crossed, unevicted, met>>

KeyMint(p) ==
    /\ op[p].pc = "mint"
    /\ keys[op[p].id] < MaxKeys
    /\ keys' = [keys EXCEPT ![op[p].id] = @ + 1]
    /\ End(p)
    /\ UNCHANGED <<user, session, history>>

(* userDeleteKey, adminDeleteKey *)
KeyDelete(i) ==
    /\ keys[i] > 0
    /\ keys' = [keys EXCEPT ![i] = @ - 1]
    /\ UNCHANGED <<user, session, op, history>>

-----------------------------------------------------------------------------
Handler(p) ==
    \/ \E i \in Ids :
        \/ SetupCount(p, i) \/ Register(p, i) \/ Login(p, i)
        \/ ChangeBegin(p, i) \/ DeleteCount(p, i) \/ KeyBegin(p, i)
    \/ Insert(p) \/ NewSession(p)
    \/ ChangeVerify(p) \/ ChangeUpdate(p) \/ ChangeEvict(p)
    \/ Delete(p)
    \/ KeyCount(p) \/ KeyCountFails(p) \/ KeyMint(p)
    \/ StatementFails(p)

Next ==
    \/ \E p \in Procs : Handler(p)
    \/ \E s \in session : Logout(s)
    \/ \E i \in Ids : KeyDelete(i)

Spec == Init /\ [][Next]_vars

-----------------------------------------------------------------------------
(* Correctness *)

(* Setup makes one admin, and from then on there is one, whatever customers
   register and whoever is deleted, unless two setups or two deletions were
   between their count and their statement at the same time. *)
AdminsCounted ==
    met \/ (setups <= 1 /\ (setups = 1 => Admins # {}))

(* A password change whose second statement was executed leaves no session that
   an older password opened, also the ones a change before it failed to evict;
   unless a sign-in or another change of the account was under way across it. *)
PasswordChangeEvicts ==
    \A s \in session :
        \/ s.pw = user[s.id].pw
        \/ s.id \in crossed
        \/ s.id \in unevicted
        \/ \E p \in Procs : op[p].pc = "evict" /\ op[p].id = s.id

(* The quota is exceeded by no more keys than there are requests at a time that
   counted before the others inserted, and those whose count failed. *)
QuotaNearlyKept ==
    \A i \in Ids : keys[i] <= Quota + (Cardinality(Procs) - 1) + unread[i]

-----------------------------------------------------------------------------
(* "DeleteAdminUser refuses to remove the last account" (users.go, line 255).
   Violated: two deletions count two admins and remove one each. *)
LastAdminStays == setups >= 1 => Admins # {}

(* "SetAdminPassword changes a password and invalidates every existing session
   for that account, so a password change actually evicts whoever else was
   signed in" (users.go, lines 175 to 177).
   Violated: the request ends, or times out, between the two statements. The
   password is changed, and whoever was signed in stays so. *)
ChangeAlwaysEvicts ==
    \A s \in session :
        \/ s.pw = user[s.id].pw
        \/ s.id \in crossed
        \/ \E p \in Procs : op[p].pc = "evict" /\ op[p].id = s.id

=============================================================================
