---------------------------- MODULE AccountsProofs ----------------------------
(***************************************************************************)
(* Proofs about Accounts, for any accounts, any finite number of handlers  *)
(* at a time, and any quota.                                               *)
(***************************************************************************)
EXTENDS Accounts, TLAPS, FiniteSetTheorems

Pcs == {"idle", "insert", "session", "verify", "update", "evict", "delete", "count", "mint"}
Kinds == {"setup", "add", "flag", "register", "change", "delete", "key", None}
Roles == {"admin", "user", None}
User == [state : {"new", "live", "deleted"}, role : Roles, pw : Nat]
Op == [pc : Pcs, kind : Kinds, id : Ids \cup {None}, role : Roles, pw : Nat]

TypeOK ==
    /\ user \in [Ids -> User]
    /\ session \subseteq [id : Ids, pw : Nat]
    /\ keys \in [Ids -> Nat]
    /\ op \in [Procs -> Op]
    /\ setups \in Nat
    /\ unread \in [Ids -> Nat]
    /\ crossed \cup unevicted \subseteq Ids
    /\ met \in BOOLEAN
    /\ \A p \in Procs : op[p].pc # "idle" => op[p].id \in Ids

(* A handler that is about to insert an account, or a session, holds the
   password the account has, unless a change crossed it; that of a new account
   is its first. *)
PasswordHeld ==
    /\ \A p \in Procs : op[p].pc = "insert" => op[p].pw = 0
    /\ \A p \in Procs : op[p].pc \in {"session", "evict"} =>
          op[p].pw = user[op[p].id].pw \/ op[p].id \in crossed
    /\ \A i \in Ids : user[i].state = "new" => user[i].pw = 0

(* As long as no two setups and no two deletions have met: the setup that made
   the admin was the last one pending, and a deletion that has counted two
   admins still finds two. *)
CountsHold ==
    /\ \A p \in Procs : op[p].pc = "insert" /\ op[p].kind = "setup" => op[p].role = "admin"
    /\ ~met =>
        /\ setups <= 1
        /\ setups = 1 =>
              Admins # {} /\ \A p \in Procs : ~(op[p].pc = "insert" /\ op[p].kind = "setup")
        /\ \A p \in Procs : op[p].pc = "delete" => \E a, b \in Admins : a # b

(* The handlers that are past the count of an account's keys. *)
Minting(i) == {p \in Procs : op[p].pc = "mint" /\ op[p].id = i}

(* The quota, less the key that was to be had, is exceeded by the keys there
   are and those still to come together by no more than the handlers and the
   failed counts. *)
QuotaWithPending ==
    \A i \in Ids : keys[i] + Cardinality(Minting(i)) <= Quota + Cardinality(Procs) - 1 + unread[i]

IInv ==
    /\ TypeOK
    /\ PasswordHeld
    /\ PasswordChangeEvicts
    /\ CountsHold
    /\ QuotaWithPending

-----------------------------------------------------------------------------
(* The types of single records and fields. *)
LEMMA Types == ASSUME TypeOK PROVE
    /\ \A i \in Ids : /\ user[i] \in User /\ user[i].pw \in Nat /\ user[i].role \in Roles
                      /\ user[i].state \in {"new", "live", "deleted"}
                      /\ keys[i] \in Nat /\ unread[i] \in Nat
    /\ \A p \in Procs : /\ op[p] \in Op /\ op[p].pc \in Pcs /\ op[p].kind \in Kinds
                        /\ op[p].role \in Roles /\ op[p].pw \in Nat
                        /\ op[p].id \in Ids \cup {None}
                        /\ op[p].pc # "idle" => op[p].id \in Ids
    /\ \A s \in session : s.id \in Ids /\ s.pw \in Nat /\ s = [id |-> s.id, pw |-> s.pw]
BY DEF TypeOK, User, Op

(* A step of p leaves the other handlers where they are. *)
Only(p) == op' \in [Procs -> Op] /\ \A q \in Procs \ {p} : op'[q] = op[q]

LEMMA Began ==
    ASSUME TypeOK, NEW p \in Procs, NEW pc \in Pcs, NEW kind \in Kinds, NEW i \in Ids,
           NEW role \in Roles, Begin(p, pc, kind, i, role)
    PROVE  /\ op[p].pc = "idle" /\ Only(p)
           /\ op'[p].pc = pc /\ op'[p].kind = kind /\ op'[p].id = i
           /\ op'[p].role = role /\ op'[p].pw = 0
<1> DEFINE new == [Idle EXCEPT !.pc = pc, !.kind = kind, !.id = i, !.role = role]
<1>1. new \in Op /\ new.pc = pc /\ new.kind = kind /\ new.id = i /\ new.role = role /\ new.pw = 0
  BY DEF Idle, Op
<1>2. op[p].pc = "idle" /\ op' = [op EXCEPT ![p] = new]
  BY DEF Begin
<1> HIDE DEF new
<1>3. op'[p] = new /\ Only(p)
  BY <1>1, <1>2 DEF Only, TypeOK
<1> QED BY <1>1, <1>2, <1>3

LEMMA Ended ==
    ASSUME TypeOK, NEW p \in Procs, End(p)
    PROVE  Only(p) /\ op'[p].pc = "idle"
<1>1. Idle \in Op /\ Idle.pc = "idle"
  BY DEF Idle, Op, Pcs, Kinds, Roles
<1> HIDE DEF Idle
<1> QED BY <1>1 DEF End, Only, TypeOK

LEMMA Went ==
    ASSUME TypeOK, NEW p \in Procs, NEW pc \in Pcs, Goto(p, pc)
    PROVE  /\ Only(p) /\ op'[p].pc = pc
           /\ op'[p].kind = op[p].kind /\ op'[p].id = op[p].id
           /\ op'[p].role = op[p].role /\ op'[p].pw = op[p].pw
<1> DEFINE new == [op[p] EXCEPT !.pc = pc]
<1>1. /\ new \in Op /\ new.pc = pc /\ new.kind = op[p].kind /\ new.id = op[p].id
      /\ new.role = op[p].role /\ new.pw = op[p].pw
  BY Types DEF Op
<1>2. op' = [op EXCEPT ![p] = new]
  BY DEF Goto
<1> HIDE DEF new
<1>3. op'[p] = new /\ Only(p)
  BY <1>1, <1>2 DEF Only, TypeOK
<1> QED BY <1>1, <1>3

-----------------------------------------------------------------------------
(* What each step does, field by field. *)

(* adminSetup has counted no admin. *)
LEMMA SetupCountEffect ==
    ASSUME TypeOK, NEW p \in Procs, NEW i \in Ids, SetupCount(p, i)
    PROVE  /\ op[p].pc = "idle" /\ Only(p) /\ op'[p].pc = "insert" /\ op'[p].kind = "setup"
           /\ op'[p].id = i /\ op'[p].role = "admin" /\ op'[p].pw = 0
           /\ Admins = {}
           /\ UNCHANGED <<user, session, keys, setups, unread, crossed, unevicted, met>>
<1>1. "insert" \in Pcs /\ "setup" \in Kinds /\ "admin" \in Roles
  BY DEF Pcs, Kinds, Roles
<1>2. Begin(p, "insert", "setup", i, "admin")
  BY DEF SetupCount
<1> QED BY <1>1, <1>2, Began DEF SetupCount, history

(* An admin or a customer is to be inserted. *)
LEMMA RegisterEffect ==
    ASSUME TypeOK, NEW p \in Procs, NEW i \in Ids, Register(p, i)
    PROVE  /\ op[p].pc = "idle" /\ Only(p) /\ op'[p].pc = "insert" /\ op'[p].kind \in {"add", "flag", "register"}
           /\ op'[p].id = i /\ op'[p].role \in {"admin", "user"} /\ op'[p].pw = 0
           /\ UNCHANGED <<user, session, keys, setups, unread, crossed, unevicted, met>>
<1>1. /\ {"insert"} \subseteq Pcs /\ {"add", "flag", "register"} \subseteq Kinds
      /\ {"admin", "user"} \subseteq Roles
  BY DEF Pcs, Kinds, Roles
<1>2. CASE \E kind \in {"add", "flag"} : Begin(p, "insert", kind, i, "admin")
  BY <1>1, <1>2, Began DEF Register, history
<1>3. CASE Begin(p, "insert", "register", i, "user")
  BY <1>1, <1>3, Began DEF Register, history
<1> QED BY <1>2, <1>3 DEF Register

(* A change of the password begins. *)
LEMMA ChangeBeginEffect ==
    ASSUME TypeOK, NEW p \in Procs, NEW i \in Ids, ChangeBegin(p, i)
    PROVE  /\ op[p].pc = "idle" /\ Only(p) /\ op'[p].pc = "verify" /\ op'[p].kind = "change"
           /\ op'[p].id = i /\ op'[p].role = None /\ op'[p].pw = 0
           /\ UNCHANGED <<user, session, keys, setups, unread, crossed, unevicted, met>>
<1>1. "verify" \in Pcs /\ "change" \in Kinds /\ None \in Roles
  BY DEF Pcs, Kinds, Roles
<1>2. Begin(p, "verify", "change", i, None)
  BY DEF ChangeBegin
<1> QED BY <1>1, <1>2, Began DEF ChangeBegin, history

(* DeleteAdminUser has counted two admins. *)
LEMMA DeleteCountEffect ==
    ASSUME TypeOK, NEW p \in Procs, NEW i \in Ids, DeleteCount(p, i)
    PROVE  /\ op[p].pc = "idle" /\ Only(p) /\ op'[p].pc = "delete" /\ op'[p].kind = "delete"
           /\ op'[p].id = i /\ op'[p].role = None /\ op'[p].pw = 0
           /\ Cardinality(Admins) > 1
           /\ UNCHANGED <<user, session, keys, setups, unread, crossed, unevicted, met>>
<1>1. "delete" \in Pcs /\ "delete" \in Kinds /\ None \in Roles
  BY DEF Pcs, Kinds, Roles
<1>2. Begin(p, "delete", "delete", i, None)
  BY DEF DeleteCount
<1> QED BY <1>1, <1>2, Began DEF DeleteCount, history

(* userCreateKey begins. *)
LEMMA KeyBeginEffect ==
    ASSUME TypeOK, NEW p \in Procs, NEW i \in Ids, KeyBegin(p, i)
    PROVE  /\ op[p].pc = "idle" /\ Only(p) /\ op'[p].pc = "count" /\ op'[p].kind = "key"
           /\ op'[p].id = i /\ op'[p].role = None /\ op'[p].pw = 0
           /\ UNCHANGED <<user, session, keys, setups, unread, crossed, unevicted, met>>
<1>1. "count" \in Pcs /\ "key" \in Kinds /\ None \in Roles
  BY DEF Pcs, Kinds, Roles
<1>2. Begin(p, "count", "key", i, None)
  BY DEF KeyBegin
<1> QED BY <1>1, <1>2, Began DEF KeyBegin, history

(* A sign-in has checked the password. *)
LEMMA LoginEffect ==
    ASSUME TypeOK, NEW p \in Procs, NEW i \in Ids, Login(p, i)
    PROVE  /\ op[p].pc = "idle" /\ Only(p) /\ op'[p].pc = "session"
           /\ op'[p].id = i /\ op'[p].pw = user[i].pw
           /\ UNCHANGED <<user, session, keys, setups, unread, crossed, unevicted, met>>
<1> DEFINE new == [Idle EXCEPT !.pc = "session", !.id = i, !.pw = user[i].pw]
<1>1. new \in Op /\ new.pc = "session" /\ new.id = i /\ new.pw = user[i].pw
  BY Types DEF Idle, Op, Pcs, Kinds, Roles
<1>2. op[p].pc = "idle" /\ op' = [op EXCEPT ![p] = new] /\ UNCHANGED <<user, session, keys, setups, unread, crossed, unevicted, met>>
  BY DEF Login, history
<1> HIDE DEF new
<1>3. op'[p] = new /\ Only(p)
  BY <1>1, <1>2 DEF Only, TypeOK
<1> QED BY <1>1, <1>2, <1>3

(* createAccount inserts the account, or refuses the address. *)
LEMMA InsertEffect ==
    ASSUME TypeOK, NEW p \in Procs, Insert(p)
    PROVE  /\ op[p].pc = "insert" /\ Only(p) /\ op[p].id \in Ids
           /\ \/ /\ user[op[p].id].state = "new"
                 /\ user' \in [Ids -> User] /\ \A i \in Ids \ {op[p].id} : user'[i] = user[i]
                 /\ user'[op[p].id] = [state |-> "live", role |-> op[p].role, pw |-> 0]
                 /\ \/ op'[p].pc = "idle"
                    \/ op'[p].pc = "session" /\ op'[p].id = op[p].id /\ op'[p].pw = op[p].pw
                 /\ \/ /\ op[p].kind = "setup" /\ setups' = setups + 1
                       /\ met' = (met \/ \E q \in Procs \ {p} : op[q].pc = "insert" /\ op[q].kind = "setup")
                    \/ op[p].kind # "setup" /\ setups' = setups /\ met' = met
              \/ /\ op'[p].pc = "idle" \/ (op'[p].pc = "update" /\ op'[p].id = op[p].id)
                 /\ UNCHANGED <<user, setups, met>>
           /\ UNCHANGED <<session, keys, unread, crossed, unevicted>>
<1>1. op[p].pc = "insert" /\ op[p].id \in Ids /\ UNCHANGED <<session, keys, unread, crossed, unevicted>>
  BY Types DEF Insert
<1>2. CASE user[op[p].id].state = "new"
  <2> DEFINE row == [state |-> "live", role |-> op[p].role, pw |-> 0]
  <2>1. row \in User
    BY Types DEF User
  <2>2. user' = [user EXCEPT ![op[p].id] = row]
    BY <1>2 DEF Insert
  <2>3. /\ user' \in [Ids -> User] /\ user'[op[p].id] = row
        /\ \A i \in Ids \ {op[p].id} : user'[i] = user[i]
    <3> HIDE DEF row
    <3> QED BY <1>1, <2>1, <2>2 DEF TypeOK
  <2>4. End(p) \/ Goto(p, "session")
    BY <1>2 DEF Insert
  <2>5. "session" \in Pcs
    BY DEF Pcs
  <2>6. /\ Only(p)
        /\ \/ op'[p].pc = "idle"
           \/ op'[p].pc = "session" /\ op'[p].id = op[p].id /\ op'[p].pw = op[p].pw
    BY <2>4, <2>5, Ended, Went
  <2>7. \/ /\ op[p].kind = "setup" /\ setups' = setups + 1
           /\ met' = (met \/ \E q \in Procs \ {p} : op[q].pc = "insert" /\ op[q].kind = "setup")
        \/ op[p].kind # "setup" /\ setups' = setups /\ met' = met
    <3>1. CASE op[p].kind = "setup"
      BY <1>2, <3>1, Zenon DEF Insert
    <3>2. CASE op[p].kind # "setup"
      <4>1. setups' = setups /\ met' = (met \/ FALSE)
        BY <1>2, <3>2, Zenon DEF Insert
      <4>2. met' = met
        BY <4>1, Zenon DEF TypeOK
      <4> QED BY <3>2, <4>1, <4>2
    <3> QED BY <3>1, <3>2
  <2> QED BY <1>1, <1>2, <2>3, <2>6, <2>7
<1>3. CASE user[op[p].id].state # "new"
  <2>1. (Goto(p, "update") \/ End(p)) /\ UNCHANGED <<user, setups, met>>
    BY <1>3 DEF Insert
  <2>2. "update" \in Pcs
    BY DEF Pcs
  <2> QED BY <1>1, <2>1, <2>2, Ended, Went
<1> QED BY <1>2, <1>3

(* The row alone: no password changes when it is inserted. *)
LEMMA InsertRow ==
    ASSUME TypeOK, PasswordHeld, NEW p \in Procs, Insert(p)
    PROVE  /\ \A i \in Ids : user'[i].pw = user[i].pw
           /\ setups' \in Nat
<1>1. op[p].pc = "insert" /\ op[p].id \in Ids
  BY InsertEffect, Zenon
<1>2. \/ /\ user[op[p].id].state = "new"
         /\ \A i \in Ids \ {op[p].id} : user'[i] = user[i]
         /\ user'[op[p].id] = [state |-> "live", role |-> op[p].role, pw |-> 0]
      \/ user' = user
  BY InsertEffect, Zenon
<1>3. setups' = setups + 1 \/ setups' = setups
  BY InsertEffect, Zenon
<1>4. \A i \in Ids : user'[i].pw = user[i].pw
  BY <1>1, <1>2 DEF PasswordHeld
<1>5. setups' \in Nat
  BY <1>3 DEF TypeOK
<1> QED BY <1>4, <1>5

(* CreateSession inserts the session, unless the account is gone. *)
LEMMA NewSessionEffect ==
    ASSUME TypeOK, NEW p \in Procs, NewSession(p)
    PROVE  /\ op[p].pc = "session" /\ Only(p) /\ op'[p].pc = "idle" /\ op[p].id \in Ids
           /\ session' \subseteq session \cup {[id |-> op[p].id, pw |-> op[p].pw]}
           /\ UNCHANGED <<user, keys, setups, unread, crossed, unevicted, met>>
<1>1. op[p].pc = "session" /\ op[p].id \in Ids
  BY Types DEF NewSession
<1>2. End(p) /\ UNCHANGED <<user, keys, setups, unread, crossed, unevicted, met>>
  BY DEF NewSession, history
<1>3. session' \subseteq session \cup {[id |-> op[p].id, pw |-> op[p].pw]}
  BY DEF NewSession
<1> QED BY <1>1, <1>2, <1>3, Ended

(* The old password is checked. *)
LEMMA ChangeVerifyEffect ==
    ASSUME TypeOK, NEW p \in Procs, ChangeVerify(p)
    PROVE  /\ op[p].pc = "verify" /\ Only(p) /\ op[p].id \in Ids
           /\ op'[p].pc = "idle" \/ (op'[p].pc = "update" /\ op'[p].id = op[p].id)
           /\ UNCHANGED <<user, session, keys, setups, unread, crossed, unevicted, met>>
<1>1. op[p].pc = "verify" /\ op[p].id \in Ids
  BY Types DEF ChangeVerify
<1>2. (Goto(p, "update") \/ End(p)) /\ UNCHANGED <<user, session, keys, setups, unread, crossed, unevicted, met>>
  BY DEF ChangeVerify, history
<1>3. "update" \in Pcs
  BY DEF Pcs
<1> QED BY <1>1, <1>2, <1>3, Ended, Went

(* The row is changed, and handlers with the old password are crossed. *)
LEMMA ChangeUpdateEffect ==
    ASSUME TypeOK, NEW p \in Procs, ChangeUpdate(p)
    PROVE  /\ op[p].pc = "update" /\ Only(p) /\ op[p].id \in Ids
           /\ \/ /\ user' \in [Ids -> User] /\ \A i \in Ids \ {op[p].id} : user'[i] = user[i]
                 /\ user'[op[p].id].pw = user[op[p].id].pw + 1
                 /\ user[op[p].id].state = "live" /\ user'[op[p].id].state = "live"
                 /\ user'[op[p].id].role = user[op[p].id].role
                 /\ op'[p].pc = "evict" /\ op'[p].id = op[p].id /\ op'[p].pw = user[op[p].id].pw + 1
                 /\ crossed \subseteq crossed' /\ crossed' \subseteq crossed \cup {op[p].id}
                 /\ (\E q \in Procs \ {p} : op[q].id = op[p].id /\
                        op[q].pc \in {"session", "verify", "update", "evict"}) => op[p].id \in crossed'
              \/ op'[p].pc = "idle" /\ UNCHANGED <<user, crossed>>
           /\ UNCHANGED <<session, keys, setups, unread, unevicted, met>>
<1>1. op[p].pc = "update" /\ op[p].id \in Ids /\ UNCHANGED <<session, keys, setups, unread, unevicted, met>>
  BY Types DEF ChangeUpdate
<1>2. CASE Live(op[p].id)
  <2> DEFINE row == [user[op[p].id] EXCEPT !.pw = user[op[p].id].pw + 1]
             new == [op[p] EXCEPT !.pc = "evict", !.pw = user[op[p].id].pw + 1]
  <2>1. /\ row \in User /\ row.pw = user[op[p].id].pw + 1
        /\ row.state = user[op[p].id].state /\ row.role = user[op[p].id].role
    BY <1>1, Types DEF User
  <2>2. new \in Op /\ new.pc = "evict" /\ new.id = op[p].id /\ new.pw = user[op[p].id].pw + 1
    <3>1. op[p] \in Op /\ user[op[p].id].pw + 1 \in Nat
      BY <1>1, Types
    <3> QED BY <3>1 DEF Op, Pcs
  <2>3. user' = [user EXCEPT ![op[p].id] = row]
    BY <1>1, <1>2 DEF ChangeUpdate, TypeOK
  <2>4. op' = [op EXCEPT ![p] = new]
    BY <1>2 DEF ChangeUpdate, TypeOK
  <2>5. crossed' = crossed \cup {j \in {op[p].id} :
                     \E q \in Procs \ {p} :
                        op[q].id = op[p].id /\ op[q].pc \in {"session", "verify", "update", "evict"}}
    BY <1>2, Zenon DEF ChangeUpdate
  <2>6. user[op[p].id].state = "live"
    BY <1>2 DEF Live
  <2> HIDE DEF row, new
  <2>7. /\ user' \in [Ids -> User] /\ user'[op[p].id] = row
        /\ \A i \in Ids \ {op[p].id} : user'[i] = user[i]
    BY <1>1, <2>1, <2>3 DEF TypeOK
  <2>8. Only(p) /\ op'[p] = new
    BY <2>2, <2>4 DEF Only, TypeOK
  <2> QED BY <1>1, <2>1, <2>2, <2>5, <2>6, <2>7, <2>8
<1>3. CASE ~Live(op[p].id)
  <2>1. End(p) /\ UNCHANGED <<user, crossed>>
    BY <1>3 DEF ChangeUpdate
  <2> QED BY <1>1, <2>1, Ended
<1> QED BY <1>2, <1>3

(* Every session of the account goes. *)
LEMMA ChangeEvictEffect ==
    ASSUME TypeOK, NEW p \in Procs, ChangeEvict(p)
    PROVE  /\ op[p].pc = "evict" /\ Only(p) /\ op[p].id \in Ids
           /\ \/ op'[p].pc = "idle"
              \/ op'[p].pc = "session" /\ op'[p].id = op[p].id /\ op'[p].pw = op[p].pw
           /\ session' = {s \in session : s.id # op[p].id}
           /\ unevicted' = unevicted \ {op[p].id}
           /\ UNCHANGED <<user, keys, setups, unread, crossed, met>>
<1>1. "session" \in Pcs
  BY DEF Pcs
<1>2. op[p].pc = "evict" /\ op[p].id \in Ids
  BY Types DEF ChangeEvict
<1>3. End(p) \/ Goto(p, "session")
  BY DEF ChangeEvict
<1> QED BY <1>1, <1>2, <1>3, Went, Ended DEF ChangeEvict

(* The account goes with its sessions, if it is still there. *)
LEMMA DeleteEffect ==
    ASSUME TypeOK, NEW p \in Procs, Delete(p)
    PROVE  /\ op[p].pc = "delete" /\ Only(p) /\ op'[p].pc = "idle" /\ op[p].id \in Ids
           /\ \/ /\ user' \in [Ids -> User] /\ \A i \in Ids \ {op[p].id} : user'[i] = user[i]
                 /\ user'[op[p].id].pw = user[op[p].id].pw /\ user'[op[p].id].state = "deleted"
                 /\ session' = {s \in session : s.id # op[p].id}
                 /\ met' = (met \/ \E q \in Procs \ {p} : op[q].pc = "delete")
              \/ UNCHANGED <<user, session, met>>
           /\ UNCHANGED <<keys, setups, unread, crossed, unevicted>>
<1>1. op[p].pc = "delete" /\ op[p].id \in Ids /\ UNCHANGED <<keys, setups, unread, crossed, unevicted>>
  BY Types DEF Delete
<1>2. Only(p) /\ op'[p].pc = "idle"
  BY Ended DEF Delete
<1>3. CASE Live(op[p].id)
  <2> DEFINE row == [user[op[p].id] EXCEPT !.state = "deleted"]
  <2>1. row \in User /\ row.pw = user[op[p].id].pw /\ row.state = "deleted"
    BY <1>1, Types DEF User
  <2>2. user' = [user EXCEPT ![op[p].id] = row]
    BY <1>1, <1>3 DEF Delete, TypeOK
  <2>3. /\ session' = {s \in session : s.id # op[p].id}
        /\ met' = (met \/ \E q \in Procs \ {p} : op[q].pc = "delete")
    BY <1>3, Zenon DEF Delete
  <2> HIDE DEF row
  <2>4. /\ user' \in [Ids -> User] /\ user'[op[p].id] = row
        /\ \A i \in Ids \ {op[p].id} : user'[i] = user[i]
    BY <1>1, <2>1, <2>2 DEF TypeOK
  <2> QED BY <1>1, <1>2, <2>1, <2>3, <2>4
<1>4. CASE ~Live(op[p].id)
  BY <1>1, <1>2, <1>4 DEF Delete
<1> QED BY <1>3, <1>4

(* The keys are counted. *)
LEMMA KeyCountEffect ==
    ASSUME TypeOK, NEW p \in Procs, KeyCount(p)
    PROVE  /\ op[p].pc = "count" /\ Only(p) /\ op[p].id \in Ids
           /\ \/ op'[p].pc = "idle"
              \/ op'[p].pc = "mint" /\ op'[p].id = op[p].id /\ keys[op[p].id] < Quota
           /\ UNCHANGED <<user, session, keys, setups, unread, crossed, unevicted, met>>
<1>1. op[p].pc = "count" /\ op[p].id \in Ids
  BY Types DEF KeyCount
<1>2. ((Goto(p, "mint") /\ keys[op[p].id] < Quota) \/ End(p))
      /\ UNCHANGED <<user, session, keys, setups, unread, crossed, unevicted, met>>
  BY DEF KeyCount, history, BelowQuota
<1>3. "mint" \in Pcs
  BY DEF Pcs
<1> QED BY <1>1, <1>2, <1>3, Ended, Went

(* The count cannot be read. *)
LEMMA KeyCountFailsEffect ==
    ASSUME TypeOK, NEW p \in Procs, KeyCountFails(p)
    PROVE  /\ op[p].pc = "count" /\ Only(p) /\ op[p].id \in Ids
           /\ op'[p].pc = "mint" /\ op'[p].id = op[p].id
           /\ unread' = [unread EXCEPT ![op[p].id] = @ + 1]
           /\ UNCHANGED <<user, session, keys, setups, crossed, unevicted, met>>
<1>1. op[p].pc = "count" /\ op[p].id \in Ids
  BY Types DEF KeyCountFails
<1>2. "mint" \in Pcs
  BY DEF Pcs
<1> QED BY <1>1, <1>2, Went DEF KeyCountFails

(* The key is inserted. *)
LEMMA KeyMintEffect ==
    ASSUME TypeOK, NEW p \in Procs, KeyMint(p)
    PROVE  /\ op[p].pc = "mint" /\ Only(p) /\ op[p].id \in Ids /\ op'[p].pc = "idle"
           /\ keys' = [keys EXCEPT ![op[p].id] = @ + 1]
           /\ UNCHANGED <<user, session, setups, unread, crossed, unevicted, met>>
<1>1. op[p].pc = "mint" /\ op[p].id \in Ids
  BY Types DEF KeyMint
<1> QED BY <1>1, Ended DEF KeyMint, history

(* A statement fails; after a failed eviction the sessions are the old ones. *)
LEMMA StatementFailsEffect ==
    ASSUME TypeOK, NEW p \in Procs, StatementFails(p)
    PROVE  /\ op[p].pc \notin {"idle", "count"} /\ op[p].id \in Ids
           /\ Only(p) /\ op'[p].pc = "idle"
           /\ unevicted \subseteq unevicted' /\ unevicted' \subseteq unevicted \cup {op[p].id}
           /\ op[p].pc = "evict" => op[p].id \in unevicted'
           /\ UNCHANGED <<user, session, keys, setups, unread, crossed, met>>
<1>1. op[p].pc \notin {"idle", "count"}
  BY DEF StatementFails
<1> QED BY <1>1, Types, Ended DEF StatementFails

-----------------------------------------------------------------------------
(* Each part of the invariant, step by step. *)

(* Every step keeps the types. *)
LEMMA TypeStep == IInv /\ [Next]_vars => TypeOK'
<1> SUFFICES ASSUME IInv, [Next]_vars PROVE TypeOK'
  OBVIOUS
<1> USE DEF IInv
<1>1. CASE UNCHANGED vars
  BY <1>1 DEF TypeOK, vars
<1>2. ASSUME NEW p \in Procs, NEW i \in Ids, SetupCount(p, i) PROVE TypeOK'
  BY <1>2, SetupCountEffect, Types DEF Only, TypeOK
<1>3. ASSUME NEW p \in Procs, NEW i \in Ids, Register(p, i) PROVE TypeOK'
  BY <1>3, RegisterEffect, Types DEF Only, TypeOK
<1>4. ASSUME NEW p \in Procs, NEW i \in Ids, Login(p, i) PROVE TypeOK'
  BY <1>4, LoginEffect, Types DEF Only, TypeOK
<1>5. ASSUME NEW p \in Procs, NEW i \in Ids, ChangeBegin(p, i) PROVE TypeOK'
  BY <1>5, ChangeBeginEffect, Types DEF Only, TypeOK
<1>6. ASSUME NEW p \in Procs, NEW i \in Ids, DeleteCount(p, i) PROVE TypeOK'
  BY <1>6, DeleteCountEffect, Types DEF Only, TypeOK
<1>7. ASSUME NEW p \in Procs, NEW i \in Ids, KeyBegin(p, i) PROVE TypeOK'
  BY <1>7, KeyBeginEffect, Types DEF Only, TypeOK
<1>8. ASSUME NEW p \in Procs, Insert(p) PROVE TypeOK'
  <2>1. setups' \in Nat
    BY <1>8, InsertRow
  <2>2. \/ met' = met
        \/ met' = (met \/ \E q \in Procs \ {p} : op[q].pc = "insert" /\ op[q].kind = "setup")
    BY <1>8, InsertEffect, Zenon
  <2>3. met' \in BOOLEAN
    BY <2>2, Zenon DEF TypeOK
  <2> QED BY <1>8, <2>1, <2>3, InsertEffect, Types DEF Only, TypeOK
<1>9. ASSUME NEW p \in Procs, NewSession(p) PROVE TypeOK'
  <2>1. [id |-> op[p].id, pw |-> op[p].pw] \in [id : Ids, pw : Nat]
    BY <1>9, NewSessionEffect, Types
  <2> QED BY <1>9, <2>1, NewSessionEffect, Types DEF Only, TypeOK
<1>10. ASSUME NEW p \in Procs, ChangeVerify(p) PROVE TypeOK'
  BY <1>10, ChangeVerifyEffect, Types DEF Only, TypeOK
<1>11. ASSUME NEW p \in Procs, ChangeUpdate(p) PROVE TypeOK'
  BY <1>11, ChangeUpdateEffect, Types DEF Only, TypeOK
<1>12. ASSUME NEW p \in Procs, ChangeEvict(p) PROVE TypeOK'
  BY <1>12, ChangeEvictEffect, Types DEF Only, TypeOK
<1>13. ASSUME NEW p \in Procs, Delete(p) PROVE TypeOK'
  <2>1. met' \in BOOLEAN
    BY <1>13, DeleteEffect, Types DEF TypeOK
  <2> QED BY <1>13, <2>1, DeleteEffect, Types DEF Only, TypeOK
<1>14. ASSUME NEW p \in Procs, KeyCount(p) PROVE TypeOK'
  BY <1>14, KeyCountEffect, Types DEF Only, TypeOK
<1>15. ASSUME NEW p \in Procs, KeyCountFails(p) PROVE TypeOK'
  BY <1>15, KeyCountFailsEffect, Types DEF Only, TypeOK
<1>16. ASSUME NEW p \in Procs, KeyMint(p) PROVE TypeOK'
  BY <1>16, KeyMintEffect, Types DEF Only, TypeOK
<1>17. ASSUME NEW p \in Procs, StatementFails(p) PROVE TypeOK'
  BY <1>17, StatementFailsEffect, Types DEF Only, TypeOK
<1>18. ASSUME NEW s \in session, Logout(s) PROVE TypeOK'
  BY <1>18 DEF TypeOK, Logout, history
<1>19. ASSUME NEW i \in Ids, KeyDelete(i) PROVE TypeOK'
  <2>1. keys[i] > 0 /\ keys[i] \in Nat /\ keys' = [keys EXCEPT ![i] = keys[i] - 1]
    BY <1>19, Types DEF KeyDelete
  <2>2. keys[i] - 1 \in Nat
    BY <2>1
  <2> QED BY <1>19, <2>1, <2>2 DEF TypeOK, KeyDelete, history
<1> QED
  BY <1>1, <1>2, <1>3, <1>4, <1>5, <1>6, <1>7, <1>8, <1>9, <1>10, <1>11, <1>12, <1>13, <1>14, <1>15, <1>16, <1>17, <1>18, <1>19 DEF Next, Handler

(* A change of the password crosses every other handler that holds the old one. *)
LEMMA PasswordHeldStep == IInv /\ [Next]_vars => PasswordHeld'
<1> SUFFICES ASSUME IInv, [Next]_vars PROVE PasswordHeld'
  OBVIOUS
<1> USE DEF IInv
<1>1. CASE UNCHANGED vars
  BY <1>1 DEF PasswordHeld, vars
<1>2. ASSUME NEW p \in Procs, NEW i \in Ids, SetupCount(p, i) PROVE PasswordHeld'
  BY <1>2, SetupCountEffect, Types DEF Only, PasswordHeld
<1>3. ASSUME NEW p \in Procs, NEW i \in Ids, Register(p, i) PROVE PasswordHeld'
  BY <1>3, RegisterEffect, Types DEF Only, PasswordHeld
<1>4. ASSUME NEW p \in Procs, NEW i \in Ids, Login(p, i) PROVE PasswordHeld'
  BY <1>4, LoginEffect, Types DEF Only, PasswordHeld
<1>5. ASSUME NEW p \in Procs, NEW i \in Ids, ChangeBegin(p, i) PROVE PasswordHeld'
  BY <1>5, ChangeBeginEffect, Types DEF Only, PasswordHeld
<1>6. ASSUME NEW p \in Procs, NEW i \in Ids, DeleteCount(p, i) PROVE PasswordHeld'
  BY <1>6, DeleteCountEffect, Types DEF Only, PasswordHeld
<1>7. ASSUME NEW p \in Procs, NEW i \in Ids, KeyBegin(p, i) PROVE PasswordHeld'
  BY <1>7, KeyBeginEffect, Types DEF Only, PasswordHeld
<1>8. ASSUME NEW p \in Procs, Insert(p) PROVE PasswordHeld'
  <2>1. op[p].pw = 0 /\ \A i \in Ids : user'[i].pw = user[i].pw
    BY <1>8, InsertRow DEF PasswordHeld, Insert
  <2>2. \A i \in Ids : user'[i].state = "new" => user[i].state = "new"
    BY <1>8, InsertEffect
  <2>3. op'[p].pc \in {"idle", "update", "session"} /\ (op'[p].pc = "session" => op'[p].id = op[p].id /\ op'[p].pw = 0)
    BY <1>8, <2>1, InsertEffect
  <2>4. user[op[p].id].pw = 0 \/ op'[p].pc # "session"
    BY <1>8, InsertEffect DEF PasswordHeld
  <2>5. op[p].id \in Ids /\ Only(p) /\ crossed' = crossed
    BY <1>8, InsertEffect
  <2> QED BY <2>1, <2>2, <2>3, <2>4, <2>5, Types DEF Only, PasswordHeld
<1>9. ASSUME NEW p \in Procs, NewSession(p) PROVE PasswordHeld'
  BY <1>9, NewSessionEffect, Types DEF Only, PasswordHeld
<1>10. ASSUME NEW p \in Procs, ChangeVerify(p) PROVE PasswordHeld'
  BY <1>10, ChangeVerifyEffect, Types DEF Only, PasswordHeld
<1>11. ASSUME NEW p \in Procs, ChangeUpdate(p) PROVE PasswordHeld'
  BY <1>11, ChangeUpdateEffect, Types DEF Only, PasswordHeld
<1>12. ASSUME NEW p \in Procs, ChangeEvict(p) PROVE PasswordHeld'
  BY <1>12, ChangeEvictEffect, Types DEF Only, PasswordHeld
<1>13. ASSUME NEW p \in Procs, Delete(p) PROVE PasswordHeld'
  BY <1>13, DeleteEffect, Types DEF Only, PasswordHeld
<1>14. ASSUME NEW p \in Procs, KeyCount(p) PROVE PasswordHeld'
  BY <1>14, KeyCountEffect, Types DEF Only, PasswordHeld
<1>15. ASSUME NEW p \in Procs, KeyCountFails(p) PROVE PasswordHeld'
  BY <1>15, KeyCountFailsEffect, Types DEF Only, PasswordHeld
<1>16. ASSUME NEW p \in Procs, KeyMint(p) PROVE PasswordHeld'
  BY <1>16, KeyMintEffect, Types DEF Only, PasswordHeld
<1>17. ASSUME NEW p \in Procs, StatementFails(p) PROVE PasswordHeld'
  BY <1>17, StatementFailsEffect, Types DEF Only, PasswordHeld
<1>18. ASSUME NEW s \in session, Logout(s) PROVE PasswordHeld'
  BY <1>18 DEF PasswordHeld, Logout, history
<1>19. ASSUME NEW i \in Ids, KeyDelete(i) PROVE PasswordHeld'
  BY <1>19, Types DEF PasswordHeld, KeyDelete, history
<1> QED
  BY <1>1, <1>2, <1>3, <1>4, <1>5, <1>6, <1>7, <1>8, <1>9, <1>10, <1>11, <1>12, <1>13, <1>14, <1>15, <1>16, <1>17, <1>18, <1>19 DEF Next, Handler

(* A session that loses its password has an eviction coming, or one that failed. *)
LEMMA EvictsStep == IInv /\ [Next]_vars => PasswordChangeEvicts'
<1> SUFFICES ASSUME IInv, [Next]_vars PROVE PasswordChangeEvicts'
  OBVIOUS
<1> USE DEF IInv
<1>1. CASE UNCHANGED vars
  BY <1>1 DEF PasswordChangeEvicts, vars
<1>2. ASSUME NEW p \in Procs, NEW i \in Ids, SetupCount(p, i) PROVE PasswordChangeEvicts'
  BY <1>2, SetupCountEffect, Types DEF Only, PasswordHeld, PasswordChangeEvicts
<1>3. ASSUME NEW p \in Procs, NEW i \in Ids, Register(p, i) PROVE PasswordChangeEvicts'
  BY <1>3, RegisterEffect, Types DEF Only, PasswordHeld, PasswordChangeEvicts
<1>4. ASSUME NEW p \in Procs, NEW i \in Ids, Login(p, i) PROVE PasswordChangeEvicts'
  BY <1>4, LoginEffect, Types DEF Only, PasswordHeld, PasswordChangeEvicts
<1>5. ASSUME NEW p \in Procs, NEW i \in Ids, ChangeBegin(p, i) PROVE PasswordChangeEvicts'
  BY <1>5, ChangeBeginEffect, Types DEF Only, PasswordHeld, PasswordChangeEvicts
<1>6. ASSUME NEW p \in Procs, NEW i \in Ids, DeleteCount(p, i) PROVE PasswordChangeEvicts'
  BY <1>6, DeleteCountEffect, Types DEF Only, PasswordHeld, PasswordChangeEvicts
<1>7. ASSUME NEW p \in Procs, NEW i \in Ids, KeyBegin(p, i) PROVE PasswordChangeEvicts'
  BY <1>7, KeyBeginEffect, Types DEF Only, PasswordHeld, PasswordChangeEvicts
<1>8. ASSUME NEW p \in Procs, Insert(p) PROVE PasswordChangeEvicts'
  <2>1. \A i \in Ids : user'[i].pw = user[i].pw
    BY <1>8, InsertRow
  <2>2. op[p].pc = "insert" /\ Only(p) /\ UNCHANGED <<crossed, unevicted, session>>
    BY <1>8, InsertEffect
  <2> QED BY <2>1, <2>2, Types DEF Only, PasswordChangeEvicts
<1>9. ASSUME NEW p \in Procs, NewSession(p) PROVE PasswordChangeEvicts'
  BY <1>9, NewSessionEffect, Types DEF Only, PasswordHeld, PasswordChangeEvicts
<1>10. ASSUME NEW p \in Procs, ChangeVerify(p) PROVE PasswordChangeEvicts'
  BY <1>10, ChangeVerifyEffect, Types DEF Only, PasswordHeld, PasswordChangeEvicts
<1>11. ASSUME NEW p \in Procs, ChangeUpdate(p) PROVE PasswordChangeEvicts'
  BY <1>11, ChangeUpdateEffect, Types DEF Only, PasswordHeld, PasswordChangeEvicts
<1>12. ASSUME NEW p \in Procs, ChangeEvict(p) PROVE PasswordChangeEvicts'
  BY <1>12, ChangeEvictEffect, Types DEF Only, PasswordHeld, PasswordChangeEvicts
<1>13. ASSUME NEW p \in Procs, Delete(p) PROVE PasswordChangeEvicts'
  BY <1>13, DeleteEffect, Types DEF Only, PasswordHeld, PasswordChangeEvicts
<1>14. ASSUME NEW p \in Procs, KeyCount(p) PROVE PasswordChangeEvicts'
  BY <1>14, KeyCountEffect, Types DEF Only, PasswordHeld, PasswordChangeEvicts
<1>15. ASSUME NEW p \in Procs, KeyCountFails(p) PROVE PasswordChangeEvicts'
  BY <1>15, KeyCountFailsEffect, Types DEF Only, PasswordHeld, PasswordChangeEvicts
<1>16. ASSUME NEW p \in Procs, KeyMint(p) PROVE PasswordChangeEvicts'
  BY <1>16, KeyMintEffect, Types DEF Only, PasswordHeld, PasswordChangeEvicts
<1>17. ASSUME NEW p \in Procs, StatementFails(p) PROVE PasswordChangeEvicts'
  BY <1>17, StatementFailsEffect, Types DEF Only, PasswordHeld, PasswordChangeEvicts
<1>18. ASSUME NEW s \in session, Logout(s) PROVE PasswordChangeEvicts'
  BY <1>18 DEF PasswordChangeEvicts, Logout, history
<1>19. ASSUME NEW i \in Ids, KeyDelete(i) PROVE PasswordChangeEvicts'
  BY <1>19, Types DEF PasswordChangeEvicts, KeyDelete, history
<1> QED
  BY <1>1, <1>2, <1>3, <1>4, <1>5, <1>6, <1>7, <1>8, <1>9, <1>10, <1>11, <1>12, <1>13, <1>14, <1>15, <1>16, <1>17, <1>18, <1>19 DEF Next, Handler

(* A deletion that counted two admins has two. *)
LEMMA TwoAdmins ==
    ASSUME Cardinality(Admins) > 1
    PROVE  \E a, b \in Admins : a # b
<1>1. IsFiniteSet(Admins)
  <2>1. Admins \subseteq Ids
    BY DEF Admins
  <2> QED BY <2>1, FS_Subset, AccountsAssumption
<1>2. SUFFICES ASSUME \A a, b \in Admins : a = b PROVE FALSE
  OBVIOUS
<1>3. Admins # {}
  BY FS_EmptySet
<1>4. PICK a \in Admins : TRUE
  BY <1>3
<1>5. Admins = {a}
  BY <1>2, <1>4
<1>6. Cardinality(Admins) = 1
  BY <1>5, FS_Singleton
<1> QED BY <1>6

(* Only a deletion takes an admin away, and only a setup counts as one. *)
LEMMA CountsHoldStep == IInv /\ [Next]_vars => CountsHold'
<1> SUFFICES ASSUME IInv, [Next]_vars PROVE CountsHold'
  OBVIOUS
<1> USE DEF IInv
<1>1. CASE UNCHANGED vars
  <2>1. Admins' = Admins
    BY <1>1 DEF Admins, Live, vars
  <2> QED BY <1>1, <2>1 DEF CountsHold, vars
<1>2. ASSUME NEW p \in Procs, NEW i \in Ids, SetupCount(p, i) PROVE CountsHold'
  <2>1. /\ user' = user /\ setups' = setups /\ met' = met /\ Only(p) /\ Admins = {}
        /\ op'[p].pc = "insert" /\ op'[p].role = "admin"
    BY <1>2, SetupCountEffect
  <2>2. Admins' = Admins
    BY <2>1 DEF Admins, Live
  <2> QED BY <2>1, <2>2 DEF Only, CountsHold
<1>3. ASSUME NEW p \in Procs, NEW i \in Ids, Register(p, i) PROVE CountsHold'
  <2>1. user' = user /\ setups' = setups /\ met' = met /\ Only(p)
        /\ ~(op'[p].pc = "insert" /\ op'[p].kind = "setup") /\ op'[p].pc # "delete"
    BY <1>3, RegisterEffect
  <2>2. Admins' = Admins
    BY <2>1 DEF Admins, Live
  <2> QED BY <2>1, <2>2 DEF Only, CountsHold
<1>4. ASSUME NEW p \in Procs, NEW i \in Ids, Login(p, i) PROVE CountsHold'
  <2>1. user' = user /\ setups' = setups /\ met' = met /\ Only(p)
        /\ ~(op'[p].pc = "insert" /\ op'[p].kind = "setup") /\ op'[p].pc # "delete"
    BY <1>4, LoginEffect
  <2>2. Admins' = Admins
    BY <2>1 DEF Admins, Live
  <2> QED BY <2>1, <2>2 DEF Only, CountsHold
<1>5. ASSUME NEW p \in Procs, NEW i \in Ids, ChangeBegin(p, i) PROVE CountsHold'
  <2>1. user' = user /\ setups' = setups /\ met' = met /\ Only(p)
        /\ ~(op'[p].pc = "insert" /\ op'[p].kind = "setup") /\ op'[p].pc # "delete"
    BY <1>5, ChangeBeginEffect
  <2>2. Admins' = Admins
    BY <2>1 DEF Admins, Live
  <2> QED BY <2>1, <2>2 DEF Only, CountsHold
<1>6. ASSUME NEW p \in Procs, NEW i \in Ids, DeleteCount(p, i) PROVE CountsHold'
  <2>1. /\ user' = user /\ setups' = setups /\ met' = met /\ Only(p) /\ Cardinality(Admins) > 1
        /\ op'[p].pc = "delete"
    BY <1>6, DeleteCountEffect
  <2>2. Admins' = Admins
    BY <2>1 DEF Admins, Live
  <2>3. \E a, b \in Admins : a # b
    BY <2>1, TwoAdmins
  <2> QED BY <2>1, <2>2, <2>3 DEF Only, CountsHold
<1>7. ASSUME NEW p \in Procs, NEW i \in Ids, KeyBegin(p, i) PROVE CountsHold'
  <2>1. user' = user /\ setups' = setups /\ met' = met /\ Only(p)
        /\ ~(op'[p].pc = "insert" /\ op'[p].kind = "setup") /\ op'[p].pc # "delete"
    BY <1>7, KeyBeginEffect
  <2>2. Admins' = Admins
    BY <2>1 DEF Admins, Live
  <2> QED BY <2>1, <2>2 DEF Only, CountsHold
<1>8. ASSUME NEW p \in Procs, Insert(p) PROVE CountsHold'
  <2>1. op[p].pc = "insert" /\ Only(p) /\ op[p].id \in Ids
        /\ op'[p].pc \in {"idle", "update", "session"}
    BY <1>8, InsertEffect
  <2>2. Admins \subseteq Admins'
    BY <1>8, InsertEffect DEF Admins, Live
  <2>3. /\ \A q \in Procs : op'[q].pc = "insert" => op'[q] = op[q]
        /\ \A q \in Procs : op'[q].pc = "delete" => op[q].pc = "delete"
    BY <2>1 DEF Only
  <2>4. CASE setups' = setups /\ met' = met
    BY <2>2, <2>3, <2>4 DEF CountsHold
  <2>5. CASE /\ user[op[p].id].state = "new" /\ op[p].kind = "setup" /\ setups' = setups + 1
             /\ met' = (met \/ \E q \in Procs \ {p} : op[q].pc = "insert" /\ op[q].kind = "setup")
             /\ user'[op[p].id] = [state |-> "live", role |-> op[p].role, pw |-> 0]
    <3>1. op[p].role = "admin"
      BY <2>1, <2>5 DEF CountsHold
    <3>2. op[p].id \in Admins'
      BY <2>1, <2>5, <3>1 DEF Admins, Live
    <3>3. CASE met'
      BY <2>3, <3>3 DEF CountsHold
    <3>4. CASE ~met'
      <4>1. ~met /\ \A q \in Procs \ {p} : ~(op[q].pc = "insert" /\ op[q].kind = "setup")
        BY <2>5, <3>4, Zenon
      <4>2. setups <= 1 /\ setups # 1 /\ setups \in Nat
        BY <2>1, <2>5, <4>1 DEF CountsHold, TypeOK
      <4>3. setups' = 1
        BY <2>5, <4>2
      <4>4. \A q \in Procs : ~(op'[q].pc = "insert" /\ op'[q].kind = "setup")
        BY <2>1, <4>1 DEF Only
      <4> QED BY <2>2, <2>3, <3>2, <3>4, <4>1, <4>3, <4>4 DEF CountsHold
    <3> QED BY <3>3, <3>4
  <2> QED BY <1>8, <2>4, <2>5, InsertEffect, Zenon
<1>9. ASSUME NEW p \in Procs, NewSession(p) PROVE CountsHold'
  <2>1. user' = user /\ setups' = setups /\ met' = met /\ Only(p)
        /\ ~(op'[p].pc = "insert" /\ op'[p].kind = "setup") /\ op'[p].pc # "delete"
    BY <1>9, NewSessionEffect
  <2>2. Admins' = Admins
    BY <2>1 DEF Admins, Live
  <2> QED BY <2>1, <2>2 DEF Only, CountsHold
<1>10. ASSUME NEW p \in Procs, ChangeVerify(p) PROVE CountsHold'
  <2>1. user' = user /\ setups' = setups /\ met' = met /\ Only(p)
        /\ ~(op'[p].pc = "insert" /\ op'[p].kind = "setup") /\ op'[p].pc # "delete"
    BY <1>10, ChangeVerifyEffect
  <2>2. Admins' = Admins
    BY <2>1 DEF Admins, Live
  <2> QED BY <2>1, <2>2 DEF Only, CountsHold
<1>11. ASSUME NEW p \in Procs, ChangeUpdate(p) PROVE CountsHold'
  <2>1. /\ setups' = setups /\ met' = met /\ Only(p) /\ op'[p].pc \in {"idle", "evict"}
        /\ op[p].id \in Ids
    BY <1>11, ChangeUpdateEffect
  <2>2. \A i \in Ids : user'[i].state = user[i].state /\ user'[i].role = user[i].role
    BY <1>11, ChangeUpdateEffect
  <2>3. Admins' = Admins
    BY <2>2 DEF Admins, Live
  <2> QED BY <2>1, <2>3 DEF Only, CountsHold
<1>12. ASSUME NEW p \in Procs, ChangeEvict(p) PROVE CountsHold'
  <2>1. user' = user /\ setups' = setups /\ met' = met /\ Only(p)
        /\ ~(op'[p].pc = "insert" /\ op'[p].kind = "setup") /\ op'[p].pc # "delete"
    BY <1>12, ChangeEvictEffect
  <2>2. Admins' = Admins
    BY <2>1 DEF Admins, Live
  <2> QED BY <2>1, <2>2 DEF Only, CountsHold
<1>13. ASSUME NEW p \in Procs, Delete(p) PROVE CountsHold'
  <2>1. op[p].pc = "delete" /\ Only(p) /\ op'[p].pc = "idle" /\ op[p].id \in Ids /\ setups' = setups
    BY <1>13, DeleteEffect
  <2>2. CASE UNCHANGED <<user, session, met>>
    <3>1. Admins' = Admins
      BY <2>2 DEF Admins, Live
    <3> QED BY <2>1, <2>2, <3>1 DEF Only, CountsHold
  <2>3. CASE /\ \A i \in Ids \ {op[p].id} : user'[i] = user[i]
             /\ met' = (met \/ \E q \in Procs \ {p} : op[q].pc = "delete")
    <3>1. \A a \in Admins : a # op[p].id => a \in Admins'
      BY <2>3 DEF Admins, Live
    <3>2. CASE met'
      BY <2>1, <3>2 DEF Only, CountsHold
    <3>3. CASE ~met'
      <4>1. ~met /\ \A q \in Procs \ {p} : op[q].pc # "delete"
        BY <2>3, <3>3, Zenon
      <4>2. \E a, b \in Admins : a # b
        BY <2>1, <4>1 DEF CountsHold
      <4>3. Admins' # {}
        BY <3>1, <4>2
      <4>4. \A q \in Procs : op'[q].pc # "delete"
        BY <2>1, <4>1 DEF Only
      <4> QED BY <2>1, <3>3, <4>1, <4>3, <4>4 DEF Only, CountsHold
    <3> QED BY <3>2, <3>3
  <2> QED BY <1>13, <2>2, <2>3, DeleteEffect, Zenon
<1>14. ASSUME NEW p \in Procs, KeyCount(p) PROVE CountsHold'
  <2>1. user' = user /\ setups' = setups /\ met' = met /\ Only(p)
        /\ ~(op'[p].pc = "insert" /\ op'[p].kind = "setup") /\ op'[p].pc # "delete"
    BY <1>14, KeyCountEffect
  <2>2. Admins' = Admins
    BY <2>1 DEF Admins, Live
  <2> QED BY <2>1, <2>2 DEF Only, CountsHold
<1>15. ASSUME NEW p \in Procs, KeyCountFails(p) PROVE CountsHold'
  <2>1. user' = user /\ setups' = setups /\ met' = met /\ Only(p)
        /\ ~(op'[p].pc = "insert" /\ op'[p].kind = "setup") /\ op'[p].pc # "delete"
    BY <1>15, KeyCountFailsEffect
  <2>2. Admins' = Admins
    BY <2>1 DEF Admins, Live
  <2> QED BY <2>1, <2>2 DEF Only, CountsHold
<1>16. ASSUME NEW p \in Procs, KeyMint(p) PROVE CountsHold'
  <2>1. user' = user /\ setups' = setups /\ met' = met /\ Only(p)
        /\ ~(op'[p].pc = "insert" /\ op'[p].kind = "setup") /\ op'[p].pc # "delete"
    BY <1>16, KeyMintEffect
  <2>2. Admins' = Admins
    BY <2>1 DEF Admins, Live
  <2> QED BY <2>1, <2>2 DEF Only, CountsHold
<1>17. ASSUME NEW p \in Procs, StatementFails(p) PROVE CountsHold'
  <2>1. user' = user /\ setups' = setups /\ met' = met /\ Only(p)
        /\ ~(op'[p].pc = "insert" /\ op'[p].kind = "setup") /\ op'[p].pc # "delete"
    BY <1>17, StatementFailsEffect
  <2>2. Admins' = Admins
    BY <2>1 DEF Admins, Live
  <2> QED BY <2>1, <2>2 DEF Only, CountsHold
<1>18. ASSUME NEW s \in session, Logout(s) PROVE CountsHold'
  <2>1. Admins' = Admins
    BY <1>18 DEF Admins, Live, Logout
  <2> QED BY <1>18, <2>1 DEF CountsHold, Logout, history
<1>19. ASSUME NEW i \in Ids, KeyDelete(i) PROVE CountsHold'
  <2>1. Admins' = Admins
    BY <1>19 DEF Admins, Live, KeyDelete
  <2> QED BY <1>19, <2>1 DEF CountsHold, KeyDelete, history
<1> QED
  BY <1>1, <1>2, <1>3, <1>4, <1>5, <1>6, <1>7, <1>8, <1>9, <1>10, <1>11, <1>12, <1>13, <1>14, <1>15, <1>16, <1>17, <1>18, <1>19 DEF Next, Handler

(* The handlers past the count are finitely many, and no more than there are. *)
LEMMA MintingBound ==
    ASSUME NEW i
    PROVE  /\ IsFiniteSet(Minting(i)) /\ Cardinality(Minting(i)) \in Nat
           /\ Cardinality(Procs) \in Nat /\ Cardinality(Minting(i)) <= Cardinality(Procs)
<1>1. Minting(i) \subseteq Procs
  BY DEF Minting
<1> QED BY <1>1, FS_Subset, FS_CardinalityType, AccountsAssumption

LEMMA MintingBoundNext ==
    ASSUME NEW i
    PROVE  /\ IsFiniteSet(Minting(i)') /\ Cardinality(Minting(i)') \in Nat
           /\ Cardinality(Minting(i)') <= Cardinality(Procs)
<1>1. Minting(i)' \subseteq Procs
  BY DEF Minting
<1> QED BY <1>1, FS_Subset, FS_CardinalityType, AccountsAssumption

(* A count that lets a handler pass found a key to be had; the others it competes
   with are handlers too. *)
LEMMA QuotaStep == IInv /\ [Next]_vars => QuotaWithPending'
<1> SUFFICES ASSUME IInv, [Next]_vars PROVE QuotaWithPending'
  OBVIOUS
<1> USE DEF IInv
<1>1. CASE UNCHANGED vars
  <2>1. \A x \in Ids : Minting(x)' = Minting(x)
    BY <1>1 DEF Minting, vars
  <2> QED BY <1>1, <2>1 DEF QuotaWithPending, vars
<1>2. ASSUME NEW p \in Procs, NEW i \in Ids, SetupCount(p, i) PROVE QuotaWithPending'
  <2>1. /\ keys' = keys /\ unread' = unread /\ Only(p) /\ op[p].pc # "mint" /\ op'[p].pc # "mint"
    BY <1>2, SetupCountEffect
  <2>2. \A x \in Ids : Minting(x)' = Minting(x)
    BY <2>1 DEF Only, Minting
  <2> QED BY <2>1, <2>2 DEF QuotaWithPending
<1>3. ASSUME NEW p \in Procs, NEW i \in Ids, Register(p, i) PROVE QuotaWithPending'
  <2>1. /\ keys' = keys /\ unread' = unread /\ Only(p) /\ op[p].pc # "mint" /\ op'[p].pc # "mint"
    BY <1>3, RegisterEffect
  <2>2. \A x \in Ids : Minting(x)' = Minting(x)
    BY <2>1 DEF Only, Minting
  <2> QED BY <2>1, <2>2 DEF QuotaWithPending
<1>4. ASSUME NEW p \in Procs, NEW i \in Ids, Login(p, i) PROVE QuotaWithPending'
  <2>1. /\ keys' = keys /\ unread' = unread /\ Only(p) /\ op[p].pc # "mint" /\ op'[p].pc # "mint"
    BY <1>4, LoginEffect
  <2>2. \A x \in Ids : Minting(x)' = Minting(x)
    BY <2>1 DEF Only, Minting
  <2> QED BY <2>1, <2>2 DEF QuotaWithPending
<1>5. ASSUME NEW p \in Procs, NEW i \in Ids, ChangeBegin(p, i) PROVE QuotaWithPending'
  <2>1. /\ keys' = keys /\ unread' = unread /\ Only(p) /\ op[p].pc # "mint" /\ op'[p].pc # "mint"
    BY <1>5, ChangeBeginEffect
  <2>2. \A x \in Ids : Minting(x)' = Minting(x)
    BY <2>1 DEF Only, Minting
  <2> QED BY <2>1, <2>2 DEF QuotaWithPending
<1>6. ASSUME NEW p \in Procs, NEW i \in Ids, DeleteCount(p, i) PROVE QuotaWithPending'
  <2>1. /\ keys' = keys /\ unread' = unread /\ Only(p) /\ op[p].pc # "mint" /\ op'[p].pc # "mint"
    BY <1>6, DeleteCountEffect
  <2>2. \A x \in Ids : Minting(x)' = Minting(x)
    BY <2>1 DEF Only, Minting
  <2> QED BY <2>1, <2>2 DEF QuotaWithPending
<1>7. ASSUME NEW p \in Procs, NEW i \in Ids, KeyBegin(p, i) PROVE QuotaWithPending'
  <2>1. /\ keys' = keys /\ unread' = unread /\ Only(p) /\ op[p].pc # "mint" /\ op'[p].pc # "mint"
    BY <1>7, KeyBeginEffect
  <2>2. \A x \in Ids : Minting(x)' = Minting(x)
    BY <2>1 DEF Only, Minting
  <2> QED BY <2>1, <2>2 DEF QuotaWithPending
<1>8. ASSUME NEW p \in Procs, Insert(p) PROVE QuotaWithPending'
  <2>1. /\ keys' = keys /\ unread' = unread /\ Only(p) /\ op[p].pc # "mint" /\ op'[p].pc # "mint"
    BY <1>8, InsertEffect
  <2>2. \A x \in Ids : Minting(x)' = Minting(x)
    BY <2>1 DEF Only, Minting
  <2> QED BY <2>1, <2>2 DEF QuotaWithPending
<1>9. ASSUME NEW p \in Procs, NewSession(p) PROVE QuotaWithPending'
  <2>1. /\ keys' = keys /\ unread' = unread /\ Only(p) /\ op[p].pc # "mint" /\ op'[p].pc # "mint"
    BY <1>9, NewSessionEffect
  <2>2. \A x \in Ids : Minting(x)' = Minting(x)
    BY <2>1 DEF Only, Minting
  <2> QED BY <2>1, <2>2 DEF QuotaWithPending
<1>10. ASSUME NEW p \in Procs, ChangeVerify(p) PROVE QuotaWithPending'
  <2>1. /\ keys' = keys /\ unread' = unread /\ Only(p) /\ op[p].pc # "mint" /\ op'[p].pc # "mint"
    BY <1>10, ChangeVerifyEffect
  <2>2. \A x \in Ids : Minting(x)' = Minting(x)
    BY <2>1 DEF Only, Minting
  <2> QED BY <2>1, <2>2 DEF QuotaWithPending
<1>11. ASSUME NEW p \in Procs, ChangeUpdate(p) PROVE QuotaWithPending'
  <2>1. /\ keys' = keys /\ unread' = unread /\ Only(p) /\ op[p].pc # "mint" /\ op'[p].pc # "mint"
    BY <1>11, ChangeUpdateEffect
  <2>2. \A x \in Ids : Minting(x)' = Minting(x)
    BY <2>1 DEF Only, Minting
  <2> QED BY <2>1, <2>2 DEF QuotaWithPending
<1>12. ASSUME NEW p \in Procs, ChangeEvict(p) PROVE QuotaWithPending'
  <2>1. /\ keys' = keys /\ unread' = unread /\ Only(p) /\ op[p].pc # "mint" /\ op'[p].pc # "mint"
    BY <1>12, ChangeEvictEffect
  <2>2. \A x \in Ids : Minting(x)' = Minting(x)
    BY <2>1 DEF Only, Minting
  <2> QED BY <2>1, <2>2 DEF QuotaWithPending
<1>13. ASSUME NEW p \in Procs, Delete(p) PROVE QuotaWithPending'
  <2>1. /\ keys' = keys /\ unread' = unread /\ Only(p) /\ op[p].pc # "mint" /\ op'[p].pc # "mint"
    BY <1>13, DeleteEffect
  <2>2. \A x \in Ids : Minting(x)' = Minting(x)
    BY <2>1 DEF Only, Minting
  <2> QED BY <2>1, <2>2 DEF QuotaWithPending
<1>14. ASSUME NEW p \in Procs, KeyCount(p) PROVE QuotaWithPending'
  <2>1. op[p].pc = "count" /\ Only(p) /\ op[p].id \in Ids /\ keys' = keys
    BY <1>14, KeyCountEffect
  <2>2. SUFFICES ASSUME NEW x \in Ids
        PROVE keys'[x] + Cardinality(Minting(x)') <= Quota + Cardinality(Procs) - 1 + unread'[x]
    BY DEF QuotaWithPending
  <2>3. keys[x] \in Nat /\ unread[x] \in Nat /\ Quota \in Nat
    BY Types, AccountsAssumption
  <2>4. CASE x # op[p].id \/ op'[p].pc # "mint"
    <3>1. Minting(x)' = Minting(x)
      BY <1>14, <2>1, <2>4, KeyCountEffect DEF Only, Minting
    <3>2. unread'[x] = unread[x]
      BY <1>14, <2>4, KeyCountEffect DEF TypeOK
    <3> QED BY <2>1, <3>1, <3>2 DEF QuotaWithPending
  <2>5. CASE x = op[p].id /\ op'[p].pc = "mint"
    <3>1. keys[x] < Quota /\ unread' = unread
      BY <1>14, <2>5, KeyCountEffect
    <3> QED BY <2>1, <2>3, <3>1, MintingBoundNext, MintingBound
  <2> QED BY <2>4, <2>5
<1>15. ASSUME NEW p \in Procs, KeyCountFails(p) PROVE QuotaWithPending'
  <2>1. op[p].pc = "count" /\ Only(p) /\ op[p].id \in Ids /\ keys' = keys
    BY <1>15, KeyCountFailsEffect
  <2>2. SUFFICES ASSUME NEW x \in Ids
        PROVE keys'[x] + Cardinality(Minting(x)') <= Quota + Cardinality(Procs) - 1 + unread'[x]
    BY DEF QuotaWithPending
  <2>3. keys[x] \in Nat /\ unread[x] \in Nat /\ Quota \in Nat
    BY Types, AccountsAssumption
  <2>4. CASE x # op[p].id \/ op'[p].pc # "mint"
    <3>1. Minting(x)' = Minting(x)
      BY <1>15, <2>1, <2>4, KeyCountFailsEffect DEF Only, Minting
    <3>2. unread'[x] = unread[x]
      BY <1>15, <2>4, KeyCountFailsEffect DEF TypeOK
    <3> QED BY <2>1, <3>1, <3>2 DEF QuotaWithPending
  <2>5. CASE x = op[p].id /\ op'[p].pc = "mint"
    <3>1. Minting(x)' = Minting(x) \cup {p} /\ p \notin Minting(x)
      BY <1>15, <2>1, <2>5, KeyCountFailsEffect DEF Only, Minting
    <3>2. Cardinality(Minting(x)') = Cardinality(Minting(x)) + 1
      BY <3>1, MintingBound, FS_AddElement
    <3>3. unread'[x] = unread[x] + 1
      BY <1>15, <2>5, KeyCountFailsEffect DEF TypeOK
    <3>4. keys[x] + Cardinality(Minting(x)) <= Quota + Cardinality(Procs) - 1 + unread[x]
      BY DEF QuotaWithPending
    <3> QED BY <2>1, <2>3, <3>2, <3>3, <3>4, MintingBound
  <2> QED BY <2>4, <2>5
<1>16. ASSUME NEW p \in Procs, KeyMint(p) PROVE QuotaWithPending'
  <2>1. op[p].pc = "mint" /\ Only(p) /\ op[p].id \in Ids /\ op'[p].pc = "idle" /\ unread' = unread
    BY <1>16, KeyMintEffect
  <2>2. SUFFICES ASSUME NEW x \in Ids
        PROVE keys'[x] + Cardinality(Minting(x)') <= Quota + Cardinality(Procs) - 1 + unread'[x]
    BY DEF QuotaWithPending
  <2>3. CASE x # op[p].id
    <3>1. Minting(x)' = Minting(x)
      BY <2>1, <2>3 DEF Only, Minting
    <3>2. keys'[x] = keys[x]
      BY <1>16, <2>3, KeyMintEffect DEF TypeOK
    <3> QED BY <2>1, <3>1, <3>2 DEF QuotaWithPending
  <2>4. CASE x = op[p].id
    <3>1. Minting(x)' = Minting(x) \ {p} /\ p \in Minting(x)
      BY <2>1, <2>4 DEF Only, Minting
    <3>2. Cardinality(Minting(x)') = Cardinality(Minting(x)) - 1
      BY <3>1, MintingBound, FS_RemoveElement
    <3>3. keys'[x] \in {keys[x], keys[x] + 1} /\ keys[x] \in Nat /\ unread[x] \in Nat
      BY <1>16, <2>4, KeyMintEffect, Types DEF TypeOK
    <3>4. keys[x] + Cardinality(Minting(x)) <= Quota + Cardinality(Procs) - 1 + unread[x]
      BY DEF QuotaWithPending
    <3> QED BY <2>1, <3>2, <3>3, <3>4, MintingBound, AccountsAssumption
  <2> QED BY <2>3, <2>4
<1>17. ASSUME NEW p \in Procs, StatementFails(p) PROVE QuotaWithPending'
  <2>1. Only(p) /\ op'[p].pc = "idle" /\ keys' = keys /\ unread' = unread
    BY <1>17, StatementFailsEffect
  <2>2. SUFFICES ASSUME NEW x \in Ids
        PROVE keys[x] + Cardinality(Minting(x)') <= Quota + Cardinality(Procs) - 1 + unread[x]
    BY <2>1 DEF QuotaWithPending
  <2>3. Minting(x)' \subseteq Minting(x)
    BY <2>1 DEF Only, Minting
  <2>4. Cardinality(Minting(x)') <= Cardinality(Minting(x))
    BY <2>3, MintingBound, FS_Subset
  <2>5. keys[x] + Cardinality(Minting(x)) <= Quota + Cardinality(Procs) - 1 + unread[x]
    BY DEF QuotaWithPending
  <2>6. keys[x] \in Nat /\ unread[x] \in Nat /\ Quota \in Nat
    BY Types, AccountsAssumption
  <2> QED BY <2>4, <2>5, <2>6, MintingBound, MintingBoundNext
<1>18. ASSUME NEW s \in session, Logout(s) PROVE QuotaWithPending'
  <2>1. \A x \in Ids : Minting(x)' = Minting(x)
    BY <1>18 DEF Minting, Logout
  <2> QED BY <1>18, <2>1 DEF QuotaWithPending, Logout, history
<1>19. ASSUME NEW i \in Ids, KeyDelete(i) PROVE QuotaWithPending'
  <2>1. \A x \in Ids : Minting(x)' = Minting(x)
    BY <1>19 DEF Minting, KeyDelete
  <2>2. \A x \in Ids : keys'[x] \in {keys[x], keys[x] - 1} /\ keys[x] \in Nat /\ unread[x] \in Nat
    BY <1>19, Types DEF TypeOK, KeyDelete
  <2>3. \A x \in Ids : keys[x] + Cardinality(Minting(x)) <= Quota + Cardinality(Procs) - 1 + unread[x]
    BY DEF QuotaWithPending
  <2>4. unread' = unread /\ Quota \in Nat
    BY <1>19, AccountsAssumption DEF KeyDelete, history
  <2>5. SUFFICES ASSUME NEW x \in Ids
        PROVE keys'[x] + Cardinality(Minting(x)') <= Quota + Cardinality(Procs) - 1 + unread'[x]
    BY DEF QuotaWithPending
  <2> QED BY <2>1, <2>2, <2>3, <2>4, MintingBound
<1> QED
  BY <1>1, <1>2, <1>3, <1>4, <1>5, <1>6, <1>7, <1>8, <1>9, <1>10, <1>11, <1>12, <1>13, <1>14, <1>15, <1>16, <1>17, <1>18, <1>19 DEF Next, Handler

-----------------------------------------------------------------------------
(* Theorems *)

(* The invariant holds at the start, in an empty database. *)
LEMMA InitInv == Init => IInv
<1> SUFFICES ASSUME Init PROVE IInv
  OBVIOUS
<1>1. Idle \in Op /\ Idle.pc = "idle" /\ Fresh \in User /\ Fresh.pw = 0 /\ Fresh.state = "new"
  BY DEF Idle, Op, Pcs, Kinds, Roles, Fresh, User
<1> HIDE DEF Idle, Fresh
<1>2. TypeOK
  BY <1>1 DEF Init, TypeOK
<1>3. PasswordHeld /\ PasswordChangeEvicts /\ CountsHold
  BY <1>1 DEF Init, PasswordHeld, PasswordChangeEvicts, CountsHold
<1>4. QuotaWithPending
  <2>1. \A i \in Ids : Minting(i) = {} /\ keys[i] = 0 /\ unread[i] = 0
    BY <1>1 DEF Init, Minting
  <2>2. Cardinality({}) = 0 /\ Cardinality(Procs) \in Nat
    BY FS_EmptySet, FS_CardinalityType, AccountsAssumption
  <2>3. Cardinality(Procs) # 0
    BY FS_EmptySet, AccountsAssumption
  <2>4. Quota \in Nat
    BY AccountsAssumption
  <2>5. 0 + 0 <= Quota + Cardinality(Procs) - 1 + 0
    BY <2>2, <2>3, <2>4
  <2>6. \A i \in Ids : Cardinality(Minting(i)) = 0
    BY <2>1, <2>2
  <2> QED BY <2>1, <2>5, <2>6 DEF QuotaWithPending
<1> QED BY <1>2, <1>3, <1>4 DEF IInv

(* IInv is an invariant of every interleaving of the handlers' statements. *)
THEOREM Invariant == Spec => []IInv
<1>1. IInv /\ [Next]_vars => IInv'
  BY TypeStep, PasswordHeldStep, EvictsStep, CountsHoldStep, QuotaStep DEF IInv
<1> QED BY <1>1, InitInv, PTL DEF Spec

(* Every row, session and handler keeps its type, and a handler that is under
   way is about an account. *)
THEOREM TypeCorrect == Spec => []TypeOK
<1>1. IInv => TypeOK
  BY DEF IInv
<1> QED BY <1>1, Invariant, PTL

(* The first-run setup, which counts and then inserts, makes one admin, and the
   deletion, which counts and then deletes, leaves one, with any number of
   accounts and handlers, unless two of either kind were between their two
   statements at the same time. *)
THEOREM AdminRemains == Spec => []AdminsCounted
<1>1. IInv => AdminsCounted
  BY DEF IInv, CountsHold, AdminsCounted
<1> QED BY <1>1, Invariant, PTL

(* A password change, which updates the row and then deletes the sessions, leaves
   none that an older password opened once both statements were executed, unless
   a sign-in or another change crossed it. After a change whose second statement
   failed nothing is claimed, until the next one succeeds. *)
THEOREM OldSessionsGo == Spec => []PasswordChangeEvicts
<1>1. IInv => PasswordChangeEvicts
  BY DEF IInv
<1> QED BY <1>1, Invariant, PTL

(* The quota, which is counted and then used, is exceeded by fewer keys than
   there are handlers, and by one for every count that could not be read. *)
THEOREM QuotaHolds == Spec => []QuotaNearlyKept
<1>1. IInv => QuotaNearlyKept
  <2> SUFFICES ASSUME IInv, NEW i \in Ids
               PROVE  keys[i] <= Quota + (Cardinality(Procs) - 1) + unread[i]
    BY DEF QuotaNearlyKept
  <2>1. keys[i] + Cardinality(Minting(i)) <= Quota + Cardinality(Procs) - 1 + unread[i]
    BY DEF IInv, QuotaWithPending
  <2>2. keys[i] \in Nat /\ unread[i] \in Nat /\ Quota \in Nat
    BY Types, AccountsAssumption DEF IInv
  <2> QED BY <2>1, <2>2, MintingBound
<1> QED BY <1>1, Invariant, PTL

=============================================================================
