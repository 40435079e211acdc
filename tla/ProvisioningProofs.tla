--------------------------- MODULE ProvisioningProofs ---------------------------
(***************************************************************************)
(* Proofs about Provisioning, for any number of models, files and          *)
(* operations, and names that may share a file.                            *)
(***************************************************************************)
EXTENDS Provisioning, TLAPS

Stages == {"idle", "start", "lookup", "find", "create", "write", "rename", "locate",
           "unlink", "stop", "lock", "load", "swap"}
Kinds == {"install", "publish", "uninstall", None}
Opened == {"tmp", "file", "gone", None}
Locals == [pc : Stages, kind : Kinds, id : Ids \cup {None}, ready : BOOLEAN,
           path : Files \cup {None}, open : Opened, todo : SUBSET Files,
           read : SUBSET (Files \X Model)]

Typing ==
    /\ file \in [Files -> Model \cup {Partial, None}]
    /\ tmp \in [Files -> Model \cup {Partial, None}]
    /\ cfg \subseteq Model /\ catalog \subseteq Model
    /\ mutex \in Ops \cup {None}
    /\ engines \subseteq Nodes \X Ids /\ ready \subseteq Ids /\ mixed \subseteq Files
    /\ failed \in BOOLEAN
    /\ op \in [Ops -> Locals]

(* What an operation knows at each stage; a reload is under way exactly in the
   operation that holds reloadMu. *)
Staged(o) ==
    /\ op[o].pc = "idle" => op[o].kind = None /\ op[o].id = None /\ op[o].path = None
    /\ op[o].kind \in {"install", "uninstall"} => op[o].id \in Ids
    /\ op[o].pc \in {"start", "lookup", "find", "create", "write", "rename"} =>
        op[o].id \in Ids /\ op[o].kind \in {"install", "publish"}
    /\ op[o].pc = "start" => op[o].kind = "install"
    /\ op[o].pc \in {"locate", "unlink", "stop"} => op[o].kind = "uninstall"
    /\ op[o].pc \in {"create", "write", "rename", "unlink"} => op[o].path # None
    /\ op[o].path # None => op[o].id \in Ids /\ op[o].path = NameOf[op[o].id]
    /\ op[o].pc \in {"load", "swap"} <=> mutex = o
    /\ op[o].pc \notin {"load", "swap"} => op[o].read = {}

(* A document is in the file its id names. *)
Placed ==
    \A f \in Files :
        /\ file[f] \in Model => NameOf[file[f].id] = f
        /\ tmp[f] \in Model => NameOf[tmp[f].id] = f

(* A file that no two operations met on has one operation at most. *)
Exclusive ==
    \A o, p \in Ops :
        /\ o # p
        /\ op[o].id \in Ids /\ op[p].id \in Ids
        /\ NameOf[op[o].id] = NameOf[op[p].id]
        => NameOf[op[o].id] \in mixed

(* ... and what that one renames is its own document, complete. *)
Writes(o) ==
    op[o].path \notin mixed =>
        /\ op[o].pc = "write" => op[o].open = "tmp"
        /\ op[o].pc = "rename" => tmp[op[o].path] = [id |-> op[o].id, ready |-> Ready(o)]

(* Whoever changes the directory reloads it afterwards: when no operation is
   about to, what the one under way has read is still there, and with none under
   way the catalog is what the directory says, if it says anything. *)
Pending == \E o \in Ops : op[o].pc = "lock"
Pairs(S) == {<<f, file[f]>> : f \in S}
Clean(pairs) == (\A x \in pairs : x[2] # Partial) /\ Valid(pairs)

Current ==
    mixed = {} /\ ~Pending =>
        /\ \A o \in Ops :
            /\ op[o].pc = "load" => /\ op[o].todo \subseteq Listed
                                    /\ op[o].read = Pairs(Listed \ op[o].todo)
            /\ op[o].pc = "swap" => op[o].read = OnDisk
        /\ mutex = None /\ Clean(OnDisk) => catalog = Models(OnDisk)

(* A document, wherever it is, is of a model that has an engine, and a visible
   one of a model that was published since its last complete install. *)
Hosted == {i \in Ids : HasEngine(i)}

Cared(i) == i \notin Base /\ NameOf[i] \notin mixed /\ ~failed

Backed(d) == Cared(d.id) => d.id \in Hosted /\ (d.ready => d.id \in ready)

Backing ==
    /\ \A f \in Files : file[f] \in Model => Backed(file[f])
    /\ \A d \in cfg : Backed(d)
    /\ \A d \in catalog : Backed(d)
    /\ \A o \in Ops : \A x \in op[o].read : Backed(x[2])
    /\ \A o \in Ops :
        op[o].pc \in {"find", "create", "write", "rename"} /\ Cared(op[o].id) =>
            op[o].id \in Hosted /\ (Ready(o) => op[o].id \in ready)

(* An uninstall has taken its model out of the directory, then out of the
   configuration, then out of the catalog, before it removes the engine; an
   install has hidden it in the same order before it is complete. *)
Without(docs, i) == \A d \in docs : d.id # i

Off(kind, i, d) == d.id = i => kind = "install" /\ ~d.ready

Leaves(o) ==
    op[o].kind \in {"install", "uninstall"} /\ Cared(op[o].id) =>
        /\ op[o].pc \in {"lock", "load", "swap", "stop"} =>
            \A f \in Files : file[f] \in Model => Off(op[o].kind, op[o].id, file[f])
        /\ op[o].pc \in {"load", "swap"} =>
            \A x \in op[o].read : Off(op[o].kind, op[o].id, x[2])
        /\ op[o].pc \in {"swap", "stop"} => \A d \in cfg : Off(op[o].kind, op[o].id, d)
        /\ op[o].pc = "stop" =>
            /\ Without(catalog, op[o].id)
            /\ \A p \in Ops : \A x \in op[p].read : x[2].id # op[o].id

IInv ==
    /\ Typing
    /\ \A o \in Ops : Staged(o)
    /\ Placed
    /\ Exclusive
    /\ CompleteFiles
    /\ \A o \in Ops : Writes(o)
    /\ Current
    /\ Backing
    /\ \A o \in Ops : Leaves(o)

-----------------------------------------------------------------------------
(* One operation moves *)

(* All that a step of o can do to another operation is to move the file it has
   open, if the two share its name. *)
Others(o) ==
    \A q \in Ops \ {o} :
        /\ op'[q].pc = op[q].pc /\ op'[q].kind = op[q].kind /\ op'[q].id = op[q].id
        /\ op'[q].ready = op[q].ready /\ op'[q].path = op[q].path
        /\ op'[q].todo = op[q].todo /\ op'[q].read = op[q].read
        /\ op'[q].open # op[q].open => op[o].path \in Files /\ op[q].path = op[o].path

LEMMA Values ==
    /\ None \notin Ids /\ None \notin Files /\ None \notin Ops /\ None \notin Model
    /\ None # Partial /\ Partial \notin Model
    /\ None \notin {"install", "publish", "uninstall", "tmp", "file", "gone"}
    /\ Base \subseteq Ids /\ \A i \in Ids : NameOf[i] \in Files
<1>1. Partial \notin Model
  <2>1. Partial.id = None
    BY DEF Partial
  <2>2. \A d \in Model : d.id \in Ids
    BY DEF Model
  <2> QED BY <2>1, <2>2, ProvisioningAssumption
<1> QED BY <1>1, ProvisioningAssumption

LEMMA HostedGrows ==
    ASSUME engines \subseteq engines'
    PROVE  Hosted \subseteq Hosted'
BY DEF Hosted, HasEngine

LEMMA HostedSame ==
    ASSUME UNCHANGED engines
    PROVE  Hosted' = Hosted
BY DEF Hosted, HasEngine

LEMMA ModelFields ==
    /\ \A d \in Model : d.id \in Ids /\ d.ready \in BOOLEAN
    /\ \A i \in Ids, b \in BOOLEAN :
        /\ [id |-> i, ready |-> b] \in Model
        /\ [id |-> i, ready |-> b].id = i /\ [id |-> i, ready |-> b].ready = b
BY DEF Model

LEMMA IdleFields ==
    /\ Idle \in Locals /\ Idle.pc = "idle" /\ Idle.kind = None /\ Idle.id = None
    /\ Idle.ready = FALSE /\ Idle.path = None /\ Idle.open = None
    /\ Idle.todo = {} /\ Idle.read = {}
<1>1. "idle" \in Stages /\ None \in Kinds /\ None \in Opened
  BY DEF Stages, Kinds, Opened
<1> QED BY <1>1 DEF Idle, Locals

LEMMA Types ==
    ASSUME Typing, NEW o \in Ops
    PROVE  /\ op[o] \in Locals /\ op[o].pc \in Stages /\ op[o].kind \in Kinds
           /\ op[o].id \in Ids \cup {None} /\ op[o].ready \in BOOLEAN
           /\ op[o].path \in Files \cup {None} /\ op[o].open \in Opened
           /\ op[o].todo \subseteq Files /\ op[o].read \subseteq Files \X Model
BY DEF Typing, Locals

LEMMA OneOp ==
    ASSUME Typing, NEW o \in Ops, NEW l \in Locals, op' = [op EXCEPT ![o] = l]
    PROVE  /\ op' \in [Ops -> Locals] /\ op'[o] = l /\ Others(o)
<1>1. op' \in [Ops -> Locals] /\ op'[o] = l /\ \A q \in Ops \ {o} : op'[q] = op[q]
  BY DEF Typing
<1> QED BY <1>1 DEF Others

LEMMA SetPc ==
    ASSUME NEW l \in Locals, NEW x \in Stages
    PROVE  /\ [l EXCEPT !.pc = x] \in Locals
           /\ [l EXCEPT !.pc = x].pc = x /\ [l EXCEPT !.pc = x].kind = l.kind
           /\ [l EXCEPT !.pc = x].id = l.id /\ [l EXCEPT !.pc = x].ready = l.ready
           /\ [l EXCEPT !.pc = x].path = l.path /\ [l EXCEPT !.pc = x].open = l.open
           /\ [l EXCEPT !.pc = x].todo = l.todo /\ [l EXCEPT !.pc = x].read = l.read
BY DEF Locals

LEMMA SetKind ==
    ASSUME NEW l \in Locals, NEW x \in Kinds
    PROVE  /\ [l EXCEPT !.kind = x] \in Locals
           /\ [l EXCEPT !.kind = x].pc = l.pc /\ [l EXCEPT !.kind = x].kind = x
           /\ [l EXCEPT !.kind = x].id = l.id /\ [l EXCEPT !.kind = x].ready = l.ready
           /\ [l EXCEPT !.kind = x].path = l.path /\ [l EXCEPT !.kind = x].open = l.open
           /\ [l EXCEPT !.kind = x].todo = l.todo /\ [l EXCEPT !.kind = x].read = l.read
BY DEF Locals

LEMMA SetId ==
    ASSUME NEW l \in Locals, NEW x \in Ids \cup {None}
    PROVE  /\ [l EXCEPT !.id = x] \in Locals
           /\ [l EXCEPT !.id = x].pc = l.pc /\ [l EXCEPT !.id = x].kind = l.kind
           /\ [l EXCEPT !.id = x].id = x /\ [l EXCEPT !.id = x].ready = l.ready
           /\ [l EXCEPT !.id = x].path = l.path /\ [l EXCEPT !.id = x].open = l.open
           /\ [l EXCEPT !.id = x].todo = l.todo /\ [l EXCEPT !.id = x].read = l.read
BY DEF Locals

LEMMA SetReady ==
    ASSUME NEW l \in Locals, NEW x \in BOOLEAN
    PROVE  /\ [l EXCEPT !.ready = x] \in Locals
           /\ [l EXCEPT !.ready = x].pc = l.pc /\ [l EXCEPT !.ready = x].kind = l.kind
           /\ [l EXCEPT !.ready = x].id = l.id /\ [l EXCEPT !.ready = x].ready = x
           /\ [l EXCEPT !.ready = x].path = l.path /\ [l EXCEPT !.ready = x].open = l.open
           /\ [l EXCEPT !.ready = x].todo = l.todo /\ [l EXCEPT !.ready = x].read = l.read
BY DEF Locals

LEMMA SetPath ==
    ASSUME NEW l \in Locals, NEW x \in Files \cup {None}
    PROVE  /\ [l EXCEPT !.path = x] \in Locals
           /\ [l EXCEPT !.path = x].pc = l.pc /\ [l EXCEPT !.path = x].kind = l.kind
           /\ [l EXCEPT !.path = x].id = l.id /\ [l EXCEPT !.path = x].ready = l.ready
           /\ [l EXCEPT !.path = x].path = x /\ [l EXCEPT !.path = x].open = l.open
           /\ [l EXCEPT !.path = x].todo = l.todo /\ [l EXCEPT !.path = x].read = l.read
BY DEF Locals

LEMMA SetOpen ==
    ASSUME NEW l \in Locals, NEW x \in Opened
    PROVE  /\ [l EXCEPT !.open = x] \in Locals
           /\ [l EXCEPT !.open = x].pc = l.pc /\ [l EXCEPT !.open = x].kind = l.kind
           /\ [l EXCEPT !.open = x].id = l.id /\ [l EXCEPT !.open = x].ready = l.ready
           /\ [l EXCEPT !.open = x].path = l.path /\ [l EXCEPT !.open = x].open = x
           /\ [l EXCEPT !.open = x].todo = l.todo /\ [l EXCEPT !.open = x].read = l.read
BY DEF Locals

LEMMA SetTodo ==
    ASSUME NEW l \in Locals, NEW x \in SUBSET Files
    PROVE  /\ [l EXCEPT !.todo = x] \in Locals
           /\ [l EXCEPT !.todo = x].pc = l.pc /\ [l EXCEPT !.todo = x].kind = l.kind
           /\ [l EXCEPT !.todo = x].id = l.id /\ [l EXCEPT !.todo = x].ready = l.ready
           /\ [l EXCEPT !.todo = x].path = l.path /\ [l EXCEPT !.todo = x].open = l.open
           /\ [l EXCEPT !.todo = x].todo = x /\ [l EXCEPT !.todo = x].read = l.read
BY DEF Locals

LEMMA SetRead ==
    ASSUME NEW l \in Locals, NEW x \in SUBSET (Files \X Model)
    PROVE  /\ [l EXCEPT !.read = x] \in Locals
           /\ [l EXCEPT !.read = x].pc = l.pc /\ [l EXCEPT !.read = x].kind = l.kind
           /\ [l EXCEPT !.read = x].id = l.id /\ [l EXCEPT !.read = x].ready = l.ready
           /\ [l EXCEPT !.read = x].path = l.path /\ [l EXCEPT !.read = x].open = l.open
           /\ [l EXCEPT !.read = x].todo = l.todo /\ [l EXCEPT !.read = x].read = x
BY DEF Locals

(* To another stage. *)
LEMMA GotoMoves ==
    ASSUME Typing, NEW o \in Ops, NEW x \in Stages,
           Goto(o, x)
    PROVE  /\ op' \in [Ops -> Locals] /\ Others(o)
           /\ op'[o].pc = x /\ op'[o].kind = op[o].kind /\ op'[o].id = op[o].id /\ op'[o].ready = op[o].ready
           /\ op'[o].path = op[o].path /\ op'[o].open = op[o].open /\ op'[o].todo = op[o].todo /\ op'[o].read = op[o].read
<1> DEFINE l0 == op[o]
           l1 == [l0 EXCEPT !.pc = x]
<1>1. l0 \in Locals
  BY Types, IdleFields
<1>2. op' = [op EXCEPT ![o] = l1]
  BY DEF Goto
<1>3. l0 = op[o]
  OBVIOUS
<1> HIDE DEF l0
<1>4. /\ l1 \in Locals
      /\ l1.pc = x /\ l1.kind = l0.kind /\ l1.id = l0.id /\ l1.ready = l0.ready /\ l1.path = l0.path /\ l1.open = l0.open /\ l1.todo = l0.todo /\ l1.read = l0.read
  BY <1>1, SetPc
<1> HIDE DEF l1
<1>5. op' \in [Ops -> Locals] /\ op'[o] = l1 /\ Others(o)
  BY <1>2, <1>4, OneOp
<1> QED BY <1>3, <1>4, <1>5

(* The handler returns. *)
LEMMA EndMoves ==
    ASSUME Typing, NEW o \in Ops,
           End(o)
    PROVE  /\ op' \in [Ops -> Locals] /\ Others(o)
           /\ op'[o].pc = "idle" /\ op'[o].kind = None /\ op'[o].id = None /\ op'[o].ready = FALSE
           /\ op'[o].path = None /\ op'[o].open = None /\ op'[o].todo = {} /\ op'[o].read = {}
<1>1. op' = [op EXCEPT ![o] = Idle]
  BY DEF End
<1> QED BY <1>1, OneOp, IdleFields

(* A file is opened or closed. *)
LEMMA OpenMoves ==
    ASSUME Typing, NEW o \in Ops, NEW x \in Stages, NEW y \in Opened,
           op' = [op EXCEPT ![o] = [op[o] EXCEPT !.pc = x, !.open = y]]
    PROVE  /\ op' \in [Ops -> Locals] /\ Others(o)
           /\ op'[o].pc = x /\ op'[o].kind = op[o].kind /\ op'[o].id = op[o].id /\ op'[o].ready = op[o].ready
           /\ op'[o].path = op[o].path /\ op'[o].open = y /\ op'[o].todo = op[o].todo /\ op'[o].read = op[o].read
<1> DEFINE l0 == op[o]
           l1 == [l0 EXCEPT !.pc = x]
           l2 == [l1 EXCEPT !.open = y]
<1>1. l0 \in Locals
  BY Types, IdleFields
<1>2. op' = [op EXCEPT ![o] = l2]
  BY DEF Goto
<1>3. l0 = op[o]
  OBVIOUS
<1> HIDE DEF l0
<1>4. /\ l1 \in Locals
      /\ l1.pc = x /\ l1.kind = l0.kind /\ l1.id = l0.id /\ l1.ready = l0.ready /\ l1.path = l0.path /\ l1.open = l0.open /\ l1.todo = l0.todo /\ l1.read = l0.read
  BY <1>1, SetPc
<1> HIDE DEF l1
<1>5. /\ l2 \in Locals
      /\ l2.pc = l1.pc /\ l2.kind = l1.kind /\ l2.id = l1.id /\ l2.ready = l1.ready /\ l2.path = l1.path /\ l2.open = y /\ l2.todo = l1.todo /\ l2.read = l1.read
  BY <1>4, SetOpen
<1> HIDE DEF l2
<1>6. op' \in [Ops -> Locals] /\ op'[o] = l2 /\ Others(o)
  BY <1>2, <1>5, OneOp
<1> QED BY <1>3, <1>4, <1>5, <1>6

(* An operation begins. *)
LEMMA BeginMoves ==
    ASSUME Typing, NEW o \in Ops, NEW k \in Kinds, NEW i \in Ids \cup {None}, NEW b \in BOOLEAN, NEW x \in Stages,
           op' = [op EXCEPT ![o] = [Idle EXCEPT !.kind = k, !.id = i, !.ready = b, !.pc = x]]
    PROVE  /\ op' \in [Ops -> Locals] /\ Others(o)
           /\ op'[o].pc = x /\ op'[o].kind = k /\ op'[o].id = i /\ op'[o].ready = b
           /\ op'[o].path = None /\ op'[o].open = None /\ op'[o].todo = {} /\ op'[o].read = {}
<1> DEFINE l0 == Idle
           l1 == [l0 EXCEPT !.kind = k]
           l2 == [l1 EXCEPT !.id = i]
           l3 == [l2 EXCEPT !.ready = b]
           l4 == [l3 EXCEPT !.pc = x]
<1>1. l0 \in Locals
  BY Types, IdleFields
<1>2. op' = [op EXCEPT ![o] = l4]
  BY DEF Goto
<1>3. l0 = Idle
  OBVIOUS
<1> HIDE DEF l0
<1>4. /\ l1 \in Locals
      /\ l1.pc = l0.pc /\ l1.kind = k /\ l1.id = l0.id /\ l1.ready = l0.ready /\ l1.path = l0.path /\ l1.open = l0.open /\ l1.todo = l0.todo /\ l1.read = l0.read
  BY <1>1, SetKind
<1> HIDE DEF l1
<1>5. /\ l2 \in Locals
      /\ l2.pc = l1.pc /\ l2.kind = l1.kind /\ l2.id = i /\ l2.ready = l1.ready /\ l2.path = l1.path /\ l2.open = l1.open /\ l2.todo = l1.todo /\ l2.read = l1.read
  BY <1>4, SetId
<1> HIDE DEF l2
<1>6. /\ l3 \in Locals
      /\ l3.pc = l2.pc /\ l3.kind = l2.kind /\ l3.id = l2.id /\ l3.ready = b /\ l3.path = l2.path /\ l3.open = l2.open /\ l3.todo = l2.todo /\ l3.read = l2.read
  BY <1>5, SetReady
<1> HIDE DEF l3
<1>7. /\ l4 \in Locals
      /\ l4.pc = x /\ l4.kind = l3.kind /\ l4.id = l3.id /\ l4.ready = l3.ready /\ l4.path = l3.path /\ l4.open = l3.open /\ l4.todo = l3.todo /\ l4.read = l3.read
  BY <1>6, SetPc
<1> HIDE DEF l4
<1>8. op' \in [Ops -> Locals] /\ op'[o] = l4 /\ Others(o)
  BY <1>2, <1>7, OneOp
<1> QED BY <1>3, <1>4, <1>5, <1>6, <1>7, <1>8, IdleFields

(* An uninstall goes on after its reload. *)
LEMMA StopMoves ==
    ASSUME Typing, NEW o \in Ops,
           op' = [op EXCEPT ![o] = [op[o] EXCEPT !.pc = "stop", !.read = {}, !.todo = {}]]
    PROVE  /\ op' \in [Ops -> Locals] /\ Others(o)
           /\ op'[o].pc = "stop" /\ op'[o].kind = op[o].kind /\ op'[o].id = op[o].id /\ op'[o].ready = op[o].ready
           /\ op'[o].path = op[o].path /\ op'[o].open = op[o].open /\ op'[o].todo = {} /\ op'[o].read = {}
<1> DEFINE l0 == op[o]
           l1 == [l0 EXCEPT !.pc = "stop"]
           l2 == [l1 EXCEPT !.read = {}]
           l3 == [l2 EXCEPT !.todo = {}]
<1>1. l0 \in Locals
  BY Types, IdleFields
<1>2. op' = [op EXCEPT ![o] = l3]
  BY DEF Goto
<1>3. l0 = op[o]
  OBVIOUS
<1> HIDE DEF l0
<1>4. "stop" \in Stages
  BY DEF Stages
<1>5. /\ l1 \in Locals
      /\ l1.pc = "stop" /\ l1.kind = l0.kind /\ l1.id = l0.id /\ l1.ready = l0.ready /\ l1.path = l0.path /\ l1.open = l0.open /\ l1.todo = l0.todo /\ l1.read = l0.read
  BY <1>1, <1>4, SetPc
<1> HIDE DEF l1
<1>6. {} \in SUBSET (Files \X Model)
  BY DEF Stages
<1>7. /\ l2 \in Locals
      /\ l2.pc = l1.pc /\ l2.kind = l1.kind /\ l2.id = l1.id /\ l2.ready = l1.ready /\ l2.path = l1.path /\ l2.open = l1.open /\ l2.todo = l1.todo /\ l2.read = {}
  BY <1>5, <1>6, SetRead
<1> HIDE DEF l2
<1>8. {} \in SUBSET Files
  BY DEF Stages
<1>9. /\ l3 \in Locals
      /\ l3.pc = l2.pc /\ l3.kind = l2.kind /\ l3.id = l2.id /\ l3.ready = l2.ready /\ l3.path = l2.path /\ l3.open = l2.open /\ l3.todo = {} /\ l3.read = l2.read
  BY <1>7, <1>8, SetTodo
<1> HIDE DEF l3
<1>10. op' \in [Ops -> Locals] /\ op'[o] = l3 /\ Others(o)
  BY <1>2, <1>9, OneOp
<1> QED BY <1>3, <1>5, <1>7, <1>9, <1>10

(* After a reload. *)
LEMMA AfterMoves ==
    ASSUME Typing, NEW o \in Ops, op' = [op EXCEPT ![o] = After(o)]
    PROVE  /\ op' \in [Ops -> Locals] /\ Others(o)
           /\ op[o].kind = "uninstall" =>
                /\ op'[o].pc = "stop" /\ op'[o].kind = op[o].kind /\ op'[o].id = op[o].id
                /\ op'[o].ready = op[o].ready /\ op'[o].path = op[o].path
                /\ op'[o].open = op[o].open
           /\ op[o].kind # "uninstall" =>
                /\ op'[o].pc = "idle" /\ op'[o].kind = None /\ op'[o].id = None
                /\ op'[o].ready = FALSE /\ op'[o].path = None /\ op'[o].open = None
           /\ op'[o].read = {} /\ op'[o].todo = {}
<1>1. CASE op[o].kind = "uninstall"
  <2>1. op' = [op EXCEPT ![o] = [op[o] EXCEPT !.pc = "stop", !.read = {}, !.todo = {}]]
    BY <1>1 DEF After
  <2>2. /\ op' \in [Ops -> Locals] /\ Others(o)
        /\ op'[o].pc = "stop" /\ op'[o].kind = op[o].kind /\ op'[o].id = op[o].id
        /\ op'[o].ready = op[o].ready /\ op'[o].path = op[o].path
        /\ op'[o].open = op[o].open /\ op'[o].read = {} /\ op'[o].todo = {}
    BY <2>1, StopMoves, Zenon
  <2> QED BY <1>1, <2>2
<1>2. CASE op[o].kind # "uninstall"
  <2>1. End(o)
    BY <1>2 DEF After, End
  <2> QED BY <1>2, <2>1, EndMoves
<1> QED BY <1>1, <1>2

(* o is done with its file, which is renamed or removed under the others. *)
LEMMA LeaveMoves ==
    ASSUME Typing, NEW o \in Ops, op[o].path \in Files, NEW renamed \in BOOLEAN,
           Settle(o, renamed)
    PROVE  /\ op' \in [Ops -> Locals] /\ Others(o)
           /\ op'[o].pc = "lock" /\ op'[o].kind = op[o].kind /\ op'[o].id = op[o].id
           /\ op'[o].path = None /\ op'[o].read = op[o].read
<1> DEFINE l1 == [op[o] EXCEPT !.pc = "lock"]
           l2 == [l1 EXCEPT !.path = None]
<1>1. op' = [p \in Ops |-> op'[p]] /\ op'[o] = l2
  BY ZenonT(30) DEF Settle
<1>2. op[o] \in Locals /\ "lock" \in Stages /\ None \in Files \cup {None}
  BY Types DEF Stages
<1>3. /\ l1 \in Locals /\ l1.kind = op[o].kind /\ l1.id = op[o].id /\ l1.read = op[o].read
      /\ l1.pc = "lock"
  BY <1>2, SetPc
<1> HIDE DEF l1
<1>4. /\ l2 \in Locals /\ l2.kind = l1.kind /\ l2.id = l1.id /\ l2.read = l1.read
      /\ l2.pc = l1.pc /\ l2.path = None
  BY <1>2, <1>3, SetPath
<1> HIDE DEF l2
<1>5. ASSUME NEW q \in Ops \ {o}
      PROVE  /\ op'[q] \in Locals
             /\ op'[q].pc = op[q].pc /\ op'[q].kind = op[q].kind /\ op'[q].id = op[q].id
             /\ op'[q].ready = op[q].ready /\ op'[q].path = op[q].path
             /\ op'[q].todo = op[q].todo /\ op'[q].read = op[q].read
             /\ op'[q].open # op[q].open => op[q].path = op[o].path
  <2> DEFINE y == Moved(q, op[o].path, renamed)
  <2>1. op'[q] = [op[q] EXCEPT !.open = y]
    BY <1>5, ZenonT(30) DEF Settle
  <2>2. op[q] \in Locals /\ op[q].open \in Opened
    BY Types
  <2>3. y \in Opened /\ (y # op[q].open => op[q].path = op[o].path)
    BY <2>2 DEF Moved, Opened
  <2> HIDE DEF y
  <2> QED BY <2>1, <2>2, <2>3, SetOpen
<1>6. \A q \in Ops : op'[q] \in Locals
  BY <1>1, <1>4, <1>5
<1>7. op' \in [Ops -> Locals]
  BY <1>1, <1>6
<1>8. Others(o)
  BY <1>5 DEF Others
<1> QED BY <1>1, <1>3, <1>4, <1>7, <1>8

-----------------------------------------------------------------------------
(* What a step of one operation leaves alone *)

(* An operation on a file that nobody else is on, by its name. *)
LEMMA Met ==
    ASSUME Typing, \A q \in Ops : Staged(q), Exclusive,
           NEW o \in Ops, NEW q \in Ops, o # q,
           op[o].path \in Files, op[q].id \in Ids, NameOf[op[q].id] = op[o].path
    PROVE  op[o].path \in mixed
<1>1. op[o].id \in Ids /\ op[o].path = NameOf[op[o].id]
  BY Values DEF Staged
<1> QED BY <1>1 DEF Exclusive

LEMMA StagedOthers ==
    ASSUME \A q \in Ops : Staged(q), NEW o \in Ops, Others(o), Staged(o)',
           \A q \in Ops \ {o} : mutex' = q <=> mutex = q
    PROVE  \A q \in Ops : Staged(q)'
<1>1. ASSUME NEW q \in Ops, q # o PROVE Staged(q)'
  BY <1>1 DEF Staged, Others
<1> QED BY <1>1

LEMMA ExclusiveStays ==
    ASSUME Exclusive, NEW o \in Ops, Others(o), op'[o].id \in {op[o].id, None},
           mixed' = mixed
    PROVE  Exclusive'
<1>1. \A q \in Ops : op'[q].id \in Ids => op'[q].id = op[q].id
  BY Values DEF Others
<1> QED BY <1>1 DEF Exclusive

LEMMA WritesOthers ==
    ASSUME Typing, \A q \in Ops : Staged(q), Exclusive, \A q \in Ops : Writes(q),
           NEW o \in Ops, Others(o), mixed \subseteq mixed', Writes(o)',
           \A f \in Files : tmp'[f] # tmp[f] => f = op[o].path
    PROVE  \A q \in Ops : Writes(q)'
<1>1. ASSUME NEW q \in Ops, q # o PROVE Writes(q)'
  <2>1. /\ op'[q].pc = op[q].pc /\ op'[q].kind = op[q].kind /\ op'[q].id = op[q].id
        /\ op'[q].ready = op[q].ready /\ op'[q].path = op[q].path
        /\ op'[q].open # op[q].open => op[o].path \in Files /\ op[q].path = op[o].path
    BY <1>1 DEF Others
  <2>2. Ready(q)' = Ready(q)
    BY <2>1 DEF Ready
  <2>3. SUFFICES ASSUME op[q].path \notin mixed, op[q].pc \in {"write", "rename"}
                 PROVE  /\ op[q].pc = "write" => op'[q].open = "tmp"
                        /\ op[q].pc = "rename" =>
                            tmp'[op[q].path] = [id |-> op[q].id, ready |-> Ready(q)]
    BY <2>1, <2>2 DEF Writes
  <2>4. op[q].path \in Files /\ op[q].id \in Ids /\ op[q].path = NameOf[op[q].id]
    BY <2>3, Types DEF Staged
  <2>5. op[q].path # op[o].path
    BY <1>1, <2>3, <2>4, Met
  <2> QED BY <2>1, <2>3, <2>4, <2>5 DEF Writes
<1> QED BY <1>1

(* As long as the directory and the catalog stay, and no reload is meant. *)
LEMMA CurrentStays ==
    ASSUME Current, NEW o \in Ops, Others(o), mixed \subseteq mixed',
           UNCHANGED <<file, catalog, mutex>>,
           op[o].pc \notin {"lock", "load", "swap"}, op'[o].pc \notin {"load", "swap"}
    PROVE  Current'
<1>1. SUFFICES ASSUME mixed' = {}, ~Pending'
               PROVE  /\ \A q \in Ops :
                          /\ op'[q].pc = "load" => /\ op'[q].todo \subseteq Listed'
                                                   /\ op'[q].read = Pairs(Listed \ op[q].todo)'
                          /\ op'[q].pc = "swap" => op'[q].read = OnDisk'
                      /\ mutex' = None /\ Clean(OnDisk)' => catalog' = Models(OnDisk)'
  BY DEF Current
<1>2. mixed = {} /\ ~Pending
  BY <1>1 DEF Pending, Others
<1>3. Listed' = Listed /\ OnDisk' = OnDisk /\ \A S : Pairs(S)' = Pairs(S)
  BY DEF Listed, OnDisk, Pairs
<1>4. (Clean(OnDisk)' <=> Clean(OnDisk)) /\ Models(OnDisk)' = Models(OnDisk)
  BY <1>3 DEF Clean, Valid, Models
<1>5. ASSUME NEW q \in Ops, op'[q].pc \in {"load", "swap"}
      PROVE  op'[q].pc = op[q].pc /\ op'[q].todo = op[q].todo /\ op'[q].read = op[q].read
  BY <1>5 DEF Others
<1>6. \A q \in Ops : Pairs(Listed \ op[q].todo)' = {<<f, file[f]>> : f \in Listed \ op'[q].todo}
  BY <1>3 DEF Pairs
<1> QED BY <1>2, <1>3, <1>4, <1>5, <1>6 DEF Current, Pairs

(* Documents are neither made nor moved, and no model loses its engine. *)
LEMMA BackingStays ==
    ASSUME Typing, Backing, NEW o \in Ops, Others(o), mixed \subseteq mixed',
           UNCHANGED <<file, cfg, catalog, failed>>,
           engines \subseteq engines', ready \subseteq ready',
           op'[o].read \subseteq op[o].read,
           op'[o].pc \in {"find", "create", "write", "rename"} /\ Cared(op[o].id)' =>
               op'[o].id \in Hosted' /\ (Ready(o)' => op'[o].id \in ready')
    PROVE  Backing'
<1>1. \A i : Cared(i)' => Cared(i)
  BY DEF Cared
<1>2. \A d : Backed(d) => (Cared(d.id)' => d.id \in Hosted' /\ (d.ready => d.id \in ready'))
  BY <1>1, HostedGrows DEF Backed
<1>3. \A f \in Files : file'[f] \in Model => Backed(file[f])'
  BY <1>2 DEF Backing, Backed
<1>4. (\A d \in cfg' : Backed(d)') /\ (\A d \in catalog' : Backed(d)')
  BY <1>2 DEF Backing, Backed
<1>5. \A q \in Ops : \A x \in op'[q].read : Backed(x[2])'
  <2>1. \A q \in Ops : \A x \in op'[q].read : x \in op[q].read
    BY DEF Others
  <2> QED BY <1>2, <2>1 DEF Backing, Backed
<1>6. ASSUME NEW q \in Ops, op'[q].pc \in {"find", "create", "write", "rename"}, Cared(op[q].id)'
      PROVE  op'[q].id \in Hosted' /\ (Ready(q)' => op'[q].id \in ready')
  <2>1. CASE q = o
    BY <1>6, <2>1
  <2>2. CASE q # o
    <3>1. op'[q].pc = op[q].pc /\ op'[q].id = op[q].id /\ (Ready(q)' <=> Ready(q))
      BY <2>2 DEF Others, Ready
    <3>2. Cared(op[q].id)
      BY <1>6, <3>1 DEF Cared
    <3> QED BY <1>6, <3>1, <3>2, HostedGrows DEF Backing
  <2> QED BY <2>1, <2>2
<1> QED BY <1>3, <1>4, <1>5, <1>6 DEF Backing

LEMMA LeavesOthers ==
    ASSUME \A q \in Ops : Leaves(q), NEW o \in Ops, Others(o), mixed \subseteq mixed',
           UNCHANGED <<file, cfg, catalog, failed>>,
           op'[o].read \subseteq op[o].read, Leaves(o)'
    PROVE  \A q \in Ops : Leaves(q)'
<1>1. ASSUME NEW q \in Ops, q # o PROVE Leaves(q)'
  <2>1. op'[q].pc = op[q].pc /\ op'[q].kind = op[q].kind /\ op'[q].id = op[q].id
        /\ op'[q].read = op[q].read
    BY <1>1 DEF Others
  <2>2. Cared(op[q].id)' => Cared(op[q].id)
    BY <2>1 DEF Cared
  <2>3. \A p \in Ops : \A x \in op'[p].read : x \in op[p].read
    BY DEF Others
  <2>4. SUFFICES ASSUME op[q].kind \in {"install", "uninstall"}, Cared(op[q].id)
                 PROVE  Leaves(q)'
    BY <2>1, <2>2 DEF Leaves
  <2>5. Leaves(q)
    OBVIOUS
  <2>6. op[q].pc \in {"lock", "load", "swap", "stop"} =>
          \A f \in Files : file'[f] \in Model => Off(op[q].kind, op[q].id, file'[f])
    BY <2>4, <2>5 DEF Leaves
  <2>7. op[q].pc \in {"load", "swap"} => \A x \in op[q].read : Off(op[q].kind, op[q].id, x[2])
    BY <2>4, <2>5 DEF Leaves
  <2>8. op[q].pc \in {"swap", "stop"} => \A d \in cfg' : Off(op[q].kind, op[q].id, d)
    BY <2>4, <2>5 DEF Leaves
  <2>9. op[q].pc = "stop" =>
            /\ Without(catalog', op[q].id)
            /\ \A p \in Ops : \A x \in op'[p].read : x[2].id # op[q].id
    BY <2>3, <2>4, <2>5 DEF Leaves
  <2> QED BY <2>1, <2>6, <2>7, <2>8, <2>9 DEF Leaves, Without
<1> QED BY <1>1

(* A step that changes neither the directory nor what a reload has made of it:
   what is left to show is about the operation that took it. *)
LEMMA Steady ==
    ASSUME IInv, NEW o \in Ops, Typing', Others(o), mixed \subseteq mixed',
           UNCHANGED <<file, cfg, catalog, failed, mutex>>,
           op[o].pc \notin {"lock", "load", "swap"}, op'[o].pc \notin {"load", "swap"},
           op'[o].read = op[o].read \/ op'[o].read = {},
           \A f \in Files : tmp'[f] # tmp[f] => f = op[o].path,
           Staged(o)', Placed', Exclusive', Writes(o)', Backing', Leaves(o)'
    PROVE  IInv'
<1>1. /\ Typing /\ Placed /\ Exclusive /\ CompleteFiles /\ Current /\ Backing
      /\ (\A q \in Ops : Staged(q)) /\ (\A q \in Ops : Writes(q)) /\ (\A q \in Ops : Leaves(q))
  BY DEF IInv
<1>2. \A q \in Ops : Staged(q)'
  BY <1>1, StagedOthers
<1>3. \A q \in Ops : Writes(q)'
  BY <1>1, WritesOthers
<1>4. Current'
  BY <1>1, CurrentStays
<1>5. \A q \in Ops : Leaves(q)'
  BY <1>1, LeavesOthers
<1>6. CompleteFiles'
  BY <1>1 DEF CompleteFiles
<1> QED BY <1>2, <1>3, <1>4, <1>5, <1>6 DEF IInv

(* The facts about the operation itself, when it is not reloading and, if it is
   an install or an uninstall, has not changed its file yet. *)
LEMMA OwnParts ==
    ASSUME NEW o \in Ops, Typing', Staged(o)',
           op'[o].kind \in {"install", "uninstall"} =>
               op'[o].pc \notin {"lock", "load", "swap", "stop"},
           op'[o].pc \notin {"write", "rename"}
    PROVE  Writes(o)' /\ Leaves(o)'
BY DEF Writes, Leaves

LEMMA EndKeeps ==
    ASSUME IInv, NEW o \in Ops, End(o),
           UNCHANGED <<file, tmp, cfg, catalog, failed, mutex, mixed, ready>>,
           engines \subseteq engines', engines' \subseteq Nodes \X Ids,
           op[o].pc \notin {"lock", "load", "swap"}
    PROVE  IInv'
<1>1. Typing /\ Placed /\ Exclusive /\ Backing /\ Staged(o)
  BY DEF IInv
<1>2. /\ op' \in [Ops -> Locals] /\ Others(o) /\ op'[o].pc = "idle" /\ op'[o].kind = None
      /\ op'[o].id = None /\ op'[o].path = None /\ op'[o].read = {}
  BY <1>1, EndMoves
<1>3. Typing'
  BY <1>1, <1>2 DEF Typing
<1>4. Staged(o)'
  BY <1>1, <1>2, Values DEF Staged
<1>5. Placed'
  BY <1>1 DEF Placed
<1>6. Exclusive'
  BY <1>1, <1>2, ExclusiveStays
<1>7. Writes(o)' /\ Leaves(o)'
  BY <1>2, <1>3, <1>4, Values, OwnParts
<1>8. Backing'
  BY <1>1, <1>2, BackingStays
<1> QED BY <1>2, <1>3, <1>4, <1>5, <1>6, <1>7, <1>8, Steady

-----------------------------------------------------------------------------
(* The operations *)

LEMMA BeginKeeps ==
    ASSUME IInv, NEW o \in Ops, NEW kind \in {"install", "publish", "uninstall"},
           NEW id \in Ids, NEW flag \in BOOLEAN, Begin(o, kind, id, flag)
    PROVE  IInv'
<1> DEFINE x == CASE kind = "install" -> "start" [] kind = "publish" -> "lookup"
                  [] kind = "uninstall" -> "locate"
<1>1. Typing /\ Placed /\ Exclusive /\ Backing /\ Staged(o)
  BY DEF IInv
<1>2. /\ op[o].pc = "idle"
      /\ op' = [op EXCEPT ![o] = [Idle EXCEPT !.kind = kind, !.id = id, !.ready = flag, !.pc = x]]
      /\ UNCHANGED <<file, tmp, cfg, catalog, mutex, failed, engines, ready>>
  BY DEF Begin, disk, live
<1>3. /\ mixed \subseteq mixed' /\ mixed' \subseteq Files
      /\ \A p \in Ops \ {o} : op[p].id # None /\ NameOf[op[p].id] = NameOf[id] =>
            NameOf[id] \in mixed'
  BY <1>1, Values DEF Begin, Touches, Typing
<1>4. x \in Stages /\ kind \in Kinds /\ id \in Ids \cup {None}
      /\ x \in {"start", "lookup", "locate"}
      /\ (kind = "uninstall" <=> x = "locate") /\ (kind = "install" <=> x = "start")
  BY DEF Stages, Kinds
<1> HIDE DEF x
<1>5. /\ op' \in [Ops -> Locals] /\ Others(o) /\ op'[o].pc = x /\ op'[o].kind = kind
      /\ op'[o].id = id /\ op'[o].path = None /\ op'[o].read = {}
  BY <1>1, <1>2, <1>4, BeginMoves, Zenon
<1>6. Typing'
  BY <1>1, <1>2, <1>3, <1>5 DEF Typing
<1>7. Staged(o)'
  BY <1>1, <1>2, <1>4, <1>5 DEF Staged
<1>8. Placed'
  BY <1>1, <1>2 DEF Placed
<1>9. Exclusive'
  <2>1. ASSUME NEW p \in Ops, NEW q \in Ops, p # q, op'[p].id \in Ids, op'[q].id \in Ids,
               NameOf[op'[p].id] = NameOf[op'[q].id]
        PROVE  NameOf[op'[p].id] \in mixed'
    <3>1. CASE p # o /\ q # o
      <4>1. op'[p].id = op[p].id /\ op'[q].id = op[q].id
        BY <1>5, <3>1 DEF Others
      <4> QED BY <1>1, <1>3, <2>1, <4>1 DEF Exclusive
    <3>2. CASE p = o
      <4>1. op'[q].id = op[q].id
        BY <1>5, <2>1, <3>2 DEF Others
      <4> QED BY <1>3, <1>5, <2>1, <3>2, <4>1, Values
    <3>3. CASE q = o
      <4>1. op'[p].id = op[p].id
        BY <1>5, <2>1, <3>3 DEF Others
      <4> QED BY <1>3, <1>5, <2>1, <3>3, <4>1, Values
    <3> QED BY <3>1, <3>2, <3>3
  <2> QED BY <2>1 DEF Exclusive
<1>10. Writes(o)' /\ Leaves(o)'
  BY <1>4, <1>5, <1>6, <1>7, OwnParts
<1>11. Backing'
  BY <1>1, <1>2, <1>3, <1>4, <1>5, BackingStays
<1> QED BY <1>2, <1>3, <1>4, <1>5, <1>6, <1>7, <1>8, <1>9, <1>10, <1>11, Steady

(* A step to x that has nothing else to it. *)
LEMMA GotoKeeps ==
    ASSUME IInv, NEW o \in Ops, NEW x \in Stages, Goto(o, x),
           UNCHANGED <<file, tmp, cfg, catalog, failed, mutex, mixed>>,
           engines' \subseteq Nodes \X Ids, ready' \subseteq Ids,
           op[o].pc \notin {"lock", "load", "swap"}, x \in {"find", "lock"},
           x = "find" => op[o].id \in Ids /\ op[o].kind \in {"install", "publish"},
           x = "lock" => op[o].kind = None, Backing'
    PROVE  IInv'
<1>1. Typing /\ Placed /\ Exclusive /\ Backing /\ Staged(o)
  BY DEF IInv
<1>2. /\ op' \in [Ops -> Locals] /\ Others(o) /\ op'[o].pc = x /\ op'[o].kind = op[o].kind
      /\ op'[o].id = op[o].id /\ op'[o].path = op[o].path /\ op'[o].read = op[o].read
  BY <1>1, GotoMoves
<1>3. Typing'
  BY <1>1, <1>2 DEF Typing
<1>4. Staged(o)'
  BY <1>1, <1>2 DEF Staged
<1>5. Placed'
  BY <1>1 DEF Placed
<1>6. Exclusive'
  BY <1>1, <1>2, ExclusiveStays
<1>7. Writes(o)' /\ Leaves(o)'
  BY <1>2, <1>3, <1>4, Values, OwnParts
<1> QED BY <1>2, <1>3, <1>4, <1>5, <1>6, <1>7, Steady

LEMMA HupKeeps ==
    ASSUME IInv, NEW o \in Ops, Hup(o)
    PROVE  IInv'
<1>1. Typing /\ Backing /\ Staged(o)
  BY DEF IInv
<1>2. /\ op[o].pc = "idle" /\ Goto(o, "lock")
      /\ UNCHANGED <<file, tmp, cfg, catalog, mutex, failed, engines, mixed, ready>>
  BY DEF Hup, disk, live, history
<1>3. "lock" \in Stages /\ op[o].kind = None
  BY <1>1, <1>2, Values DEF Stages, Staged
<1>4. Others(o) /\ op'[o].pc = "lock" /\ op'[o].read = op[o].read
  BY <1>1, <1>2, <1>3, GotoMoves
<1>5. Backing'
  BY <1>1, <1>2, <1>4, BackingStays
<1>6. engines' \subseteq Nodes \X Ids /\ ready' \subseteq Ids
  BY <1>1, <1>2 DEF Typing
<1> QED BY <1>2, <1>3, <1>5, <1>6, GotoKeeps

(* An engine more, and the operation is an install: it stages its model hidden. *)
LEMMA StartKeeps ==
    ASSUME IInv, NEW o \in Ops, Start(o)
    PROVE  IInv'
<1>1. Typing /\ Backing /\ Staged(o)
  BY DEF IInv
<1>2. /\ op[o].pc = "start" /\ Goto(o, "find")
      /\ UNCHANGED <<file, tmp, cfg, catalog, mutex, failed, mixed, ready>>
  BY DEF Start, disk, live, history
<1>3. PICK n \in Nodes : engines' = engines \cup {<<n, op[o].id>>}
  BY DEF Start
<1>4. "find" \in Stages /\ op[o].id \in Ids /\ op[o].kind = "install"
  BY <1>1, <1>2 DEF Stages, Staged
<1>5. /\ Others(o) /\ op'[o].pc = "find" /\ op'[o].id = op[o].id /\ op'[o].kind = op[o].kind
      /\ op'[o].read = op[o].read
  BY <1>1, <1>2, <1>4, GotoMoves
<1>6. op'[o].id \in Hosted' /\ ~Ready(o)'
  BY <1>3, <1>4, <1>5 DEF Hosted, HasEngine, Ready
<1>7. engines \subseteq engines' /\ engines' \subseteq Nodes \X Ids /\ ready' \subseteq Ids
  BY <1>1, <1>2, <1>3, <1>4 DEF Typing
<1>8. Backing'
  BY <1>1, <1>2, <1>5, <1>6, <1>7, BackingStays
<1> QED BY <1>2, <1>4, <1>7, <1>8, GotoKeeps

LEMMA StartFailsKeeps ==
    ASSUME IInv, NEW o \in Ops, StartFails(o)
    PROVE  IInv'
<1>1. Typing /\ Staged(o)
  BY DEF IInv
<1>2. /\ op[o].pc = "start" /\ End(o)
      /\ UNCHANGED <<file, tmp, cfg, catalog, mutex, failed, mixed, ready>>
  BY DEF StartFails, disk, live, history
<1>3. op[o].id \in Ids
  BY <1>1, <1>2 DEF Staged
<1>4. engines' = engines \/ \E n \in Nodes : engines' = engines \cup {<<n, op[o].id>>}
  BY DEF StartFails
<1>5. engines \subseteq engines' /\ engines' \subseteq Nodes \X Ids
  BY <1>1, <1>3, <1>4 DEF Typing
<1> QED BY <1>2, <1>5, EndKeeps

(* A call of WriteModel or RemoveModel fails. *)
LEMMA DiskFailsKeeps ==
    ASSUME IInv, NEW o \in Ops, DiskFails(o)
    PROVE  IInv'
<1>1. /\ op[o].pc \in {"create", "write", "rename", "unlink"} /\ End(o)
      /\ UNCHANGED <<file, tmp, cfg, catalog, mutex, failed, engines, mixed, ready>>
  BY DEF DiskFails, disk, live, history
<1>2. engines \subseteq engines' /\ engines' \subseteq Nodes \X Ids
  BY <1>1 DEF IInv, Typing
<1> QED BY <1>1, <1>2, EndKeeps

(* An entry of the configuration is of a model with an engine. *)
LEMMA LookupKeeps ==
    ASSUME IInv, NEW o \in Ops, Lookup(o)
    PROVE  IInv'
<1>1. Typing /\ Backing /\ Staged(o)
  BY DEF IInv
<1>2. /\ op[o].pc = "lookup" /\ UNCHANGED <<file, tmp, cfg, catalog, mutex, failed, engines, mixed>>
  BY DEF Lookup, disk, live
<1>3. CASE \E c \in cfg : c.id = op[o].id
  <2>1. Goto(o, "find") /\ ready' = ready \cup (IF op[o].ready THEN {op[o].id} ELSE {})
    BY <1>3 DEF Lookup
  <2>2. "find" \in Stages /\ op[o].id \in Ids /\ op[o].kind \in {"install", "publish"}
    BY <1>1, <1>2 DEF Stages, Staged
  <2>3. /\ Others(o) /\ op'[o].pc = "find" /\ op'[o].id = op[o].id /\ op'[o].kind = op[o].kind
        /\ op'[o].read = op[o].read /\ op'[o].ready = op[o].ready
    BY <1>1, <2>1, <2>2, GotoMoves
  <2>4. ready \subseteq ready' /\ ready' \subseteq Ids /\ (op[o].ready => op[o].id \in ready')
    BY <1>1, <2>1, <2>2 DEF Typing
  <2>5. Cared(op[o].id)' => op'[o].id \in Hosted' /\ (Ready(o)' => op'[o].id \in ready')
    <3>1. Ready(o)' => op'[o].id \in ready'
      BY <2>3, <2>4 DEF Ready
    <3>2. Cared(op[o].id)' => Cared(op[o].id)
      BY <1>2, <2>3 DEF Cared
    <3>3. Cared(op[o].id) => op[o].id \in Hosted
      BY <1>1, <1>3 DEF Backing, Backed
    <3> QED BY <1>2, <2>3, <3>1, <3>2, <3>3, HostedSame
  <2>6. Backing'
    BY <1>1, <1>2, <2>3, <2>4, <2>5, BackingStays
  <2>7. engines' \subseteq Nodes \X Ids
    BY <1>1, <1>2, <2>2 DEF Typing
  <2> QED BY <1>2, <2>1, <2>2, <2>4, <2>6, <2>7, GotoKeeps
<1>4. CASE ~\E c \in cfg : c.id = op[o].id
  <2>1. End(o) /\ UNCHANGED ready
    BY <1>4 DEF Lookup
  <2>2. engines \subseteq engines' /\ engines' \subseteq Nodes \X Ids
    BY <1>1, <1>2 DEF Typing
  <2> QED BY <1>2, <2>1, <2>2, EndKeeps
<1> QED BY <1>3, <1>4

(* A model is found where its id says. *)
LEMMA FindIs ==
    ASSUME Typing, Placed, NEW i \in Ids, NEW f \in FindModelFile(i)
    PROVE  f = NameOf[i]
<1>1. f \in Files /\ (f = NameOf[i] \/ (file[f] # None /\ file[f].id = i))
  BY Values DEF FindModelFile, Declares
<1>2. file[f] # None /\ file[f].id = i => file[f] \in Model
  <2>1. Partial.id = None
    BY DEF Partial
  <2> QED BY <1>1, <2>1, Values DEF Typing
<1> QED BY <1>1, <1>2 DEF Placed

(* A file is chosen, to be written or to be removed. *)
LEMMA PathKeeps ==
    ASSUME IInv, NEW o \in Ops, NEW x \in {"create", "unlink"}, NEW f,
           op[o].id \in Ids, f = NameOf[op[o].id],
           op' = [op EXCEPT ![o].pc = x, ![o].path = f],
           UNCHANGED <<file, tmp, cfg, catalog, mutex, failed, engines, mixed, ready>>,
           op[o].pc = (IF x = "create" THEN "find" ELSE "locate")
    PROVE  IInv'
<1>1. Typing /\ Placed /\ Exclusive /\ Backing /\ Staged(o)
  BY DEF IInv
<1>2. x \in Stages /\ f \in Files
  BY Values DEF Stages
<1>3. /\ op' \in [Ops -> Locals] /\ Others(o) /\ op'[o].pc = x /\ op'[o].kind = op[o].kind
      /\ op'[o].id = op[o].id /\ op'[o].path = f /\ op'[o].read = op[o].read
      /\ op'[o].ready = op[o].ready
  <2> DEFINE l1 == [op[o] EXCEPT !.pc = x]
             l2 == [l1 EXCEPT !.path = f]
  <2>1. op' = [op EXCEPT ![o] = l2]
    OBVIOUS
  <2>2. /\ l1 \in Locals /\ l1.pc = x /\ l1.kind = op[o].kind /\ l1.id = op[o].id
        /\ l1.ready = op[o].ready /\ l1.read = op[o].read
    BY <1>1, <1>2, Types, SetPc
  <2> HIDE DEF l1
  <2>3. /\ l2 \in Locals /\ l2.pc = l1.pc /\ l2.kind = l1.kind /\ l2.id = l1.id /\ l2.path = f
        /\ l2.ready = l1.ready /\ l2.read = l1.read
    BY <1>2, <2>2, SetPath
  <2> HIDE DEF l2
  <2> QED BY <1>1, <2>1, <2>2, <2>3, OneOp
<1>4. Typing'
  BY <1>1, <1>3 DEF Typing
<1>5. Staged(o)'
  <2>1. CASE x = "create"
    BY <1>1, <1>2, <1>3, <2>1, Values DEF Staged
  <2>2. CASE x = "unlink"
    BY <1>1, <1>2, <1>3, <2>2, Values DEF Staged
  <2> QED BY <2>1, <2>2
<1>6. Placed'
  BY <1>1 DEF Placed
<1>7. Exclusive'
  BY <1>1, <1>3, ExclusiveStays
<1>8. Writes(o)' /\ Leaves(o)'
  BY <1>3, <1>4, <1>5, OwnParts
<1>9. op'[o].pc \in {"find", "create", "write", "rename"} /\ Cared(op[o].id)' =>
        op'[o].id \in Hosted' /\ (Ready(o)' => op'[o].id \in ready')
  <2>1. (Ready(o)' <=> Ready(o)) /\ (Cared(op[o].id)' => Cared(op[o].id))
    BY <1>3 DEF Ready, Cared
  <2> QED BY <1>1, <1>3, <2>1, HostedSame DEF Backing
<1>10. Backing'
  BY <1>1, <1>3, <1>9, BackingStays
<1> QED BY <1>1, <1>3, <1>4, <1>5, <1>6, <1>7, <1>8, <1>10, Steady

LEMMA FindKeeps ==
    ASSUME IInv, NEW o \in Ops, Find(o)
    PROVE  IInv'
<1>1. Typing /\ Placed /\ Staged(o)
  BY DEF IInv
<1>2. /\ op[o].pc = "find"
      /\ UNCHANGED <<file, tmp, cfg, catalog, mutex, failed, engines, mixed, ready>>
  BY DEF Find, disk, live, history
<1>3. op[o].id \in Ids
  BY <1>1, <1>2 DEF Staged
<1>4. PICK f \in FindModelFile(op[o].id) \cup {NameOf[op[o].id]} :
        op' = [op EXCEPT ![o].pc = "create", ![o].path = f]
  BY DEF Find
<1>5. f = NameOf[op[o].id]
  BY <1>1, <1>3, <1>4, FindIs
<1> QED BY <1>2, <1>3, <1>4, <1>5, PathKeeps

LEMMA LocateKeeps ==
    ASSUME IInv, NEW o \in Ops, Locate(o)
    PROVE  IInv'
<1>1. Typing /\ Placed /\ Staged(o)
  BY DEF IInv
<1>2. /\ op[o].pc = "locate"
      /\ UNCHANGED <<file, tmp, cfg, catalog, mutex, failed, engines, mixed, ready>>
  BY DEF Locate, disk, live, history
<1>3. op[o].id \in Ids
  BY <1>1, <1>2 DEF Staged
<1>4. CASE FindModelFile(op[o].id) = {}
  <2>1. End(o)
    BY <1>4 DEF Locate
  <2>2. engines \subseteq engines' /\ engines' \subseteq Nodes \X Ids
    BY <1>1, <1>2 DEF Typing
  <2> QED BY <1>2, <2>1, <2>2, EndKeeps
<1>5. CASE FindModelFile(op[o].id) # {}
  <2>1. PICK f \in FindModelFile(op[o].id) : op' = [op EXCEPT ![o].pc = "unlink", ![o].path = f]
    BY <1>5 DEF Locate
  <2>2. f = NameOf[op[o].id]
    BY <1>1, <1>3, <2>1, FindIs
  <2> QED BY <1>2, <1>3, <2>1, <2>2, PathKeeps
<1> QED BY <1>4, <1>5

LEMMA CreateKeeps ==
    ASSUME IInv, NEW o \in Ops, Create(o)
    PROVE  IInv'
<1>1. Typing /\ Placed /\ Exclusive /\ Backing /\ Staged(o)
  BY DEF IInv
<1>2. /\ op[o].pc = "create" /\ tmp' = [tmp EXCEPT ![op[o].path] = Partial]
      /\ op' = [op EXCEPT ![o].pc = "write", ![o].open = "tmp"]
      /\ UNCHANGED <<file, cfg, catalog, mutex, failed, engines, mixed, ready>>
  BY DEF Create, live, history
<1>3. "write" \in Stages /\ "tmp" \in Opened /\ op[o].path \in Files
  BY <1>1, <1>2, Types DEF Stages, Opened, Staged
<1>4. /\ op' \in [Ops -> Locals] /\ Others(o) /\ op'[o].pc = "write" /\ op'[o].kind = op[o].kind
      /\ op'[o].id = op[o].id /\ op'[o].path = op[o].path /\ op'[o].read = op[o].read
      /\ op'[o].ready = op[o].ready /\ op'[o].open = "tmp"
  <2>1. op' = [op EXCEPT ![o] = [op[o] EXCEPT !.pc = "write", !.open = "tmp"]]
    BY <1>2
  <2> QED BY <1>1, <1>3, <2>1, OpenMoves, ZenonT(60)
<1>5. /\ tmp' \in [Files -> Model \cup {Partial, None}] /\ tmp'[op[o].path] = Partial
      /\ \A f \in Files : f # op[o].path => tmp'[f] = tmp[f]
  BY <1>1, <1>2, <1>3 DEF Typing
<1>6. Typing'
  BY <1>1, <1>2, <1>4, <1>5 DEF Typing
<1>7. Staged(o)'
  BY <1>1, <1>2, <1>4 DEF Staged
<1>8. Placed'
  BY <1>1, <1>2, <1>3, <1>5, Values DEF Placed
<1>9. Exclusive'
  BY <1>1, <1>2, <1>4, ExclusiveStays
<1>10. Writes(o)' /\ Leaves(o)'
  BY <1>4 DEF Writes, Leaves
<1>11. op'[o].pc \in {"find", "create", "write", "rename"} /\ Cared(op[o].id)' =>
        op'[o].id \in Hosted' /\ (Ready(o)' => op'[o].id \in ready')
  <2>1. (Ready(o)' <=> Ready(o)) /\ (Cared(op[o].id)' => Cared(op[o].id))
    BY <1>2, <1>4 DEF Ready, Cared
  <2> QED BY <1>1, <1>2, <1>4, <2>1, HostedSame DEF Backing
<1>12. Backing'
  BY <1>1, <1>2, <1>4, <1>11, BackingStays
<1> QED BY <1>2, <1>4, <1>5, <1>6, <1>7, <1>8, <1>9, <1>10, <1>12, Steady

-----------------------------------------------------------------------------
(* The directory changes *)

(* ... in the file of one operation, which then reloads unless it has met
   another. *)
LEMMA FileStep ==
    ASSUME IInv, NEW o \in Ops, op[o].path \in Files, op[o].pc \notin {"lock", "load", "swap"},
           Typing', Others(o), op'[o].read = op[o].read,
           UNCHANGED <<cfg, catalog, mutex, failed, engines, mixed, ready>>,
           \A f \in Files : f # op[o].path => file'[f] = file[f] /\ tmp'[f] = tmp[f],
           file'[op[o].path] \in Model =>
               Backed(file'[op[o].path]) /\ NameOf[file'[op[o].path].id] = op[o].path,
           tmp'[op[o].path] \in Model => NameOf[tmp'[op[o].path].id] = op[o].path,
           op[o].path \notin mixed => file'[op[o].path] # Partial,
           op'[o].pc = "lock" \/ op[o].path \in mixed,
           op'[o].pc \in {"lock", "rename"},
           op'[o].pc = "rename" => op[o].pc = "write" /\ (Ready(o)' <=> Ready(o)),
           op'[o].id = op[o].id, Staged(o)', Writes(o)', Leaves(o)'
    PROVE  IInv'
<1>1. /\ Typing /\ Placed /\ Exclusive /\ CompleteFiles /\ Current /\ Backing
      /\ (\A q \in Ops : Staged(q)) /\ (\A q \in Ops : Writes(q)) /\ (\A q \in Ops : Leaves(q))
  BY DEF IInv
<1> DEFINE F == op[o].path
<1>2. \A q \in Ops : Staged(q)'
  BY <1>1, StagedOthers
<1>3. \A q \in Ops : Writes(q)'
  BY <1>1, WritesOthers
<1>4. Exclusive'
  BY <1>1, ExclusiveStays
<1>5. Placed'
  BY <1>1 DEF Placed
<1>6. CompleteFiles'
  BY <1>1 DEF CompleteFiles
<1>7. Current'
  <2>1. op'[o].pc = "lock" => Pending'
    BY DEF Pending
  <2> QED BY <2>1 DEF Current
<1>8. \A i : Cared(i)' <=> Cared(i)
  BY DEF Cared
<1>9. Backing'
  <2>1. \A d : Backed(d)' <=> Backed(d)
    BY <1>8, HostedSame DEF Backed
  <2>2. \A f \in Files : file'[f] \in Model => Backed(file[f])'
    <3>1. \A f \in Files : file'[f] \in Model => Backed(file'[f])
      BY <1>1 DEF Backing
    <3> QED BY <1>8, <3>1, HostedSame DEF Backed
  <2>3. (\A d \in cfg' : Backed(d)') /\ (\A d \in catalog' : Backed(d)')
    BY <1>1, <2>1 DEF Backing
  <2>4. \A q \in Ops : op'[q].read = op[q].read
    BY DEF Others
  <2>5. \A q \in Ops : \A x \in op'[q].read : Backed(x[2])'
    BY <1>1, <2>1, <2>4 DEF Backing
  <2>6. ASSUME NEW q \in Ops, op'[q].pc \in {"find", "create", "write", "rename"}, Cared(op[q].id)'
        PROVE  op'[q].id \in Hosted' /\ (Ready(q)' => op'[q].id \in ready')
    <3>1. op[q].pc \in {"find", "create", "write", "rename"} /\ op'[q].id = op[q].id
      BY <2>6 DEF Others
    <3>2. Ready(q)' <=> Ready(q)
      BY <2>6 DEF Others, Ready
    <3>3. Cared(op[q].id)
      BY <2>6, <3>1 DEF Cared
    <3> QED BY <1>1, <3>1, <3>2, <3>3, HostedSame DEF Backing
  <2> QED BY <2>2, <2>3, <2>5, <2>6 DEF Backing
<1>10. ASSUME NEW q \in Ops, q # o PROVE Leaves(q)'
  <2>1. op'[q].pc = op[q].pc /\ op'[q].kind = op[q].kind /\ op'[q].id = op[q].id
        /\ op'[q].read = op[q].read
    BY <1>10 DEF Others
  <2>2. Cared(op[q].id)' => Cared(op[q].id)
    BY <2>1 DEF Cared
  <2>3. \A p \in Ops : op'[p].read = op[p].read
    BY DEF Others
  <2>4. SUFFICES ASSUME op[q].kind \in {"install", "uninstall"}, Cared(op[q].id)
                 PROVE  Leaves(q)'
    BY <2>1, <2>2 DEF Leaves
  <2>5. op[q].id \in Ids /\ NameOf[op[q].id] \notin mixed /\ Leaves(q)
    BY <1>1, <2>4 DEF Staged, Cared
  <2>6. NameOf[op[q].id] # F
    BY <1>1, <1>10, <2>5, Met
  <2>7. op[q].pc \in {"lock", "load", "swap", "stop"} =>
          \A f \in Files : file'[f] \in Model => Off(op[q].kind, op[q].id, file'[f])
    <3>1. op[q].pc \in {"lock", "load", "swap", "stop"} =>
            \A f \in Files : file[f] \in Model => Off(op[q].kind, op[q].id, file[f])
      BY <2>4, <2>5 DEF Leaves
    <3>2. file'[F] \in Model => Off(op[q].kind, op[q].id, file'[F])
      BY <2>6 DEF Off
    <3> QED BY <3>1, <3>2
  <2>8. op[q].pc \in {"load", "swap"} => \A x \in op[q].read : Off(op[q].kind, op[q].id, x[2])
    BY <2>4, <2>5 DEF Leaves
  <2>9. op[q].pc \in {"swap", "stop"} => \A d \in cfg' : Off(op[q].kind, op[q].id, d)
    BY <2>4, <2>5 DEF Leaves
  <2>10. op[q].pc = "stop" =>
            /\ Without(catalog', op[q].id)
            /\ \A p \in Ops : \A x \in op'[p].read : x[2].id # op[q].id
    BY <2>3, <2>4, <2>5 DEF Leaves
  <2> QED BY <2>1, <2>7, <2>8, <2>9, <2>10 DEF Leaves, Without
<1> QED BY <1>2, <1>3, <1>4, <1>5, <1>6, <1>7, <1>9, <1>10 DEF IInv

(* The document an operation writes. *)
LEMMA DocFields ==
    ASSUME Typing, NEW o \in Ops, op[o].id \in Ids, NEW d, d = [id |-> op[o].id, ready |-> Ready(o)]
    PROVE  d \in Model /\ d.id = op[o].id /\ d.ready = Ready(o)
<1>1. Ready(o) \in BOOLEAN
  BY DEF Ready
<1> HIDE DEF Ready
<1> QED BY <1>1 DEF Model

LEMMA WriteKeeps ==
    ASSUME IInv, NEW o \in Ops, Write(o)
    PROVE  IInv'
<1> DEFINE doc == [id |-> op[o].id, ready |-> Ready(o)]
<1>1. /\ Typing /\ Placed /\ Exclusive /\ Backing /\ Staged(o) /\ Writes(o)
  BY DEF IInv
<1>2. /\ op[o].pc = "write"
      /\ tmp' = (IF op[o].open = "tmp" THEN [tmp EXCEPT ![op[o].path] = doc] ELSE tmp)
      /\ file' = (IF op[o].open = "file" THEN [file EXCEPT ![op[o].path] = doc] ELSE file)
      /\ op' = [op EXCEPT ![o].pc = "rename", ![o].open = None]
      /\ UNCHANGED <<cfg, catalog, mutex, failed, engines, mixed, ready>>
  BY DEF Write, live, history
<1>3. /\ "rename" \in Stages /\ None \in Opened /\ op[o].path \in Files /\ op[o].id \in Ids
      /\ op[o].path = NameOf[op[o].id] /\ op[o].kind # "uninstall"
  BY <1>1, <1>2, Types DEF Stages, Opened, Staged
<1>4. doc \in Model /\ doc.id = op[o].id /\ doc.ready = Ready(o)
  BY <1>1, <1>3, DocFields
<1>5. /\ op' \in [Ops -> Locals] /\ Others(o) /\ op'[o].pc = "rename" /\ op'[o].kind = op[o].kind
      /\ op'[o].id = op[o].id /\ op'[o].path = op[o].path /\ op'[o].read = op[o].read
      /\ op'[o].ready = op[o].ready
  <2> DEFINE l1 == [op[o] EXCEPT !.pc = "rename"]
             l2 == [l1 EXCEPT !.open = None]
  <2>1. op' = [op EXCEPT ![o] = l2]
    BY <1>2
  <2>2. /\ l1 \in Locals /\ l1.pc = "rename" /\ l1.kind = op[o].kind /\ l1.id = op[o].id
        /\ l1.ready = op[o].ready /\ l1.read = op[o].read /\ l1.path = op[o].path
    BY <1>1, <1>3, Types, SetPc
  <2> HIDE DEF l1
  <2>3. /\ l2 \in Locals /\ l2.pc = l1.pc /\ l2.kind = l1.kind /\ l2.id = l1.id
        /\ l2.ready = l1.ready /\ l2.read = l1.read /\ l2.path = l1.path
    BY <1>3, <2>2, SetOpen
  <2> HIDE DEF l2
  <2> QED BY <1>1, <2>1, <2>2, <2>3, OneOp
<1> HIDE DEF doc
<1>6. (Ready(o)' <=> Ready(o)) /\ Ready(o)' = Ready(o)
  BY <1>5 DEF Ready
<1>7. /\ tmp' \in [Files -> Model \cup {Partial, None}]
      /\ file' \in [Files -> Model \cup {Partial, None}]
      /\ \A f \in Files : f # op[o].path => tmp'[f] = tmp[f] /\ file'[f] = file[f]
      /\ tmp'[op[o].path] = (IF op[o].open = "tmp" THEN doc ELSE tmp[op[o].path])
      /\ file'[op[o].path] = (IF op[o].open = "file" THEN doc ELSE file[op[o].path])
  BY <1>1, <1>2, <1>3, <1>4 DEF Typing
<1>8. Typing'
  BY <1>1, <1>2, <1>5, <1>7 DEF Typing
<1>9. Staged(o)'
  BY <1>1, <1>2, <1>5 DEF Staged
<1>10. Leaves(o)'
  BY <1>3, <1>5 DEF Leaves
<1>11. op[o].path \notin mixed => op[o].open = "tmp"
  BY <1>1, <1>2 DEF Writes
<1>12. Writes(o)'
  <2>1. op[o].path \notin mixed => tmp'[op[o].path] = doc
    BY <1>7, <1>11
  <2>2. doc = [id |-> op[o].id, ready |-> Ready(o)]
    BY DEF doc
  <2> QED BY <1>2, <1>5, <1>6, <2>1, <2>2 DEF Writes
<1>13. CASE op[o].open # "file"
  <2>1. file' = file
    BY <1>2, <1>13
  <2>2. Placed'
    BY <1>1, <1>3, <1>4, <1>7, <2>1 DEF Placed
  <2>3. Exclusive'
    BY <1>1, <1>2, <1>5, ExclusiveStays
  <2>4. Cared(op[o].id)' => op'[o].id \in Hosted' /\ (Ready(o)' => op'[o].id \in ready')
    <3>1. Cared(op[o].id)' => Cared(op[o].id)
      BY <1>2, <1>5 DEF Cared
    <3> QED BY <1>1, <1>2, <1>5, <1>6, <3>1, HostedSame DEF Backing
  <2>5. Backing'
    BY <1>1, <1>2, <1>5, <2>1, <2>4, BackingStays
  <2>6. \A f \in Files : tmp'[f] # tmp[f] => f = op[o].path
    BY <1>7
  <2> QED BY <1>2, <1>5, <1>8, <1>9, <1>10, <1>12, <2>1, <2>2, <2>3, <2>5, <2>6, Steady
<1>14. CASE op[o].open = "file"
  <2>1. op[o].path \in mixed
    BY <1>11, <1>14
  <2>2. file'[op[o].path] = doc /\ tmp'[op[o].path] = tmp[op[o].path]
    BY <1>7, <1>14
  <2>3. Backed(file'[op[o].path]) /\ NameOf[file'[op[o].path].id] = op[o].path
    BY <1>3, <1>4, <2>1, <2>2 DEF Backed, Cared
  <2>4. tmp'[op[o].path] \in Model => NameOf[tmp'[op[o].path].id] = op[o].path
    BY <1>1, <1>3, <2>2 DEF Placed
  <2> QED BY <1>2, <1>3, <1>5, <1>6, <1>7, <1>8, <1>9, <1>10, <1>12, <2>1, <2>3, <2>4, FileStep
<1> QED BY <1>13, <1>14

(* What is renamed is the operation's own document, or two have met. *)
LEMMA RenameKeeps ==
    ASSUME IInv, NEW o \in Ops, Rename(o)
    PROVE  IInv'
<1> DEFINE F == op[o].path
<1>1. /\ Typing /\ Placed /\ Exclusive /\ Backing /\ Staged(o) /\ Writes(o)
  BY DEF IInv
<1>2. /\ op[o].pc = "rename"
      /\ UNCHANGED <<cfg, catalog, mutex, failed, engines, mixed, ready>>
  BY DEF Rename, live, history
<1>3. F \in Files /\ op[o].id \in Ids /\ F = NameOf[op[o].id] /\ op[o].kind # "uninstall"
  BY <1>1, <1>2, Types DEF Staged
<1>4. CASE tmp[F] = None
  <2>1. End(o) /\ UNCHANGED <<file, tmp>>
    BY <1>4 DEF Rename
  <2>2. engines \subseteq engines' /\ engines' \subseteq Nodes \X Ids
    BY <1>1, <1>2 DEF Typing
  <2> QED BY <1>2, <2>1, <2>2, EndKeeps
<1>5. CASE tmp[F] # None
  <2>1. file' = [file EXCEPT ![F] = tmp[F]] /\ tmp' = [tmp EXCEPT ![F] = None]
    BY <1>5 DEF Rename
  <2>2. Settle(o, TRUE)
    BY <1>5 DEF Rename
  <2>3. /\ op' \in [Ops -> Locals] /\ Others(o) /\ op'[o].pc = "lock"
        /\ op'[o].kind = op[o].kind /\ op'[o].id = op[o].id /\ op'[o].path = None
        /\ op'[o].read = op[o].read
    BY <1>1, <1>3, <2>2, LeaveMoves
  <2>4. /\ file' \in [Files -> Model \cup {Partial, None}]
        /\ tmp' \in [Files -> Model \cup {Partial, None}]
        /\ \A f \in Files : f # F => tmp'[f] = tmp[f] /\ file'[f] = file[f]
        /\ file'[F] = tmp[F] /\ tmp'[F] = None
    BY <1>1, <1>3, <2>1 DEF Typing
  <2>5. Typing'
    BY <1>1, <1>2, <2>3, <2>4 DEF Typing
  <2>6. Staged(o)'
    BY <1>1, <1>2, <2>3 DEF Staged
  <2>7. Writes(o)'
    BY <2>3 DEF Writes
  <2>8. tmp[F] \in Model => NameOf[tmp[F].id] = F
    BY <1>1, <1>3 DEF Placed
  <2>9. F \notin mixed => tmp[F] = [id |-> op[o].id, ready |-> Ready(o)]
    BY <1>1, <1>2 DEF Writes
  <2>10. F \notin mixed => tmp[F] \in Model /\ tmp[F].id = op[o].id /\ tmp[F].ready = Ready(o)
    BY <1>1, <1>3, <2>9, DocFields
  <2>11. tmp[F] \in Model => Backed(tmp[F])
    <3>1. CASE F \in mixed
      BY <2>8, <3>1 DEF Backed, Cared
    <3>2. CASE F \notin mixed
      BY <1>1, <1>2, <2>10, <3>2 DEF Backing, Backed
    <3> QED BY <3>1, <3>2
  <2>12. F \notin mixed => file'[F] # Partial
    BY <2>4, <2>10, Values
  <2>13. tmp'[F] \notin Model
    BY <2>4, Values
  <2>14. Leaves(o)'
    <3>1. SUFFICES ASSUME op[o].kind = "install", F \notin mixed
                   PROVE  \A f \in Files : file'[f] \in Model =>
                            Off(op[o].kind, op[o].id, file'[f])
      BY <1>2, <1>3, <2>3 DEF Leaves, Cared
    <3>2. Off(op[o].kind, op[o].id, file'[F])
      BY <2>4, <2>10, <3>1 DEF Off, Ready
    <3>3. \A f \in Files : f # F /\ file[f] \in Model => file[f].id # op[o].id
      BY <1>1, <1>3 DEF Placed
    <3> QED BY <2>4, <3>2, <3>3 DEF Off
  <2> QED BY <1>2, <1>3, <2>3, <2>4, <2>5, <2>6, <2>7, <2>8, <2>11, <2>12, <2>13, <2>14, FileStep
<1> QED BY <1>4, <1>5

LEMMA UnlinkKeeps ==
    ASSUME IInv, NEW o \in Ops, Unlink(o)
    PROVE  IInv'
<1> DEFINE F == op[o].path
<1>1. /\ Typing /\ Placed /\ Exclusive /\ Backing /\ Staged(o) /\ Writes(o)
  BY DEF IInv
<1>2. /\ op[o].pc = "unlink"
      /\ UNCHANGED <<tmp, cfg, catalog, mutex, failed, engines, mixed, ready>>
  BY DEF Unlink, live, history
<1>3. F \in Files /\ op[o].id \in Ids /\ F = NameOf[op[o].id]
  BY <1>1, <1>2, Types DEF Staged
<1>4. CASE file[F] = None
  <2>1. End(o) /\ UNCHANGED file
    BY <1>4 DEF Unlink
  <2>2. engines \subseteq engines' /\ engines' \subseteq Nodes \X Ids
    BY <1>1, <1>2 DEF Typing
  <2> QED BY <1>2, <2>1, <2>2, EndKeeps
<1>5. CASE file[F] # None
  <2>1. file' = [file EXCEPT ![F] = None]
    BY <1>5 DEF Unlink
  <2>2. Settle(o, FALSE)
    BY <1>5 DEF Unlink
  <2>3. /\ op' \in [Ops -> Locals] /\ Others(o) /\ op'[o].pc = "lock"
        /\ op'[o].kind = op[o].kind /\ op'[o].id = op[o].id /\ op'[o].path = None
        /\ op'[o].read = op[o].read
    BY <1>1, <1>3, <2>2, LeaveMoves
  <2>4. /\ file' \in [Files -> Model \cup {Partial, None}]
        /\ \A f \in Files : f # F => tmp'[f] = tmp[f] /\ file'[f] = file[f]
        /\ file'[F] = None /\ tmp'[F] = tmp[F]
    BY <1>1, <1>2, <1>3, <2>1 DEF Typing
  <2>5. Typing'
    BY <1>1, <1>2, <2>3, <2>4 DEF Typing
  <2>6. Staged(o)'
    BY <1>1, <1>2, <2>3 DEF Staged
  <2>7. Writes(o)'
    BY <2>3 DEF Writes
  <2>8. \A f \in Files : file'[f] \in Model => file'[f].id # op[o].id
    <3>1. file'[F] \notin Model
      BY <2>4, Values
    <3> QED BY <1>1, <1>3, <2>4, <3>1 DEF Placed
  <2>9. Leaves(o)'
    BY <2>3, <2>8 DEF Leaves, Off
  <2>10. file'[F] \notin Model /\ file'[F] # Partial
    BY <2>4, Values
  <2>11. tmp'[F] \in Model => NameOf[tmp'[F].id] = F
    BY <1>1, <1>3, <2>4 DEF Placed
  <2> QED BY <1>2, <1>3, <2>3, <2>4, <2>5, <2>6, <2>7, <2>9, <2>10, <2>11, FileStep
<1> QED BY <1>4, <1>5

(* The engine goes when no document of its model is left. *)
LEMMA StopEngineKeeps ==
    ASSUME IInv, NEW o \in Ops, StopEngine(o)
    PROVE  IInv'
<1>1. /\ Typing /\ Placed /\ Exclusive /\ Backing /\ Staged(o) /\ Leaves(o)
  BY DEF IInv
<1>2. /\ op[o].pc = "stop" /\ engines' \subseteq engines /\ End(o)
      /\ \A n \in Nodes : \A i : <<n, i>> \in engines /\ i # op[o].id => <<n, i>> \in engines'
      /\ UNCHANGED <<file, tmp, cfg, catalog, mutex, failed, mixed, ready>>
  BY DEF StopEngine, disk, live, history
<1>3. /\ op' \in [Ops -> Locals] /\ Others(o) /\ op'[o].pc = "idle" /\ op'[o].kind = None
      /\ op'[o].id = None /\ op'[o].path = None /\ op'[o].read = {}
  BY <1>1, <1>2, EndMoves
<1>4. op[o].kind = "uninstall" /\ op[o].id \in Ids
  BY <1>1, <1>2 DEF Staged
<1>5. Typing'
  BY <1>1, <1>2, <1>3 DEF Typing
<1>6. Staged(o)'
  BY <1>1, <1>2, <1>3, Values DEF Staged
<1>7. Placed'
  BY <1>1, <1>2 DEF Placed
<1>8. Exclusive'
  BY <1>1, <1>2, <1>3, ExclusiveStays
<1>9. Writes(o)' /\ Leaves(o)'
  BY <1>3, <1>5, <1>6, Values, OwnParts
<1>10. Backing'
  <2>1. \A i : Cared(i)' <=> Cared(i)
    BY <1>2 DEF Cared
  <2>2. \A i : i \in Hosted /\ i # op[o].id => i \in Hosted'
    BY <1>2 DEF Hosted, HasEngine
  <2>3. \A d : Backed(d) /\ (Cared(d.id) => d.id # op[o].id) => Backed(d)'
    BY <1>2, <2>1, <2>2 DEF Backed
  <2>4. Cared(op[o].id) =>
          /\ \A f \in Files : file[f] \in Model => file[f].id # op[o].id
          /\ \A d \in cfg : d.id # op[o].id
          /\ \A d \in catalog : d.id # op[o].id
          /\ \A p \in Ops : \A x \in op[p].read : x[2].id # op[o].id
    BY <1>1, <1>2, <1>4 DEF Leaves, Without, Off
  <2>5. \A f \in Files : file[f] \in Model => Backed(file[f])'
    <3>1. ASSUME NEW f \in Files, file[f] \in Model PROVE Backed(file[f])'
      <4>1. Backed(file[f]) /\ (Cared(file[f].id) => file[f].id # op[o].id)
        BY <1>1, <2>4, <3>1 DEF Backing
      <4> QED BY <1>2, <2>1, <2>2, <4>1 DEF Backed
    <3> QED BY <3>1
  <2>6. (\A d \in cfg' : Backed(d)') /\ (\A d \in catalog' : Backed(d)')
    BY <1>1, <1>2, <2>3, <2>4 DEF Backing
  <2>7. \A q \in Ops : \A x \in op'[q].read : x \in op[q].read
    BY <1>3 DEF Others
  <2>8. \A q \in Ops : \A x \in op'[q].read : Backed(x[2])'
    BY <1>1, <2>3, <2>4, <2>7 DEF Backing
  <2>9. ASSUME NEW q \in Ops, op'[q].pc \in {"find", "create", "write", "rename"}, Cared(op[q].id)'
        PROVE  op'[q].id \in Hosted' /\ (Ready(q)' => op'[q].id \in ready')
    <3>1. q # o
      BY <1>3, <2>9
    <3>2. op'[q].pc = op[q].pc /\ op'[q].id = op[q].id /\ (Ready(q)' <=> Ready(q))
      BY <1>3, <3>1 DEF Others, Ready
    <3>3. Cared(op[q].id) /\ Staged(q)
      BY <1>2, <2>9, <3>2 DEF Cared, IInv
    <3>4. op[q].id # op[o].id
      BY <1>1, <1>4, <2>9, <3>1, <3>2, <3>3 DEF Exclusive, Cared, Staged
    <3>5. op[q].id \in Hosted /\ (Ready(q) => op[q].id \in ready)
      BY <1>1, <2>9, <3>2, <3>3 DEF Backing
    <3> QED BY <1>2, <2>2, <3>2, <3>4, <3>5
  <2> QED BY <1>2, <2>5, <2>6, <2>8, <2>9 DEF Backing
<1> QED BY <1>2, <1>3, <1>5, <1>6, <1>7, <1>8, <1>9, <1>10, Steady

-----------------------------------------------------------------------------
(* A reload *)

LEMMA ModelsAre ==
    ASSUME Typing, NEW o \in Ops
    PROVE  /\ Models(op[o].read) \subseteq Model
           /\ \A d \in Models(op[o].read) :
                d.id \in Base \/ \E x \in op[o].read : d = x[2]
<1>1. \A x \in op[o].read : x[2] \in Model
  BY Types
<1>2. \A d \in Declared : d \in Model /\ d.id \in Base
  <2>1. \A i \in Base : [id |-> i, ready |-> TRUE] \in Model /\ [id |-> i, ready |-> TRUE].id = i
    BY Values, ModelFields
  <2> QED BY <2>1 DEF Declared
<1> QED BY <1>1, <1>2 DEF Models

(* Only one operation reloads. *)
LEMMA OneReload ==
    ASSUME \A q \in Ops : Staged(q), NEW o \in Ops, mutex \in {o, None}
    PROVE  \A q \in Ops \ {o} : op[q].pc \notin {"load", "swap"} /\ op[q].read = {}
BY Values DEF Staged

LEMMA LockKeeps ==
    ASSUME IInv, NEW o \in Ops, Lock(o)
    PROVE  IInv'
<1>1. /\ Typing /\ Placed /\ Exclusive /\ CompleteFiles /\ Current /\ Backing
      /\ (\A q \in Ops : Staged(q)) /\ (\A q \in Ops : Writes(q)) /\ (\A q \in Ops : Leaves(q))
  BY DEF IInv
<1>2. /\ op[o].pc = "lock" /\ mutex = None /\ mutex' = o
      /\ op' = [op EXCEPT ![o].pc = "load", ![o].todo = Listed, ![o].read = {}]
      /\ UNCHANGED <<file, tmp, cfg, catalog, failed, engines, mixed, ready>>
  BY DEF Lock, disk, history
<1>3. "load" \in Stages /\ Listed \in SUBSET Files /\ {} \in SUBSET (Files \X Model)
  BY DEF Stages, Listed
<1>4. /\ op' \in [Ops -> Locals] /\ Others(o) /\ op'[o].pc = "load" /\ op'[o].kind = op[o].kind
      /\ op'[o].id = op[o].id /\ op'[o].path = op[o].path /\ op'[o].read = {}
      /\ op'[o].todo = Listed
  <2> DEFINE l1 == [op[o] EXCEPT !.pc = "load"]
             l2 == [l1 EXCEPT !.todo = Listed]
             l3 == [l2 EXCEPT !.read = {}]
  <2>1. op' = [op EXCEPT ![o] = l3]
    BY <1>2
  <2>2. /\ l1 \in Locals /\ l1.pc = "load" /\ l1.kind = op[o].kind /\ l1.id = op[o].id
        /\ l1.path = op[o].path
    BY <1>1, <1>3, Types, SetPc
  <2> HIDE DEF l1
  <2>3. /\ l2 \in Locals /\ l2.pc = l1.pc /\ l2.kind = l1.kind /\ l2.id = l1.id
        /\ l2.path = l1.path /\ l2.todo = Listed
    BY <1>3, <2>2, SetTodo
  <2> HIDE DEF l2
  <2>4. /\ l3 \in Locals /\ l3.pc = l2.pc /\ l3.kind = l2.kind /\ l3.id = l2.id
        /\ l3.path = l2.path /\ l3.todo = l2.todo /\ l3.read = {}
    BY <1>3, <2>3, SetRead
  <2> HIDE DEF l3
  <2> QED BY <1>1, <2>1, <2>2, <2>3, <2>4, OneOp
<1>5. Typing'
  BY <1>1, <1>2, <1>4 DEF Typing
<1>6. \A q \in Ops : Staged(q)'
  <2>1. Staged(o)'
    BY <1>1, <1>2, <1>4 DEF Staged
  <2>2. \A q \in Ops \ {o} : mutex' = q <=> mutex = q
    BY <1>2, Values
  <2> QED BY <1>1, <1>4, <2>1, <2>2, StagedOthers
<1>7. Placed' /\ CompleteFiles'
  BY <1>1, <1>2 DEF Placed, CompleteFiles
<1>8. Exclusive'
  BY <1>1, <1>2, <1>4, ExclusiveStays
<1>9. \A q \in Ops : Writes(q)'
  <2>1. Writes(o)'
    BY <1>4 DEF Writes
  <2> QED BY <1>1, <1>2, <1>4, <2>1, WritesOthers
<1>10. Current'
  <2>1. \A q \in Ops \ {o} : op'[q].pc \notin {"load", "swap"}
    BY <1>1, <1>2, <1>4, OneReload DEF Others
  <2>2. Listed' = Listed
    <3>1. file' = file
      BY <1>2
    <3> QED BY <3>1 DEF Listed
  <2>3. Pairs(Listed \ op[o].todo)' = {}
    BY <1>4, <2>2 DEF Pairs
  <2>4. mutex' # None
    BY <1>2, Values
  <2>5. op'[o].todo \subseteq Listed' /\ op'[o].read = Pairs(Listed \ op[o].todo)'
    BY <1>4, <2>2, <2>3
  <2> QED BY <1>4, <2>1, <2>4, <2>5 DEF Current
<1>11. Backing'
  BY <1>1, <1>2, <1>4, BackingStays
<1>12. \A q \in Ops : Leaves(q)'
  <2>1. Leaves(o)'
    BY <1>1, <1>2, <1>4 DEF Leaves, Cared
  <2> QED BY <1>1, <1>2, <1>4, <2>1, LeavesOthers
<1> QED BY <1>5, <1>6, <1>7, <1>8, <1>9, <1>10, <1>11, <1>12 DEF IInv

(* A reload fails when the directory is in no state to be loaded, or somebody
   who has changed it will reload it. *)
LEMMA FailKeeps ==
    ASSUME IInv, NEW o \in Ops, op[o].pc = "load", Fail(o),
           mixed = {} /\ ~Pending => ~Clean(OnDisk)
    PROVE  IInv'
<1>1. /\ Typing /\ Placed /\ Exclusive /\ CompleteFiles /\ Current /\ Backing
      /\ (\A q \in Ops : Staged(q)) /\ (\A q \in Ops : Writes(q)) /\ (\A q \in Ops : Leaves(q))
  BY DEF IInv
<1>2. /\ op' = [op EXCEPT ![o] = After(o)] /\ mutex' = None /\ failed' = TRUE
      /\ UNCHANGED <<file, tmp, cfg, catalog, engines, mixed, ready>>
  BY DEF Fail, disk, history
<1>3. /\ op' \in [Ops -> Locals] /\ Others(o) /\ op'[o].read = {}
      /\ op[o].kind = "uninstall" =>
            /\ op'[o].pc = "stop" /\ op'[o].kind = op[o].kind /\ op'[o].id = op[o].id
            /\ op'[o].path = op[o].path
      /\ op[o].kind # "uninstall" =>
            /\ op'[o].pc = "idle" /\ op'[o].kind = None /\ op'[o].id = None
            /\ op'[o].path = None
  BY <1>1, <1>2, AfterMoves
<1>4. mutex = o /\ op'[o].pc \in {"stop", "idle"} /\ op'[o].id \in {op[o].id, None}
  BY <1>1, <1>3 DEF Staged
<1>5. Typing'
  BY <1>1, <1>2, <1>3 DEF Typing
<1>6. \A q \in Ops : Staged(q)'
  <2>1. Staged(o)'
    BY <1>1, <1>2, <1>3, Values DEF Staged
  <2>2. \A q \in Ops \ {o} : mutex' = q <=> mutex = q
    BY <1>2, <1>4, Values
  <2> QED BY <1>1, <1>3, <2>1, <2>2, StagedOthers
<1>7. Placed' /\ CompleteFiles'
  BY <1>1, <1>2 DEF Placed, CompleteFiles
<1>8. Exclusive'
  BY <1>1, <1>2, <1>3, <1>4, ExclusiveStays
<1>9. \A q \in Ops : Writes(q)'
  <2>1. Writes(o)'
    BY <1>4 DEF Writes
  <2> QED BY <1>1, <1>2, <1>3, <2>1, WritesOthers
<1>10. Current'
  <2>1. \A q \in Ops : op'[q].pc \notin {"load", "swap"}
    BY <1>1, <1>3, <1>4, OneReload DEF Others
  <2>2. Pending' <=> Pending
    BY <1>3, <1>4 DEF Pending, Others
  <2>3. OnDisk' = OnDisk
    BY <1>2 DEF OnDisk, Listed
  <2>4. Clean(OnDisk)' <=> Clean(OnDisk)
    BY <2>3 DEF Clean, Valid
  <2> QED BY <1>2, <2>1, <2>2, <2>4 DEF Current
<1>11. \A i : ~Cared(i)'
  BY <1>2 DEF Cared
<1>12. Backing'
  BY <1>2, <1>11 DEF Backing, Backed, Cared
<1>13. \A q \in Ops : Leaves(q)'
  BY <1>2 DEF Leaves, Cared
<1> QED BY <1>5, <1>6, <1>7, <1>8, <1>9, <1>10, <1>12, <1>13 DEF IInv

LEMMA LoadFileKeeps ==
    ASSUME IInv, NEW o \in Ops, LoadFile(o)
    PROVE  IInv'
<1>1. /\ Typing /\ Placed /\ Exclusive /\ CompleteFiles /\ Current /\ Backing
      /\ (\A q \in Ops : Staged(q)) /\ (\A q \in Ops : Writes(q)) /\ (\A q \in Ops : Leaves(q))
  BY DEF IInv
<1>2. op[o].pc = "load"
  BY DEF LoadFile
<1>3. mutex = o /\ op[o].todo \subseteq Files
  BY <1>1, <1>2, Types DEF Staged
<1>4. PICK f \in op[o].todo :
        IF file[f] \notin {None, Partial}
          THEN /\ op' = [op EXCEPT ![o].todo = op[o].todo \ {f},
                                   ![o].read = op[o].read \cup {<<f, file[f]>>}]
               /\ UNCHANGED <<disk, live, engines, history>>
          ELSE Fail(o)
  BY DEF LoadFile
<1>5. CASE file[f] \in {None, Partial}
  <2>1. Fail(o)
    BY <1>4, <1>5
  <2>2. mixed = {} /\ ~Pending => ~Clean(OnDisk)
    <3> SUFFICES ASSUME mixed = {}, ~Pending PROVE ~Clean(OnDisk)
      OBVIOUS
    <3>1. f \in Listed
      BY <1>1, <1>2 DEF Current
    <3>2. file[f] = Partial
      BY <1>5, <3>1 DEF Listed
    <3>3. <<f, Partial>> \in OnDisk
      BY <3>1, <3>2 DEF OnDisk
    <3> QED BY <3>3 DEF Clean
  <2> QED BY <1>2, <2>1, <2>2, FailKeeps
<1>6. CASE file[f] \notin {None, Partial}
  <2> DEFINE T == op[o].todo \ {f}
             R == op[o].read \cup {<<f, file[f]>>}
  <2>1. /\ op' = [op EXCEPT ![o].todo = T, ![o].read = R]
        /\ UNCHANGED <<disk, live, engines, history>>
    BY <1>4, <1>6
  <2>2. UNCHANGED <<file, tmp, cfg, catalog, mutex, failed, engines, mixed, ready>>
    BY <2>1 DEF disk, live, history
  <2>3. f \in Files /\ file[f] \in Model
    BY <1>1, <1>3, <1>6 DEF Typing
  <2>4. T \in SUBSET Files /\ R \in SUBSET (Files \X Model)
    BY <1>1, <2>3, Types
  <2>5. /\ \A x \in R : x \in op[o].read \/ x[2] = file[f]
        /\ T \subseteq op[o].todo
    OBVIOUS
  <2>6. \A q \in Ops : Pairs(Listed \ op[o].todo) \cup {<<f, file[f]>>} = Pairs(Listed \ T) \/ f \notin Listed
    <3>1. f \in Listed => Listed \ T = (Listed \ op[o].todo) \cup {f}
      BY <1>4
    <3> HIDE DEF T
    <3> QED BY <3>1 DEF Pairs
  <2>7. R = op[o].read \cup {<<f, file[f]>>}
    OBVIOUS
  <2> HIDE DEF T, R
  <2>8. /\ op' \in [Ops -> Locals] /\ Others(o) /\ op'[o].pc = op[o].pc
        /\ op'[o].kind = op[o].kind /\ op'[o].id = op[o].id /\ op'[o].path = op[o].path
        /\ op'[o].todo = T /\ op'[o].read = R
    <3> DEFINE l1 == [op[o] EXCEPT !.todo = T]
               l2 == [l1 EXCEPT !.read = R]
    <3>1. op' = [op EXCEPT ![o] = l2]
      BY <2>1
    <3>2. /\ l1 \in Locals /\ l1.pc = op[o].pc /\ l1.kind = op[o].kind /\ l1.id = op[o].id
          /\ l1.path = op[o].path /\ l1.todo = T
      BY <1>1, <2>4, Types, SetTodo
    <3> HIDE DEF l1
    <3>3. /\ l2 \in Locals /\ l2.pc = l1.pc /\ l2.kind = l1.kind /\ l2.id = l1.id
          /\ l2.path = l1.path /\ l2.todo = l1.todo /\ l2.read = R
      BY <2>4, <3>2, SetRead
    <3> HIDE DEF l2
    <3> QED BY <1>1, <3>1, <3>2, <3>3, OneOp
  <2>9. Typing'
    BY <1>1, <2>2, <2>8 DEF Typing
  <2>10. \A q \in Ops : Staged(q)'
    <3>1. Staged(o)'
      BY <1>1, <1>2, <2>2, <2>8 DEF Staged
    <3> QED BY <1>1, <2>2, <2>8, <3>1, StagedOthers
  <2>11. Placed' /\ CompleteFiles'
    BY <1>1, <2>2 DEF Placed, CompleteFiles
  <2>12. Exclusive'
    BY <1>1, <2>2, <2>8, ExclusiveStays
  <2>13. \A q \in Ops : Writes(q)'
    <3>1. Writes(o)'
      BY <1>2, <2>8 DEF Writes
    <3> QED BY <1>1, <2>2, <2>8, <3>1, WritesOthers
  <2>14. Current'
    <3>1. SUFFICES ASSUME mixed' = {}, ~Pending' PROVE Current'
      BY DEF Current
    <3>2. mixed = {} /\ ~Pending
      BY <1>2, <2>2, <2>8, <3>1 DEF Pending, Others
    <3>3. \A q \in Ops \ {o} : op'[q].pc \notin {"load", "swap"}
      BY <1>1, <1>3, <2>8, OneReload DEF Others
    <3>4. f \in Listed /\ op[o].todo \subseteq Listed /\ op[o].read = Pairs(Listed \ op[o].todo)
      BY <1>1, <1>2, <3>2 DEF Current
    <3>5. R = Pairs(Listed \ T)
      BY <2>6, <2>7, <3>4
    <3>6. file' = file
      BY <2>2
    <3>7. Listed' = Listed
      BY <3>6 DEF Listed
    <3>8. Pairs(Listed \ op[o].todo)' = Pairs(Listed \ T)
      BY <2>8, <3>6, <3>7 DEF Pairs
    <3>9. op'[o].todo \subseteq Listed' /\ op'[o].read = Pairs(Listed \ op[o].todo)'
      BY <2>5, <2>8, <3>4, <3>5, <3>7, <3>8
    <3>10. mutex' # None
      BY <1>3, <2>2, Values
    <3> QED BY <1>2, <2>8, <3>3, <3>9, <3>10 DEF Current
  <2>15. \A i : Cared(i)' <=> Cared(i)
    BY <2>2 DEF Cared
  <2>16. \A q \in Ops : \A x \in op'[q].read : x \in op[q].read \/ x[2] = file[f]
    BY <2>5, <2>8 DEF Others
  <2>17. Backing'
    <3>1. \A d : Backed(d)' <=> Backed(d)
      BY <2>2, <2>15, HostedSame DEF Backed
    <3>2. ASSUME NEW g \in Files, file'[g] \in Model PROVE Backed(file[g])'
      BY <1>1, <2>2, <2>15, <3>2, HostedSame DEF Backing, Backed
    <3>3. (\A d \in cfg' : Backed(d)') /\ (\A d \in catalog' : Backed(d)')
      BY <1>1, <2>2, <3>1 DEF Backing
    <3>4. Backed(file[f])
      BY <1>1, <2>3 DEF Backing
    <3>5. \A q \in Ops : \A x \in op'[q].read : Backed(x[2])'
      BY <1>1, <2>16, <3>1, <3>4 DEF Backing
    <3>6. ASSUME NEW q \in Ops, op'[q].pc \in {"find", "create", "write", "rename"}, Cared(op[q].id)'
          PROVE  op'[q].id \in Hosted' /\ (Ready(q)' => op'[q].id \in ready')
      <4>1. q # o
        BY <1>2, <2>8, <3>6
      <4>2. op'[q].pc = op[q].pc /\ op'[q].id = op[q].id /\ (Ready(q)' <=> Ready(q))
        BY <2>8, <4>1 DEF Others, Ready
      <4>3. Cared(op[q].id)
        BY <2>2, <3>6, <4>2 DEF Cared
      <4> QED BY <1>1, <2>2, <3>6, <4>2, <4>3, HostedSame DEF Backing
    <3> QED BY <3>2, <3>3, <3>5, <3>6 DEF Backing
  <2>18. ASSUME NEW q \in Ops PROVE Leaves(q)'
    <3>1. op'[q].pc = op[q].pc /\ op'[q].kind = op[q].kind /\ op'[q].id = op[q].id
      BY <2>8 DEF Others
    <3>2. Cared(op[q].id)' => Cared(op[q].id)
      BY <2>2, <3>1 DEF Cared
    <3>3. SUFFICES ASSUME op[q].kind \in {"install", "uninstall"}, Cared(op[q].id) PROVE Leaves(q)'
      BY <3>1, <3>2 DEF Leaves
    <3>4. Leaves(q)
      BY <1>1
    <3>5. op[q].pc \in {"lock", "load", "swap", "stop"} =>
            \A g \in Files : file'[g] \in Model => Off(op[q].kind, op[q].id, file'[g])
      BY <2>2, <3>3, <3>4 DEF Leaves
    <3>6. op[q].pc \in {"lock", "load", "swap", "stop"} => Off(op[q].kind, op[q].id, file[f])
      BY <2>2, <2>3, <3>5
    <3>7. op[q].pc \in {"load", "swap"} =>
            \A x \in op'[q].read : Off(op[q].kind, op[q].id, x[2])
      BY <2>16, <3>3, <3>4, <3>6 DEF Leaves
    <3>8. op[q].pc \in {"swap", "stop"} => \A d \in cfg' : Off(op[q].kind, op[q].id, d)
      BY <2>2, <3>3, <3>4 DEF Leaves
    <3>9. op[q].pc = "stop" =>
            /\ Without(catalog', op[q].id)
            /\ \A p \in Ops : \A x \in op'[p].read : x[2].id # op[q].id
      <4>1. op[q].pc = "stop" => op[q].kind = "uninstall" /\ file[f].id # op[q].id
        BY <1>1, <3>6 DEF Staged, Off
      <4> QED BY <2>2, <2>16, <3>3, <3>4, <4>1 DEF Leaves
    <3> QED BY <3>1, <3>5, <3>7, <3>8, <3>9 DEF Leaves, Without
  <2> QED BY <2>9, <2>10, <2>11, <2>12, <2>13, <2>14, <2>17, <2>18 DEF IInv
<1> QED BY <1>5, <1>6

LEMMA InvalidKeeps ==
    ASSUME IInv, NEW o \in Ops, Invalid(o)
    PROVE  IInv'
<1>1. op[o].pc = "load" /\ op[o].todo = {} /\ ~Valid(op[o].read) /\ Fail(o) /\ Current
  BY DEF Invalid, IInv
<1>2. mixed = {} /\ ~Pending => op[o].read = OnDisk
  <2>1. Pairs(Listed \ {}) = OnDisk
    BY DEF Pairs, OnDisk
  <2> QED BY <1>1, <2>1 DEF Current
<1>3. mixed = {} /\ ~Pending => ~Clean(OnDisk)
  BY <1>1, <1>2 DEF Clean
<1> QED BY <1>1, <1>3, FailKeeps

LEMMA SwapConfigKeeps ==
    ASSUME IInv, NEW o \in Ops, SwapConfig(o)
    PROVE  IInv'
<1>1. /\ Typing /\ Placed /\ Exclusive /\ CompleteFiles /\ Current /\ Backing
      /\ (\A q \in Ops : Staged(q)) /\ (\A q \in Ops : Writes(q)) /\ (\A q \in Ops : Leaves(q))
  BY DEF IInv
<1>2. /\ op[o].pc = "load" /\ op[o].todo = {} /\ cfg' = Models(op[o].read) /\ Goto(o, "swap")
      /\ UNCHANGED <<file, tmp, catalog, mutex, failed, engines, mixed, ready>>
  BY DEF SwapConfig, disk, history
<1>3. "swap" \in Stages /\ mutex = o
  BY <1>1, <1>2 DEF Stages, Staged
<1>4. /\ op' \in [Ops -> Locals] /\ Others(o) /\ op'[o].pc = "swap" /\ op'[o].kind = op[o].kind
      /\ op'[o].id = op[o].id /\ op'[o].path = op[o].path /\ op'[o].read = op[o].read
  BY <1>1, <1>2, <1>3, GotoMoves
<1>5. /\ cfg' \subseteq Model
      /\ \A d \in cfg' : d.id \in Base \/ \E x \in op[o].read : d = x[2]
  BY <1>1, <1>2, ModelsAre
<1>6. Typing'
  BY <1>1, <1>2, <1>4, <1>5 DEF Typing
<1>7. \A q \in Ops : Staged(q)'
  <2>1. Staged(o)'
    BY <1>1, <1>2, <1>3, <1>4 DEF Staged
  <2> QED BY <1>1, <1>2, <1>4, <2>1, StagedOthers
<1>8. Placed' /\ CompleteFiles'
  BY <1>1, <1>2 DEF Placed, CompleteFiles
<1>9. Exclusive'
  BY <1>1, <1>2, <1>4, ExclusiveStays
<1>10. \A q \in Ops : Writes(q)'
  <2>1. Writes(o)'
    BY <1>4 DEF Writes
  <2> QED BY <1>1, <1>2, <1>4, <2>1, WritesOthers
<1>11. Current'
  <2>1. SUFFICES ASSUME mixed' = {}, ~Pending' PROVE Current'
    BY DEF Current
  <2>2. mixed = {} /\ ~Pending
    BY <1>2, <1>4, <2>1 DEF Pending, Others
  <2>3. \A q \in Ops \ {o} : op'[q].pc \notin {"load", "swap"}
    BY <1>1, <1>3, <1>4, OneReload DEF Others
  <2>4. Pairs(Listed \ {}) = OnDisk
    BY DEF Pairs, OnDisk
  <2>5. op[o].read = OnDisk
    BY <1>1, <1>2, <2>2, <2>4 DEF Current
  <2>6. OnDisk' = OnDisk
    <3>1. file' = file
      BY <1>2
    <3> QED BY <3>1 DEF OnDisk, Listed
  <2>7. mutex' # None
    BY <1>2, <1>3, Values
  <2> QED BY <1>4, <2>3, <2>5, <2>6, <2>7 DEF Current
<1>12. \A i : Cared(i)' <=> Cared(i)
  BY <1>2 DEF Cared
<1>13. \A q \in Ops : op'[q].read = op[q].read
  BY <1>4 DEF Others
<1>14. Backing'
  <2>1. \A d : Backed(d)' <=> Backed(d)
    BY <1>2, <1>12, HostedSame DEF Backed
  <2>2. ASSUME NEW g \in Files, file'[g] \in Model PROVE Backed(file[g])'
    BY <1>1, <1>2, <1>12, <2>2, HostedSame DEF Backing, Backed
  <2>3. \A d \in cfg' : Backed(d)
    <3>1. \A d : d.id \in Base => Backed(d)
      BY DEF Backed, Cared
    <3> QED BY <1>1, <1>5, <3>1 DEF Backing
  <2>4. (\A d \in cfg' : Backed(d)') /\ (\A d \in catalog' : Backed(d)')
    BY <1>1, <1>2, <2>1, <2>3 DEF Backing
  <2>5. \A q \in Ops : \A x \in op'[q].read : Backed(x[2])'
    BY <1>1, <1>13, <2>1 DEF Backing
  <2>6. ASSUME NEW q \in Ops, op'[q].pc \in {"find", "create", "write", "rename"}, Cared(op[q].id)'
        PROVE  op'[q].id \in Hosted' /\ (Ready(q)' => op'[q].id \in ready')
    <3>1. q # o
      BY <1>4, <2>6
    <3>2. op'[q].pc = op[q].pc /\ op'[q].id = op[q].id /\ (Ready(q)' <=> Ready(q))
      BY <1>4, <3>1 DEF Others, Ready
    <3>3. Cared(op[q].id)
      BY <1>2, <2>6, <3>2 DEF Cared
    <3> QED BY <1>1, <1>2, <2>6, <3>2, <3>3, HostedSame DEF Backing
  <2> QED BY <2>2, <2>4, <2>5, <2>6 DEF Backing
<1>15. ASSUME NEW q \in Ops PROVE Leaves(q)'
  <2>1. /\ op'[q].kind = op[q].kind /\ op'[q].id = op[q].id
        /\ q # o => op'[q].pc = op[q].pc /\ op[q].pc \notin {"load", "swap"}
    BY <1>1, <1>3, <1>4, OneReload DEF Others
  <2>2. Cared(op[q].id)' => Cared(op[q].id)
    BY <1>2, <2>1 DEF Cared
  <2>3. SUFFICES ASSUME op[q].kind \in {"install", "uninstall"}, Cared(op[q].id) PROVE Leaves(q)'
    BY <2>1, <2>2 DEF Leaves
  <2>4. Leaves(q)
    BY <1>1
  <2>5. op'[q].pc \in {"lock", "load", "swap", "stop"} =>
          \A g \in Files : file'[g] \in Model => Off(op[q].kind, op[q].id, file'[g])
    BY <1>2, <2>1, <2>3, <2>4 DEF Leaves
  <2>6. op'[q].pc \in {"load", "swap"} =>
          \A x \in op'[q].read : Off(op[q].kind, op[q].id, x[2])
    BY <1>2, <1>4, <1>13, <2>1, <2>3, <2>4 DEF Leaves
  <2>7. op'[q].pc \in {"swap", "stop"} =>
          \A x \in op[o].read : Off(op[q].kind, op[q].id, x[2])
    BY <1>2, <1>4, <2>1, <2>3, <2>4 DEF Leaves, Off
  <2>8. op[q].id \notin Base
    BY <2>3 DEF Cared
  <2>9. op'[q].pc \in {"swap", "stop"} => \A d \in cfg' : Off(op[q].kind, op[q].id, d)
    BY <1>5, <2>7, <2>8 DEF Off
  <2>10. op'[q].pc = "stop" =>
            /\ Without(catalog', op[q].id)
            /\ \A p \in Ops : \A x \in op'[p].read : x[2].id # op[q].id
    BY <1>2, <1>4, <1>13, <2>1, <2>3, <2>4 DEF Leaves
  <2> QED BY <2>1, <2>5, <2>6, <2>9, <2>10 DEF Leaves, Without
<1> QED BY <1>6, <1>7, <1>8, <1>9, <1>10, <1>11, <1>14, <1>15 DEF IInv

(* What was read is the directory, or somebody is about to reload. *)
LEMMA SwapCatalogKeeps ==
    ASSUME IInv, NEW o \in Ops, SwapCatalog(o)
    PROVE  IInv'
<1>1. /\ Typing /\ Placed /\ Exclusive /\ CompleteFiles /\ Current /\ Backing
      /\ (\A q \in Ops : Staged(q)) /\ (\A q \in Ops : Writes(q)) /\ (\A q \in Ops : Leaves(q))
  BY DEF IInv
<1>2. /\ op[o].pc = "swap" /\ catalog' = Models(op[o].read) /\ mutex' = None
      /\ op' = [op EXCEPT ![o] = After(o)]
      /\ ready' = (IF op[o].kind = "install" THEN ready \ {op[o].id} ELSE ready)
      /\ UNCHANGED <<file, tmp, cfg, failed, engines, mixed>>
  BY DEF SwapCatalog, disk
<1>3. /\ op' \in [Ops -> Locals] /\ Others(o) /\ op'[o].read = {}
      /\ op[o].kind = "uninstall" =>
            /\ op'[o].pc = "stop" /\ op'[o].kind = op[o].kind /\ op'[o].id = op[o].id
            /\ op'[o].path = op[o].path
      /\ op[o].kind # "uninstall" =>
            /\ op'[o].pc = "idle" /\ op'[o].kind = None /\ op'[o].id = None
            /\ op'[o].path = None
  BY <1>1, <1>2, AfterMoves
<1>4. mutex = o /\ op'[o].pc \in {"stop", "idle"} /\ op'[o].id \in {op[o].id, None}
  BY <1>1, <1>2, <1>3 DEF Staged
<1>5. /\ catalog' \subseteq Model
      /\ \A d \in catalog' : d.id \in Base \/ \E x \in op[o].read : d = x[2]
  BY <1>1, <1>2, ModelsAre
<1>6. Typing'
  BY <1>1, <1>2, <1>3, <1>5 DEF Typing
<1>7. \A q \in Ops : Staged(q)'
  <2>1. Staged(o)'
    BY <1>1, <1>2, <1>3, Values DEF Staged
  <2>2. \A q \in Ops \ {o} : mutex' = q <=> mutex = q
    BY <1>2, <1>4, Values
  <2> QED BY <1>1, <1>3, <2>1, <2>2, StagedOthers
<1>8. Placed' /\ CompleteFiles'
  BY <1>1, <1>2 DEF Placed, CompleteFiles
<1>9. Exclusive'
  BY <1>1, <1>2, <1>3, <1>4, ExclusiveStays
<1>10. \A q \in Ops : Writes(q)'
  <2>1. Writes(o)'
    BY <1>4 DEF Writes
  <2> QED BY <1>1, <1>2, <1>3, <2>1, WritesOthers
<1>11. \A q \in Ops : op'[q].read = {}
  BY <1>1, <1>3, <1>4, OneReload DEF Others
<1>12. Current'
  <2>1. SUFFICES ASSUME mixed' = {}, ~Pending' PROVE Current'
    BY DEF Current
  <2>2. mixed = {} /\ ~Pending
    BY <1>2, <1>3, <2>1 DEF Pending, Others
  <2>3. \A q \in Ops : op'[q].pc \notin {"load", "swap"}
    BY <1>1, <1>3, <1>4, OneReload DEF Others
  <2>4. op[o].read = OnDisk
    BY <1>1, <1>2, <2>2 DEF Current
  <2>5. OnDisk' = OnDisk
    <3>1. file' = file
      BY <1>2
    <3> QED BY <3>1 DEF OnDisk, Listed
  <2>6. Models(OnDisk)' = Models(OnDisk)
    BY <2>5 DEF Models
  <2> QED BY <1>2, <2>3, <2>4, <2>6 DEF Current
<1>13. \A i : Cared(i)' <=> Cared(i)
  BY <1>2 DEF Cared
<1>14. Backing'
  <2> DEFINE Fits(d) == op[o].kind = "install" /\ Cared(op[o].id) => Off(op[o].kind, op[o].id, d)
  <2>1. \A d : Backed(d) /\ Fits(d) => Backed(d)'
    BY <1>2, <1>13, HostedSame DEF Backed, Off
  <2>2. /\ \A g \in Files : file[g] \in Model => Fits(file[g])
        /\ \A d \in cfg : Fits(d)
        /\ \A x \in op[o].read : Fits(x[2])
    BY <1>1, <1>2 DEF Leaves
  <2>3. \A d \in catalog' : Fits(d)
    BY <1>5, <2>2 DEF Cared, Off
  <2>4. \A g \in Files : file[g] \in Model => Backed(file[g]) /\ Fits(file[g])
    BY <1>1, <2>2 DEF Backing
  <2>5. ASSUME NEW g \in Files, file'[g] \in Model PROVE Backed(file[g])'
    <3>1. Backed(file[g]) /\ Fits(file[g]) /\ file'[g] = file[g]
      BY <1>2, <2>5, <2>4
    <3> QED BY <1>2, <1>13, <3>1, HostedSame DEF Backed, Off
  <2>6. \A d \in catalog' : Backed(d)
    <3>1. \A d : d.id \in Base => Backed(d)
      BY DEF Backed, Cared
    <3> QED BY <1>1, <1>5, <3>1 DEF Backing
  <2>7. (\A d \in cfg' : Backed(d)') /\ (\A d \in catalog' : Backed(d)')
    BY <1>1, <1>2, <2>1, <2>6, <2>2, <2>3 DEF Backing
  <2>8. \A q \in Ops : \A x \in op'[q].read : Backed(x[2])'
    BY <1>11
  <2>9. ASSUME NEW q \in Ops, op'[q].pc \in {"find", "create", "write", "rename"}, Cared(op[q].id)'
        PROVE  op'[q].id \in Hosted' /\ (Ready(q)' => op'[q].id \in ready')
    <3>1. q # o
      BY <1>4, <2>9
    <3>2. op'[q].pc = op[q].pc /\ op'[q].id = op[q].id /\ (Ready(q)' <=> Ready(q))
      BY <1>3, <3>1 DEF Others, Ready
    <3>3. Cared(op[q].id)
      BY <1>2, <2>9, <3>2 DEF Cared
    <3>4. op[o].kind = "install" => op[q].id # op[o].id
      BY <1>1, <2>9, <3>1, <3>2, <3>3 DEF Exclusive, Cared, Staged
    <3>5. op[q].id \in Hosted /\ (Ready(q) => op[q].id \in ready)
      BY <1>1, <2>9, <3>2, <3>3 DEF Backing
    <3> QED BY <1>2, <3>2, <3>4, <3>5, HostedSame
  <2> QED BY <2>5, <2>7, <2>8, <2>9 DEF Backing
<1>15. ASSUME NEW q \in Ops PROVE Leaves(q)'
  <2>1. SUFFICES ASSUME op'[q].kind \in {"install", "uninstall"}, Cared(op[q].id)'
                 PROVE Leaves(q)'
    BY DEF Leaves
  <2>2. /\ op'[q].kind = op[q].kind /\ op'[q].id = op[q].id
        /\ q = o => op'[q].pc = "stop" /\ op[q].kind = "uninstall"
        /\ q # o => op'[q].pc = op[q].pc /\ op[q].pc \notin {"load", "swap"}
    BY <1>1, <1>3, <1>4, <2>1, OneReload, Values DEF Others
  <2>3. Cared(op[q].id) /\ op[q].id \notin Base
    BY <1>2, <2>1, <2>2 DEF Cared
  <2>4. Leaves(q) /\ op[q].kind \in {"install", "uninstall"}
    BY <1>1, <2>1, <2>2
  <2>5. op'[q].pc \in {"lock", "stop"} =>
          \A g \in Files : file'[g] \in Model => Off(op[q].kind, op[q].id, file'[g])
    BY <1>2, <2>2, <2>3, <2>4 DEF Leaves
  <2>6. op'[q].pc \notin {"load", "swap"}
    BY <2>2
  <2>7. op'[q].pc = "stop" =>
            /\ \A d \in cfg' : Off(op[q].kind, op[q].id, d)
            /\ \A x \in op[o].read : x[2].id # op[q].id
    BY <1>2, <2>2, <2>3, <2>4 DEF Leaves, Off
  <2>8. op'[q].pc = "stop" => Without(catalog', op[q].id)
    BY <1>5, <2>3, <2>7 DEF Without
  <2> QED BY <1>11, <2>2, <2>5, <2>6, <2>7, <2>8 DEF Leaves, Without
<1> QED BY <1>6, <1>7, <1>8, <1>9, <1>10, <1>12, <1>14, <1>15 DEF IInv

-----------------------------------------------------------------------------
(* The invariant *)

LEMMA InitInv == Init => IInv
<1> SUFFICES ASSUME Init PROVE IInv
  OBVIOUS
<1>1. \A d \in Declared : d \in Model /\ d.id \in Base
  <2>1. \A i \in Base : [id |-> i, ready |-> TRUE] \in Model /\ [id |-> i, ready |-> TRUE].id = i
    BY Values, ModelFields
  <2> QED BY <2>1 DEF Declared
<1>2. /\ file = [f \in Files |-> None] /\ tmp = [f \in Files |-> None]
      /\ cfg = Declared /\ catalog = Declared /\ mutex = None /\ engines = {}
      /\ op = [o \in Ops |-> Idle] /\ failed = FALSE /\ mixed = {} /\ ready = {}
  BY DEF Init
<1>3. \A o \in Ops : /\ op[o].pc = "idle" /\ op[o].kind = None /\ op[o].id = None
                     /\ op[o].path = None /\ op[o].read = {}
  BY <1>2, IdleFields
<1>4. \A f \in Files : file[f] = None /\ tmp[f] = None
  BY <1>2
<1>5. Typing
  <2>1. op \in [Ops -> Locals]
    BY <1>2, IdleFields
  <2>2. cfg \subseteq Model /\ catalog \subseteq Model
    BY <1>1, <1>2
  <2>3. file \in [Files -> Model \cup {Partial, None}] /\ tmp \in [Files -> Model \cup {Partial, None}]
    BY <1>2
  <2> QED BY <1>2, <2>1, <2>2, <2>3 DEF Typing
<1>6. \A o \in Ops : Staged(o)
  BY <1>2, <1>3, Values DEF Staged
<1>7. Placed /\ CompleteFiles
  BY <1>4, Values DEF Placed, CompleteFiles
<1>8. Exclusive
  BY <1>3, Values DEF Exclusive
<1>9. \A o \in Ops : Writes(o)
  BY <1>3 DEF Writes
<1>10. Current
  <2>1. Listed = {}
    BY <1>4 DEF Listed
  <2>2. OnDisk = {}
    BY <2>1 DEF OnDisk
  <2>3. Models(OnDisk) = Declared
    BY <2>2 DEF Models
  <2> QED BY <1>2, <1>3, <2>3 DEF Current
<1>11. Backing
  <2>1. \A d \in Declared : Backed(d)
    BY <1>1 DEF Backed, Cared
  <2> QED BY <1>2, <1>3, <1>4, <2>1, Values DEF Backing
<1>12. \A o \in Ops : Leaves(o)
  BY <1>3, Values DEF Leaves
<1> QED BY <1>5, <1>6, <1>7, <1>8, <1>9, <1>10, <1>11, <1>12 DEF IInv

LEMMA Unchanged ==
    ASSUME IInv, UNCHANGED vars
    PROVE  IInv'
<1>1. UNCHANGED <<file, tmp, cfg, catalog, mutex, engines, op, failed, mixed, ready>>
  BY DEF vars
<1>2. Typing'
  BY <1>1 DEF IInv, Typing
<1>3. \A o \in Ops : Staged(o)'
  BY <1>1 DEF IInv, Staged
<1>4. Placed' /\ CompleteFiles' /\ Exclusive'
  BY <1>1 DEF IInv, Placed, CompleteFiles, Exclusive
<1>5. \A o \in Ops : Writes(o)'
  <2>1. \A o \in Ops : Ready(o)' = Ready(o)
    BY <1>1 DEF Ready
  <2> QED BY <1>1, <2>1 DEF IInv, Writes
<1>6. Current'
  <2>1. Listed' = Listed /\ OnDisk' = OnDisk /\ (Pending' <=> Pending)
    BY <1>1 DEF Listed, OnDisk, Pending
  <2>2. \A o \in Ops : Pairs(Listed \ op[o].todo)' = Pairs(Listed \ op[o].todo)
    BY <1>1, <2>1 DEF Pairs
  <2>3. (Clean(OnDisk)' <=> Clean(OnDisk)) /\ Models(OnDisk)' = Models(OnDisk)
    BY <2>1 DEF Clean, Valid, Models
  <2> QED BY <1>1, <2>1, <2>2, <2>3 DEF IInv, Current
<1>7. Backing'
  BY <1>1, HostedSame DEF IInv, Backing, Backed, Cared, Ready
<1>8. \A o \in Ops : Leaves(o)'
  BY <1>1 DEF IInv, Leaves, Cared, Without, Off
<1> QED BY <1>2, <1>3, <1>4, <1>5, <1>6, <1>7, <1>8 DEF IInv

LEMMA NextInv == IInv /\ [Next]_vars => IInv'
<1> SUFFICES ASSUME IInv, [Next]_vars PROVE IInv'
  OBVIOUS
<1>1. ASSUME NEW o \in Ops, Request(o) PROVE IInv'
  <2>1. ASSUME NEW i \in Ids, Begin(o, "install", i, FALSE) PROVE IInv'
    BY <2>1, BeginKeeps
  <2>2. ASSUME NEW i \in Ids, NEW b \in BOOLEAN, Begin(o, "publish", i, b) PROVE IInv'
    BY <2>2, BeginKeeps
  <2>3. ASSUME NEW i \in Ids, Begin(o, "uninstall", i, FALSE) PROVE IInv'
    BY <2>3, BeginKeeps
  <2>4. CASE Hup(o)
    BY <2>4, HupKeeps
  <2> QED BY <1>1, <2>1, <2>2, <2>3, <2>4 DEF Request
<1>2. ASSUME NEW o \in Ops, Start(o) \/ StartFails(o) \/ Lookup(o) \/ DiskFails(o) PROVE IInv'
  BY <1>2, StartKeeps, StartFailsKeeps, LookupKeeps, DiskFailsKeeps
<1>3. ASSUME NEW o \in Ops, WriteModel(o) PROVE IInv'
  BY <1>3, FindKeeps, CreateKeeps, WriteKeeps, RenameKeeps DEF WriteModel
<1>4. ASSUME NEW o \in Ops, Locate(o) \/ Unlink(o) \/ StopEngine(o) PROVE IInv'
  BY <1>4, LocateKeeps, UnlinkKeeps, StopEngineKeeps
<1>5. ASSUME NEW o \in Ops, Reload(o) PROVE IInv'
  BY <1>5, LockKeeps, LoadFileKeeps, InvalidKeeps, SwapConfigKeeps, SwapCatalogKeeps DEF Reload
<1>6. CASE UNCHANGED vars
  BY <1>6, Unchanged
<1> QED BY <1>1, <1>2, <1>3, <1>4, <1>5, <1>6 DEF Next

(* Operations that install, publish and uninstall models, and reloads, keep the
   directory, the configuration, the catalog and the engines in step, in every
   interleaving. *)
THEOREM Invariant == Spec => []IInv
<1>1. Init => IInv
  BY InitInv
<1>2. IInv /\ [Next]_vars => IInv'
  BY NextInv
<1> QED BY <1>1, <1>2, PTL DEF Spec

(* The variables of Provisioning keep their types, and who holds reloadMu is
   reloading. *)
THEOREM TypeCorrect == Spec => []TypeOK
<1>1. IInv => TypeOK
  <2> SUFFICES ASSUME IInv PROVE TypeOK
    OBVIOUS
  <2>1. Typing /\ \A o \in Ops : Staged(o)
    BY DEF IInv
  <2>2. mutex # None => op[mutex].pc \in {"load", "swap"}
    BY <2>1 DEF Typing, Staged
  <2> QED BY <2>1, <2>2 DEF TypeOK, Typing
<1> QED BY <1>1, Invariant, PTL

(* WriteModel's temporary file and rename: what a reload or a restart finds in
   the directory is a complete document, unless two operations met on the
   file. *)
THEOREM FilesComplete == Spec => []CompleteFiles
<1>1. IInv => CompleteFiles
  BY DEF IInv
<1> QED BY <1>1, Invariant, PTL

(* ReloadFromDisk under reloadMu: once all handlers have returned, requests are
   checked against what the directory says, in whatever order the handlers wrote
   and reloaded. *)
THEOREM CatalogFollows == Spec => []CatalogCurrent
<1>1. IInv => CatalogCurrent
  <2> SUFFICES ASSUME IInv, Quiet, mixed = {}, \A x \in OnDisk : x[2] # Partial, Valid(OnDisk)
               PROVE  catalog = Models(OnDisk)
    BY DEF CatalogCurrent
  <2>1. Typing /\ Current /\ \A o \in Ops : Staged(o)
    BY DEF IInv
  <2>2. ~Pending /\ \A o \in Ops : op[o].pc = "idle"
    BY DEF Quiet, Pending
  <2>3. mutex = None
    BY <2>1, <2>2 DEF Typing, Staged
  <2>4. Clean(OnDisk)
    BY DEF Clean
  <2> QED BY <2>1, <2>2, <2>3, <2>4 DEF Current
<1> QED BY <1>1, Invariant, PTL

(* adminInstall starts the engine first and stages its model hidden, and
   adminUninstall removes an engine last: a model the catalog shows was published
   after its last complete install, and some agent was given an engine for it
   that no uninstall has removed, as long as no reload failed and no two
   operations met on its file. *)
THEOREM EngineBehindCatalog == Spec => []VisibleHasEngine
<1>1. IInv => VisibleHasEngine
  <2> SUFFICES ASSUME IInv PROVE VisibleHasEngine
    OBVIOUS
  <2>1. \A c \in catalog : Backed(c)
    BY DEF IInv, Backing
  <2> QED BY <2>1 DEF VisibleHasEngine, Backed, Cared, Hosted
<1> QED BY <1>1, Invariant, PTL

=============================================================================
