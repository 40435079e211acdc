------------------------------ MODULE Provisioning ------------------------------
(***************************************************************************)
(* How models get into the catalog and out of it (internal/gateway/        *)
(* provision.go, server.go, catalog.go, internal/config/write.go and       *)
(* config.go): install, publish and uninstall each change a file of the    *)
(* model directory, call the node agent and reload the configuration; a    *)
(* SIGHUP reloads it too.                                                  *)
(*                                                                         *)
(* Nothing but the reload is under a lock: two operations interleave in    *)
(* every other step.  WriteModel goes through a temporary file whose name  *)
(* is fixed by the target's, so that writers share it, and a rename moves  *)
(* the file that another writer may still have open.                       *)
(***************************************************************************)
EXTENDS Naturals, FiniteSets

CONSTANTS
    Ids,       \* model ids
    Base,      \* those declared in config.yaml, which no operation edits
    Files,     \* names of files in the model directory
    NameOf,    \* ModelFileName: the canonical name for an id
    Ops,       \* operations in progress
    Nodes,     \* nodes, each with its agent
    None

VARIABLES
    file,     \* the model directory: a model, a partial document or nothing
    tmp,      \* the same for the temporary names
    cfg,      \* s.cfg: the models of the configuration in memory
    catalog,  \* s.catalog, and the provider document rendered with it
    mutex,    \* reloadMu
    engines,  \* <<node, model>>: what nodes were given to run and still have
    op,       \* the operations
    failed,   \* history: a reload has failed
    mixed,    \* history: files two operations were on at the same time
    ready     \* history: models published since their last complete install

vars == <<file, tmp, cfg, catalog, mutex, engines, op, failed, mixed, ready>>

disk == <<file, tmp>>
live == <<cfg, catalog, mutex, failed>>
history == <<mixed, ready>>

Model == [id : Ids, ready : BOOLEAN]

Partial == [id |-> None, ready |-> FALSE]

ASSUME ProvisioningAssumption ==
    /\ Base \subseteq Ids
    /\ NameOf \in [Ids -> Files]
    /\ None \notin Files \cup Ids \cup Ops \cup Model \cup {Partial}
    /\ None \notin {"install", "publish", "uninstall", "tmp", "file", "gone"}

Declared == {[id |-> i, ready |-> TRUE] : i \in Base}

Idle == [pc |-> "idle", kind |-> None, id |-> None, ready |-> FALSE,
         path |-> None, open |-> None, todo |-> {}, read |-> {}]

Init ==
    /\ file = [f \in Files |-> None] /\ tmp = [f \in Files |-> None]
    /\ cfg = Declared /\ catalog = Declared
    /\ mutex = None
    /\ engines = {}
    /\ op = [o \in Ops |-> Idle]
    /\ failed = FALSE /\ mixed = {} /\ ready = {}

Goto(o, pc) == op' = [op EXCEPT ![o].pc = pc]

(* The handler returns. *)
End(o) == op' = [op EXCEPT ![o] = Idle]

-----------------------------------------------------------------------------
(* An operation on id begins; the files it may touch are in use by it. *)
Touches(id) == {NameOf[id]} \cup
    {f \in Files : file[f] # None /\ file[f].id = id}

Begin(o, kind, id, flag) ==
    /\ op[o].pc = "idle"
    /\ op' = [op EXCEPT ![o] = [Idle EXCEPT !.kind = kind, !.id = id, !.ready = flag,
          !.pc = CASE kind = "install" -> "start" [] kind = "publish" -> "lookup"
                   [] kind = "uninstall" -> "locate"]]
    /\ mixed' = mixed \cup
          {f \in Files : \E p \in Ops \ {o} :
              /\ op[p].id # None
              /\ f \in Touches(id) \cap (Touches(op[p].id) \cup {op[p].path})}
    /\ UNCHANGED <<disk, live, engines, ready>>

(* SIGHUP *)
Hup(o) ==
    /\ op[o].pc = "idle"
    /\ Goto(o, "lock")
    /\ UNCHANGED <<disk, live, engines, history>>

-----------------------------------------------------------------------------
(* adminInstall calls the agent of one node first.  That refuses a model which
   is starting or ready there, and takes one it does not have, or that failed or
   was stopped on the node; which of them it is changes at any moment, without
   the gateway. *)
Start(o) ==
    /\ op[o].pc = "start"
    /\ \E n \in Nodes : engines' = engines \cup {<<n, op[o].id>>}
    /\ Goto(o, "find")
    /\ UNCHANGED <<disk, live, history>>

(* A mutant: the entry is written although the agent refused. *)
StartFailsAndGoesOn(o) ==
    /\ op[o].pc = "start"
    /\ Goto(o, "find")
    /\ UNCHANGED <<disk, live, engines, history>>

(* Refused, not launched, or with the answer lost. *)
StartFails(o) ==
    /\ op[o].pc = "start"
    /\ \/ UNCHANGED engines
       \/ \E n \in Nodes : engines' = engines \cup {<<n, op[o].id>>}
    /\ End(o)
    /\ UNCHANGED <<disk, live, history>>

(* adminPublish copies the entry of the configuration in memory, with the new
   is_ready; an unknown model ends it. *)
Lookup(o) ==
    /\ op[o].pc = "lookup"
    /\ IF \E c \in cfg : c.id = op[o].id
         THEN /\ Goto(o, "find")
              /\ ready' = ready \cup (IF op[o].ready THEN {op[o].id} ELSE {})
         ELSE End(o) /\ UNCHANGED ready
    /\ UNCHANGED <<disk, live, engines, mixed>>

-----------------------------------------------------------------------------
(* FindModelFile: by content, the canonical name first; a document that does
   not parse is skipped. *)
Declares(f, id) == file[f] # None /\ file[f].id = id

FindModelFile(id) ==
    IF Declares(NameOf[id], id) THEN {NameOf[id]} ELSE {f \in Files : Declares(f, id)}

(* WriteModel: the file that declares the model, else the canonical name ... *)
Find(o) ==
    /\ op[o].pc = "find"
    /\ LET found == FindModelFile(op[o].id) IN
        \E f \in IF found = {} THEN {NameOf[op[o].id]} ELSE found :
            op' = [op EXCEPT ![o].pc = "create", ![o].path = f]
    /\ UNCHANGED <<disk, live, engines, history>>

(* A mutant: the document is written in place. *)
CreateInPlace(o) ==
    /\ op[o].pc = "create"
    /\ file' = [file EXCEPT ![op[o].path] = Partial]
    /\ tmp' = [tmp EXCEPT ![op[o].path] = Partial]
    /\ op' = [op EXCEPT ![o].pc = "write", ![o].open = "tmp"]
    /\ UNCHANGED <<live, engines, history>>

(* ... os.WriteFile truncates the temporary file or creates it, ... *)
Create(o) ==
    /\ op[o].pc = "create"
    /\ tmp' = [tmp EXCEPT ![op[o].path] = Partial]
    /\ op' = [op EXCEPT ![o].pc = "write", ![o].open = "tmp"]
    /\ UNCHANGED <<file, live, engines, history>>

(* An install stages its model hidden. *)
Ready(o) == op[o].kind = "publish" /\ op[o].ready

(* ... writes to the file it opened, wherever that is by now, ... *)
Write(o) ==
    /\ op[o].pc = "write"
    /\ LET doc == [id |-> op[o].id, ready |-> Ready(o)] IN
        /\ tmp'  = IF op[o].open = "tmp"  THEN [tmp EXCEPT ![op[o].path] = doc]  ELSE tmp
        /\ file' = IF op[o].open = "file" THEN [file EXCEPT ![op[o].path] = doc] ELSE file
    /\ op' = [op EXCEPT ![o].pc = "rename", ![o].open = None]
    /\ UNCHANGED <<live, engines, history>>

(* Where an open file is after a rename to f, or the removal of f. *)
Moved(p, f, renamed) ==
    IF op[p].path # f THEN op[p].open
    ELSE CASE op[p].open = "file" -> "gone"
           [] op[p].open = "tmp" /\ renamed -> "file"
           [] OTHER -> op[p].open

(* o is done with its file and reloads. *)
Settle(o, renamed) ==
    op' = [p \in Ops |->
              IF p = o THEN [op[p] EXCEPT !.pc = "lock", !.path = None]
                       ELSE [op[p] EXCEPT !.open = Moved(p, op[o].path, renamed)]]

(* ... and rename installs what the temporary name holds, or finds nothing. *)
Rename(o) ==
    /\ op[o].pc = "rename"
    /\ LET f == op[o].path IN
        IF tmp[f] # None
          THEN /\ file' = [file EXCEPT ![f] = tmp[f]]
               /\ tmp' = [tmp EXCEPT ![f] = None]
               /\ Settle(o, TRUE)
          ELSE End(o) /\ UNCHANGED <<file, tmp>>
    /\ UNCHANGED <<live, engines, history>>

(* Any of these calls, or the removal of a file, can fail and ends the handler;
   an install leaves its engine behind. *)
DiskFails(o) ==
    /\ op[o].pc \in {"create", "write", "rename", "unlink"}
    /\ End(o)
    /\ UNCHANGED <<disk, live, engines, history>>

-----------------------------------------------------------------------------
(* adminUninstall: RemoveModel finds the file, or there is none ... *)
Locate(o) ==
    /\ op[o].pc = "locate"
    /\ LET found == FindModelFile(op[o].id) IN
        IF found = {} THEN End(o)
        ELSE \E f \in found : op' = [op EXCEPT ![o].pc = "unlink", ![o].path = f]
    /\ UNCHANGED <<disk, live, engines, history>>

(* ... and removes it, unless another operation just did. *)
Unlink(o) ==
    /\ op[o].pc = "unlink"
    /\ IF file[op[o].path] = None
         THEN End(o) /\ UNCHANGED file
         ELSE /\ file' = [file EXCEPT ![op[o].path] = None]
              /\ Settle(o, FALSE)
    /\ UNCHANGED <<tmp, live, engines, history>>

(* After the reload the agent of one node is told to remove its engine; the
   request may name no node, or one that has none, and the call may fail. *)
StopEngine(o) ==
    /\ op[o].pc = "stop"
    /\ \/ UNCHANGED engines
       \/ \E n \in Nodes : engines' = engines \ {<<n, op[o].id>>}
    /\ End(o)
    /\ UNCHANGED <<disk, live, history>>

-----------------------------------------------------------------------------
(* ReloadFromDisk.  The lock, and loadModelDir's listing of the directory ... *)

Listed == {f \in Files : file[f] # None}

(* A mutant: the directory is listed and read outside the lock. *)
LockLate(o) ==
    /\ op[o].pc = "lock"
    /\ op' = [op EXCEPT ![o].pc = "load", ![o].todo = Listed, ![o].read = {}]
    /\ UNCHANGED <<disk, live, engines, history>>

Lock(o) ==
    /\ op[o].pc = "lock"
    /\ mutex = None
    /\ mutex' = o
    /\ op' = [op EXCEPT ![o].pc = "load", ![o].todo = Listed, ![o].read = {}]
    /\ UNCHANGED <<disk, cfg, catalog, failed, engines, history>>

(* Where a handler goes after its reload: publish reports a failure, install
   and uninstall only log it. *)
After(o) ==
    IF op[o].kind = "uninstall" THEN [op[o] EXCEPT !.pc = "stop", !.read = {}, !.todo = {}]
    ELSE Idle

(* The previous configuration stays. *)
Fail(o) ==
    /\ op' = [op EXCEPT ![o] = After(o)]
    /\ mutex' = None
    /\ failed' = TRUE
    /\ UNCHANGED <<disk, cfg, catalog, engines, history>>

(* ... one file after the other; one that vanished or does not parse fails it. *)
LoadFile(o) ==
    /\ op[o].pc = "load"
    /\ \E f \in op[o].todo :
        IF file[f] \notin {None, Partial}
          THEN /\ op' = [op EXCEPT ![o].todo = @ \ {f},
                                   ![o].read = @ \cup {<<f, file[f]>>}]
               /\ UNCHANGED <<disk, live, engines, history>>
          ELSE Fail(o)

(* Validate: config.yaml and the files declare every id once. *)
Valid(read) ==
    /\ \A x \in read : x[2].id \notin Base
    /\ \A x, y \in read : x[2].id = y[2].id => x = y

Invalid(o) ==
    /\ op[o].pc = "load" /\ op[o].todo = {}
    /\ ~Valid(op[o].read)
    /\ Fail(o)

Models(read) == Declared \cup {x[2] : x \in read}

(* Reload: the configuration, then the catalog and the document. *)
SwapConfig(o) ==
    /\ op[o].pc = "load" /\ op[o].todo = {}
    /\ Valid(op[o].read)
    /\ cfg' = Models(op[o].read)
    /\ Goto(o, "swap")
    /\ UNCHANGED <<disk, catalog, mutex, failed, engines, history>>

SwapCatalog(o) ==
    /\ op[o].pc = "swap"
    /\ catalog' = Models(op[o].read)
    /\ mutex' = None
    /\ op' = [op EXCEPT ![o] = After(o)]
    /\ ready' = IF op[o].kind = "install" THEN ready \ {op[o].id} ELSE ready
    /\ UNCHANGED <<disk, cfg, failed, engines, mixed>>

-----------------------------------------------------------------------------
Request(o) ==
    \/ \E i \in Ids : Begin(o, "install", i, FALSE)
    \/ \E i \in Ids, b \in BOOLEAN : Begin(o, "publish", i, b)
    \/ \E i \in Ids : Begin(o, "uninstall", i, FALSE)
    \/ Hup(o)

Reload(o) == Lock(o) \/ LoadFile(o) \/ Invalid(o) \/ SwapConfig(o) \/ SwapCatalog(o)

WriteModel(o) == Find(o) \/ Create(o) \/ Write(o) \/ Rename(o)

Next == \E o \in Ops :
    \/ Request(o)
    \/ Start(o) \/ StartFails(o) \/ Lookup(o) \/ WriteModel(o) \/ DiskFails(o)
    \/ Locate(o) \/ Unlink(o) \/ StopEngine(o)
    \/ Reload(o)

Spec == Init /\ [][Next]_vars

-----------------------------------------------------------------------------
(* Correctness *)

Quiet == \A o \in Ops : op[o].pc = "idle"

OnDisk == {<<f, file[f]>> : f \in Listed}

TypeOK ==
    /\ file \in [Files -> Model \cup {Partial, None}]
    /\ tmp \in [Files -> Model \cup {Partial, None}]
    /\ cfg \subseteq Model /\ catalog \subseteq Model
    /\ mutex \in Ops \cup {None}
    /\ engines \subseteq Nodes \X Ids /\ ready \subseteq Ids /\ mixed \subseteq Files
    /\ mutex # None => op[mutex].pc \in {"load", "swap"}

(* Once the handlers have returned, the catalog that requests are checked
   against is what the directory says, whatever the order in which they wrote
   and reloaded: no reload puts back what an earlier listing saw.  Needs that
   the directory is valid and that no two operations met on one file. *)
CatalogCurrent ==
    Quiet /\ mixed = {} /\ (\A x \in OnDisk : x[2] # Partial) /\ Valid(OnDisk)
        => catalog = Models(OnDisk)

(* The document a reload reads is complete, unless two operations met on the
   file. *)
CompleteFiles ==
    \A f \in Files \ mixed : file[f] # Partial

(* Some node was given an engine for the model, and it was not removed. *)
HasEngine(i) == \E n \in Nodes : <<n, i>> \in engines

(* A visible model of the catalog was published after the last install that
   went through, and some agent was given an engine for it that no uninstall has
   removed: install starts the engine first and stages the model hidden, and
   uninstall removes an engine when neither the directory nor the catalog nor a
   reload under way has the model any more.  The engine may be down: an operator
   can stop it on its node, and it can fail; the entry stays visible then.  For
   models whose file no two operations met on, and as long as no reload has
   failed (install and uninstall go on after one, and a later publish writes the
   entry that is still in memory). *)
VisibleHasEngine ==
    \A c \in catalog :
        c.ready /\ c.id \notin Base /\ NameOf[c.id] \notin mixed /\ ~failed =>
            c.id \in ready /\ HasEngine(c.id)

-----------------------------------------------------------------------------
(* "Remove from the catalog first so no new traffic is routed at a model we are
   about to stop" (provision.go, line 376).  Violated: a publish that read the
   entry before an uninstall writes it back after it, and the catalog offers a
   model that has no engine. *)
UninstallIsFinal ==
    Quiet /\ ~failed => \A c \in catalog : c.ready => c.id \in Base \/ HasEngine(c.id)

=============================================================================
