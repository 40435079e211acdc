------------------------------- MODULE StateFile -------------------------------
(***************************************************************************)
(* The agent's state file (persist and Restore, internal/agent/            *)
(* supervisor.go).                                                         *)
(*                                                                         *)
(* Handlers, probers and reapers call persist when they are done (a Start  *)
(* whose launch failed does not).  It takes a snapshot of the desired      *)
(* models under the lock, and then, with no lock held, writes it to        *)
(* instances.json.tmp and renames that onto instances.json.  This module   *)
(* takes persist apart into its system calls, lets each of them fail and   *)
(* the agent die between any two of them, and restarts it.                 *)
(*                                                                         *)
(* Every writer uses the same temporary path, so the file a writer has     *)
(* open is modelled by its inode: a rename moves the inode, and an open    *)
(* descriptor follows it.                                                  *)
(***************************************************************************)
EXTENDS Naturals, FiniteSets

CONSTANTS
    Models,     \* names of served models
    Writers,   \* goroutines that change the desired models and call persist
    Restorer,  \* main, which runs Restore before the agent listens
    Inodes,    \* files of the state directory
    NoFile,    \* no such file
    MaxCrashes \* bound: how many times the agent dies

ASSUME StateFileAssumption ==
    /\ Restorer \notin Writers
    /\ NoFile \notin Inodes
    /\ MaxCrashes \in Nat
    /\ IsFiniteSet(Models)

VARIABLES
    want,     \* models whose instance is in the map and desired
    unstarted,     \* specs Restore has read and not started yet
    pc,       \* where each goroutine is in persist
    snap,     \* the snapshot each one took
    fd,       \* the file each one has open
    data,     \* content of each inode
    tmp,      \* inode of instances.json.tmp
    file,     \* inode of instances.json
    crashes,
    lone,       \* history: goroutines no other persist has run beside so far
    overlapped, \* history: persists have overlapped since the last lone one
    unsaved     \* history: names a Start has put into the map, Restore could not
                \* start, or a failed persist did not write, since a snapshot

history == <<lone, overlapped, unsaved>>
sfvars == <<want, unstarted, pc, snap, fd, data, tmp, file, crashes, lone, overlapped, unsaved>>

Goroutines == Writers \cup {Restorer}

(* Content of a file: the specs of a set of names, or bytes that json.Unmarshal
   rejects (a file just truncated is empty, which it rejects too). *)
Specs(S)  == [ok |-> TRUE, names |-> S]
Truncated == [ok |-> FALSE, names |-> {}]
Mixed     == [ok |-> FALSE, names |-> Models]
Contents  == {Specs(S) : S \in SUBSET Models} \cup {Truncated, Mixed}

(* The agent is first started in a fresh state directory: Restore finds no
   file.  The first Start creates it. *)
SFInit ==
    /\ want = {} /\ unstarted = {}
    /\ pc = [g \in Goroutines |-> "idle"]
    /\ snap = [g \in Goroutines |-> {}]
    /\ fd = [g \in Goroutines |-> NoFile]
    /\ data = [f \in Inodes |-> Truncated]
    /\ tmp = NoFile /\ file = NoFile
    /\ crashes = 0
    /\ lone = {} /\ overlapped = FALSE /\ unsaved = {}

-----------------------------------------------------------------------------
(* What leads to a persist.  API calls are served only when Restore is
   through. *)

Restored == unstarted = {} /\ pc[Restorer] = "idle"

(* Start puts the instance into the map, desired, and launches the engine.  A
   name that is there already can be started again when its engine has failed.
   (A Start that is refused changes nothing.) *)
AddModel(g, n) ==
    /\ Restored /\ pc[g] = "idle"
    /\ want' = want \cup {n}
    /\ unsaved' = unsaved \cup {n}
    /\ pc' = [pc EXCEPT ![g] = "launch"]
    /\ UNCHANGED <<unstarted, snap, fd, data, tmp, file, crashes, lone, overlapped>>

(* The launch fails: Start returns with the instance in the map, still desired,
   and does not persist. *)
LaunchFails(g) ==
    /\ pc[g] = "launch"
    /\ pc' = [pc EXCEPT ![g] = "idle"]
    /\ UNCHANGED <<want, unstarted, snap, fd, data, tmp, file, crashes, history>>

(* A mutant: the caller that drops a model does not persist. *)
DropUnsaved(g, n) ==
    /\ Restored /\ n \in want /\ pc[g] = "idle"
    /\ want' = want \ {n}
    /\ UNCHANGED <<unstarted, pc, snap, fd, data, tmp, file, crashes, history>>

(* Stop and Remove clear what is desired, wait for the engine, and persist. *)
DropModel(g, n) ==
    /\ Restored /\ n \in want /\ pc[g] = "idle"
    /\ want' = want \ {n}
    /\ pc' = [pc EXCEPT ![g] = "snapshot"]
    /\ UNCHANGED <<unstarted, snap, fd, data, tmp, file, crashes, history>>

(* A prober, a reaper, the Stop of a model already stopped or the second persist
   of Remove: a persist that changes nothing itself. *)
Refresh(g) ==
    /\ pc[g] = "idle"
    /\ pc' = [pc EXCEPT ![g] = "snapshot"]
    /\ UNCHANGED <<want, unstarted, snap, fd, data, tmp, file, crashes, history>>

(* persist, a system call at a time.  The snapshot begins it; a launch that
   succeeded goes on here. *)

InPersist(g) == pc[g] \in {"open", "write", "rename"}

TakeSnapshot(g) ==
    /\ pc[g] \in {"launch", "snapshot"}
    /\ snap' = [snap EXCEPT ![g] = want]
    /\ pc' = [pc EXCEPT ![g] = "open"]
    /\ unsaved' = {}
    /\ LET alone == \A h \in Goroutines : ~InPersist(h) IN
        /\ lone' = IF alone THEN {g} ELSE {}
        /\ overlapped' = (overlapped \/ ~alone)
    /\ UNCHANGED <<want, unstarted, fd, data, tmp, file, crashes>>

Unused(f) == f # file /\ f # tmp /\ \A g \in Goroutines : fd[g] # f

(* A mutant: the state file itself is opened and written. *)
OpenStateFile(g) ==
    /\ pc[g] = "open"
    /\ \E f \in Inodes :
        /\ IF file = NoFile THEN Unused(f) ELSE f = file
        /\ data' = [data EXCEPT ![f] = Truncated]
        /\ file' = f
        /\ fd' = [fd EXCEPT ![g] = f]
    /\ pc' = [pc EXCEPT ![g] = "write"]
    /\ UNCHANGED <<want, unstarted, snap, tmp, crashes, history>>

(* os.WriteFile opens the temporary file, creating or truncating it ... *)
OpenTmp(g) ==
    /\ pc[g] = "open"
    /\ \E f \in Inodes :
        /\ IF tmp = NoFile THEN Unused(f) ELSE f = tmp
        /\ data' = [data EXCEPT ![f] = Truncated]
        /\ tmp' = f
        /\ fd' = [fd EXCEPT ![g] = f]
    /\ pc' = [pc EXCEPT ![g] = "write"]
    /\ UNCHANGED <<want, unstarted, snap, file, crashes, history>>

(* ... and writes it from its start.  Over bytes another writer has put there
   the result is the new specs if they are at least as long, a mixture if the
   old tail remains. *)
WriteResults(old, S) ==
    CASE ~old.ok /\ old.names = {}         -> {Specs(S)}
      [] old.ok /\ old.names \subseteq S   -> {Specs(S)}
      [] OTHER                             -> {Specs(S), Mixed}

WriteTmp(g) ==
    /\ pc[g] = "write"
    /\ \E d \in WriteResults(data[fd[g]], snap[g]) :
        data' = [data EXCEPT ![fd[g]] = d]
    /\ pc' = [pc EXCEPT ![g] = "rename"]
    /\ fd' = [fd EXCEPT ![g] = NoFile]
    /\ UNCHANGED <<want, unstarted, snap, tmp, file, crashes, history>>

(* os.Rename; when another writer has renamed the file already it fails, which
   is logged.  The file it replaces is freed, unless another has it open. *)
Freed(f) == IF \E g \in Goroutines : fd[g] = f THEN data ELSE [data EXCEPT ![f] = Truncated]

Rename(g) ==
    /\ pc[g] = "rename"
    /\ IF tmp = NoFile THEN UNCHANGED <<tmp, file, data>>
       ELSE file' = tmp /\ tmp' = NoFile /\ data' = Freed(file)
    /\ pc' = [pc EXCEPT ![g] = "idle"]
    /\ snap' = [snap EXCEPT ![g] = {}]
    /\ lone' = lone \ {g}
    /\ overlapped' = (overlapped /\ g \notin lone)
    /\ UNCHANGED <<want, unstarted, fd, crashes, unsaved>>

(* A system call fails: persist logs it and returns.  A write that fails may
   have written some of the bytes. *)
PersistFails(g) ==
    /\ InPersist(g)
    /\ \/ data' = data
       \/ pc[g] = "write" /\ data' = [data EXCEPT ![fd[g]] = Mixed]
    /\ pc' = [pc EXCEPT ![g] = "idle"]
    /\ snap' = [snap EXCEPT ![g] = {}]
    /\ fd' = [fd EXCEPT ![g] = NoFile]
    /\ lone' = lone \ {g}
    /\ unsaved' = Models
    /\ UNCHANGED <<want, unstarted, tmp, file, crashes, overlapped>>

-----------------------------------------------------------------------------
(* The agent dies (the directory survives) and is started again: Restore reads
   the file, and gives up on one it cannot parse. *)
Crash ==
    /\ crashes < MaxCrashes
    /\ crashes' = crashes + 1
    /\ want' = {}
    /\ unstarted' = IF file # NoFile /\ data[file].ok THEN data[file].names ELSE {}
    /\ pc' = [g \in Goroutines |-> "idle"]
    /\ snap' = [g \in Goroutines |-> {}]
    /\ fd' = [g \in Goroutines |-> NoFile]
    /\ lone' = {} /\ unsaved' = {}
    /\ UNCHANGED <<data, tmp, file, overlapped>>

(* Restore starts the specs one by one; each Start persists if its launch
   succeeds ... *)
RestoreNext(n) ==
    /\ n \in unstarted /\ pc[Restorer] = "idle"
    /\ unstarted' = unstarted \ {n}
    /\ want' = want \cup {n}
    /\ unsaved' = unsaved \cup {n}
    /\ pc' = [pc EXCEPT ![Restorer] = "launch"]
    /\ UNCHANGED <<snap, fd, data, tmp, file, crashes, lone, overlapped>>

(* ... and one it refuses (no port is free) is logged and passed over. *)
RestoreRefused(n) ==
    /\ n \in unstarted /\ pc[Restorer] = "idle"
    /\ unstarted' = unstarted \ {n}
    /\ unsaved' = unsaved \cup {n}
    /\ UNCHANGED <<want, pc, snap, fd, data, tmp, file, crashes, lone, overlapped>>

Persist(g) == TakeSnapshot(g) \/ OpenTmp(g) \/ WriteTmp(g) \/ Rename(g) \/ PersistFails(g)

SFNext ==
    \/ \E g \in Writers, n \in Models : AddModel(g, n) \/ DropModel(g, n)
    \/ \E g \in Writers : Refresh(g)
    \/ \E g \in Goroutines : LaunchFails(g) \/ Persist(g)
    \/ \E n \in Models : RestoreNext(n) \/ RestoreRefused(n)
    \/ Crash

SFSpec == SFInit /\ [][SFNext]_sfvars

-----------------------------------------------------------------------------
(* Correctness *)

SFTypeOK ==
    /\ want \in SUBSET Models /\ unstarted \in SUBSET Models
    /\ pc \in [Goroutines -> {"idle", "launch", "snapshot", "open", "write", "rename"}]
    /\ snap \in [Goroutines -> SUBSET Models]
    /\ fd \in [Goroutines -> Inodes \cup {NoFile}]
    /\ data \in [Inodes -> Contents]
    /\ tmp \in Inodes \cup {NoFile} /\ file \in Inodes \cup {NoFile}
    /\ crashes \in 0..MaxCrashes
    /\ lone \in SUBSET Goroutines /\ overlapped \in BOOLEAN
    /\ unsaved \in SUBSET Models

FileComplete == file # NoFile => data[file].ok

Quiescent == unstarted = {} /\ \A g \in Goroutines : pc[g] = "idle"

(* What the file says, and what it should say. *)
Saved == IF file = NoFile THEN {} ELSE data[file].names
FileCurrent == Saved \ unsaved = want \ unsaved

(* As long as no two persists have overlapped, instances.json can be parsed at
   every moment, so a crash between any two system calls of persist loses no
   model; and a persist that runs alone repairs what overlapping ones left,
   whatever temporary file and descriptors a crash left behind. *)
CompleteUnlessOverlapped == ~overlapped => FileComplete

(* ... and once every call has returned the file names exactly the models the
   agent wants, so a restart brings back those and no other, except for the
   names no snapshot has covered since a Start of theirs failed or a persist of
   them met an error: those the next persist saves. *)
CurrentUnlessOverlapped == ~overlapped /\ Quiescent => FileCurrent

-----------------------------------------------------------------------------
(* What the comments of supervisor.go say, and overlapping or failing calls
   break. *)

(* "a crash mid-write cannot leave a truncated file that would lose every model
   on the next restart" (lines 524-525). *)
NeverTruncated == FileComplete

(* "Persist the desired state, not the current one: a model that is momentarily
   restarting, or that was running when the agent was told to shut down, should
   still come back" (lines 497-499): the instance of a failed Start is desired,
   and no persist follows. *)
DesiredIsSaved == ~overlapped /\ Quiescent => Saved = want

(* "Restore relaunches the models that were running when the agent last
   stopped" (line 531): a model that was persisted stays in the file until an
   operator stops it, so while Restore runs the file holds what is to come. *)
RestoreKeepsTheRest ==
    ~overlapped /\ file # NoFile => unstarted \subseteq data[file].names

=============================================================================
