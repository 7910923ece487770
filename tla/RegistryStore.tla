--------------------------- MODULE RegistryStore ----------------------------
(***************************************************************************)
(* registry.Store as the daemon runs it: every request is a goroutine that *)
(* validates, takes the store's lock, edits a private copy of the registry,*)
(* saves it step by step (temporary file, write, sync, close, rename) and  *)
(* only then publishes it in memory.  Any step of the save may fail, the   *)
(* daemon may die between two of them, and the machine may lose power.     *)
(*                                                                         *)
(* A request does not carry its caller's context into the store, so a      *)
(* caller that has given up (the client's timeout is ten seconds) changes  *)
(* nothing here: its request runs on and its answer is dropped.            *)
(***************************************************************************)
EXTENDS RegistryData

CONSTANTS
  Handlers, \* requests that can be in progress at the same time
  NoOne     \* the holder of a free lock

ASSUME NoOneAssumption == NoOne \notin Handlers

VARIABLES
  up,     \* whether the daemon is running
  mem,    \* Store.apps
  disk,   \* registry.json as a process sees it
  stable, \* registry.json as it would be after a loss of power
  lock,   \* the goroutine that holds Store.mu for writing, or NoOne
  pc,     \* where each goroutine is
  op,     \* what it was asked to do
  cand,   \* its candidate registry (the local variable apps)
  tmp,    \* the state of its temporary file
  ans     \* its answer

vars == <<up, mem, disk, stable, lock, pc, op, cand, tmp, ans>>

\* The steps of saveLocked, in order, and the publication that follows.
Steps == {"create", "write", "sync", "close", "rename", "publish"}

\* The file: its contents, whether they parse, and whether they were synced.
Forms == {"absent", "empty", "torn", "whole"}

Files == [form : Forms, apps : Registries, synced : BOOLEAN]

NoFile == [form |-> "absent", apps |-> EmptyRegistry, synced |-> TRUE]

\* What Open makes of a file: an absent and an empty one are an empty registry.
Readable(f) == f.form # "torn"

Load(f) == IF f.form = "whole" THEN f.apps ELSE EmptyRegistry

Init ==
  /\ up = TRUE
  /\ mem = EmptyRegistry
  /\ disk = NoFile
  /\ stable = NoFile
  /\ lock = NoOne
  /\ pc = [h \in Handlers |-> "idle"]
  /\ op = [h \in Handlers |-> NoOp]
  /\ cand = [h \in Handlers |-> EmptyRegistry]
  /\ tmp = [h \in Handlers |-> "none"]
  /\ ans = [h \in Handlers |-> Answer("none")]

(***************************************************************************)
(* A request arrives, is checked, and takes the lock.                      *)
(***************************************************************************)

Receive(h, o) ==
  /\ up
  /\ pc[h] = "idle"
  /\ pc' = [pc EXCEPT ![h] = "received"]
  /\ op' = [op EXCEPT ![h] = o]
  /\ UNCHANGED <<up, mem, disk, stable, lock, cand, tmp, ans>>

Finish(h, a) ==
  /\ pc' = [pc EXCEPT ![h] = "answered"]
  /\ ans' = [ans EXCEPT ![h] = a]
  /\ cand' = [cand EXCEPT ![h] = EmptyRegistry]
  /\ UNCHANGED <<up, stable, op>>

Refuse(h) ==
  /\ pc[h] = "received"
  /\ ~Valid(op[h])
  /\ Finish(h, Answer("invalid"))
  /\ UNCHANGED <<mem, disk, lock, tmp>>

\* Apps and App hold the read lock while they copy: no writer is inside.
Read(h) ==
  /\ pc[h] = "received"
  /\ ~IsWrite(op[h])
  /\ Valid(op[h])
  /\ lock = NoOne
  /\ Finish(h, IF Found(mem, op[h]) THEN Success(mem, op[h])
                                    ELSE Answer("notFound"))
  /\ UNCHANGED <<mem, disk, lock, tmp>>

\* A removal of what is not there returns without saving.
Miss(h) ==
  /\ pc[h] = "received"
  /\ IsWrite(op[h])
  /\ Valid(op[h])
  /\ lock = NoOne
  /\ ~Found(mem, op[h])
  /\ Finish(h, Answer("notFound"))
  /\ UNCHANGED <<mem, disk, lock, tmp>>

\* Mutant: the clone is edited without waiting for the lock.
BeginUnlocked(h) ==
  /\ pc[h] = "received"
  /\ IsWrite(op[h])
  /\ Valid(op[h])
  /\ Found(mem, op[h])
  /\ lock' = h
  /\ cand' = [cand EXCEPT ![h] = Edited(mem, op[h])]
  /\ pc' = [pc EXCEPT ![h] = "create"]
  /\ UNCHANGED <<up, mem, disk, stable, op, tmp, ans>>

\* Lock, and edit a clone of the registry.
Begin(h) ==
  /\ pc[h] = "received"
  /\ IsWrite(op[h])
  /\ Valid(op[h])
  /\ lock = NoOne
  /\ Found(mem, op[h])
  /\ lock' = h
  /\ cand' = [cand EXCEPT ![h] = Edited(mem, op[h])]
  /\ pc' = [pc EXCEPT ![h] = "create"]
  /\ UNCHANGED <<up, mem, disk, stable, op, tmp, ans>>

(***************************************************************************)
(* commitLocked: save, then publish.                                       *)
(***************************************************************************)

Save(h, from, to, file) ==
  /\ pc[h] = from
  /\ pc' = [pc EXCEPT ![h] = to]
  /\ tmp' = [tmp EXCEPT ![h] = file]
  /\ UNCHANGED <<up, mem, stable, lock, op, cand, ans>>

CreateTemp(h) == Save(h, "create", "write", "empty") /\ UNCHANGED disk

\* Mutant: the file is not synced before the rename.
WriteTempNoSync(h) == Save(h, "write", "close", "written") /\ UNCHANGED disk

WriteTemp(h) == Save(h, "write", "sync", "written") /\ UNCHANGED disk

SyncTemp(h) == Save(h, "sync", "close", "synced") /\ UNCHANGED disk

CloseTemp(h) == Save(h, "close", "rename", tmp[h]) /\ UNCHANGED disk

Rename(h) ==
  /\ disk' = [form |-> IF tmp[h] = "empty" THEN "empty" ELSE "whole",
              apps |-> cand[h],
              synced |-> tmp[h] = "synced"]
  /\ Save(h, "rename", "publish", "none")

Publish(h) ==
  /\ pc[h] = "publish"
  /\ mem' = cand[h]
  /\ lock' = NoOne
  /\ Finish(h, Success(mem, op[h]))
  /\ UNCHANGED <<disk, tmp>>

\* Mutants: a failed save is published all the same, or keeps the lock.
SaveFailsVisible(h) ==
  /\ pc[h] \in Steps \ {"publish"}
  /\ tmp' = [tmp EXCEPT ![h] = "none"]
  /\ lock' = NoOne
  /\ mem' = cand[h]
  /\ Finish(h, Answer("failed"))
  /\ UNCHANGED disk

SaveFailsLocked(h) ==
  /\ pc[h] \in Steps \ {"publish"}
  /\ tmp' = [tmp EXCEPT ![h] = "none"]
  /\ Finish(h, Answer("failed"))
  /\ UNCHANGED <<mem, disk, lock>>

\* Whatever step of the save fails, the temporary file is removed, the lock
\* is released and the registry in memory is left alone.
SaveFails(h) ==
  /\ pc[h] \in Steps \ {"publish"}
  /\ tmp' = [tmp EXCEPT ![h] = "none"]
  /\ lock' = NoOne
  /\ Finish(h, Answer("failed"))
  /\ UNCHANGED <<mem, disk>>

Respond(h) ==
  /\ pc[h] = "answered"
  /\ pc' = [pc EXCEPT ![h] = "idle"]
  /\ op' = [op EXCEPT ![h] = NoOp]
  /\ ans' = [ans EXCEPT ![h] = Answer("none")]
  /\ UNCHANGED <<up, mem, disk, stable, lock, cand, tmp>>

(***************************************************************************)
(* The process and the machine.                                            *)
(***************************************************************************)

\* The file system writes back the directory entry the rename changed: the
\* code syncs the file and not its directory.
FlushDirectory ==
  /\ stable' = disk
  /\ UNCHANGED <<up, mem, disk, lock, pc, op, cand, tmp, ans>>

\* The process is gone with all its goroutines.  A temporary file it was
\* writing stays behind under a name nothing uses again.
Stop ==
  /\ up
  /\ up' = FALSE
  /\ mem' = EmptyRegistry
  /\ lock' = NoOne
  /\ pc' = [h \in Handlers |-> "idle"]
  /\ op' = [h \in Handlers |-> NoOp]
  /\ cand' = [h \in Handlers |-> EmptyRegistry]
  /\ tmp' = [h \in Handlers |-> "none"]
  /\ ans' = [h \in Handlers |-> Answer("none")]

Crash == Stop /\ UNCHANGED <<disk, stable>>

\* Contents that were never synced may be found cut short or missing.
AfterPowerLoss(f) ==
  IF f.synced THEN {f} ELSE {[f EXCEPT !.form = x] : x \in {"empty", "torn"}}

PowerLoss ==
  /\ Stop
  /\ disk' \in AfterPowerLoss(disk) \cup AfterPowerLoss(stable)
  /\ stable' = disk'

\* Open: an unreadable file is an error, and the daemon does not start.
Open ==
  /\ ~up
  /\ Readable(disk)
  /\ up' = TRUE
  /\ mem' = Load(disk)
  /\ UNCHANGED <<disk, stable, lock, pc, op, cand, tmp, ans>>

Commit(h) ==
  \/ CreateTemp(h) \/ WriteTemp(h) \/ SyncTemp(h) \/ CloseTemp(h)
  \/ Rename(h) \/ Publish(h) \/ SaveFails(h)

Acquire(h) == Read(h) \/ Miss(h) \/ Begin(h)

Next ==
  \/ \E h \in Handlers :
       \/ \E o \in Ops : Receive(h, o)
       \/ Refuse(h) \/ Acquire(h) \/ Commit(h) \/ Respond(h)
  \/ FlushDirectory \/ Crash \/ PowerLoss \/ Open

Spec == Init /\ [][Next]_vars

(***************************************************************************)
(* A goroutine that can run does run.  The lock is only free now and then  *)
(* while others write, but sync.RWMutex hands it to a goroutine that has   *)
(* waited, hence the strong fairness.                                      *)
(***************************************************************************)
Fairness ==
  \A h \in Handlers : WF_vars(Refuse(h)) /\ SF_vars(Acquire(h)) /\ WF_vars(Commit(h))

FairSpec == Spec /\ Fairness

(***************************************************************************)
(* Properties.                                                             *)
(***************************************************************************)

TypeOK ==
  /\ up \in BOOLEAN
  /\ mem \in Registries
  /\ disk \in Files
  /\ stable \in Files
  /\ lock \in Handlers \cup {NoOne}
  /\ pc \in [Handlers -> {"idle", "received", "answered"} \cup Steps]
  /\ op \in [Handlers -> Ops \cup {NoOp}]
  /\ cand \in [Handlers -> Registries]
  /\ tmp \in [Handlers -> {"none", "empty", "written", "synced"}]
  /\ ans \in [Handlers -> Answers]

\* commitLocked publishes "only after persistence succeeds" and a save that
\* fails publishes nothing: while no goroutine is between the rename and the
\* publication, memory and file say the same, whatever failed before.
MemoryIsDisk ==
  up /\ (\A h \in Handlers : pc[h] # "publish") => mem = Load(disk)

\* registry.json is never seen, or found after a crash or a loss of power,
\* empty or cut short: a restarted daemon always reads back a registry.
NeverTorn ==
  \A f \in AfterPowerLoss(disk) \cup AfterPowerLoss(stable) :
    f.form \in {"absent", "whole"}

\* No registry a reader, a restart or a loss of power can show has an app
\* without services: RemoveService drops the app it empties.
NoAppWithoutServices ==
  /\ NoEmptyApp(mem)
  /\ NoEmptyApp(Load(disk))
  /\ NoEmptyApp(Load(stable))

\* Temporary files do not pile up: outside of a crash, one exists only while
\* the goroutine that holds the lock is saving.
TempOnlyWhileSaving ==
  \A h \in Handlers : tmp[h] # "none" => lock = h

\* Every request is answered (or dies with the daemon): the lock is released
\* on every path through a write, the failing ones included.
EveryRequestAnswered ==
  \A h \in Handlers : pc[h] = "received" ~> pc[h] \in {"answered", "idle"}

(***************************************************************************)
(* The store implements the atomic registry.  A write takes effect at the  *)
(* rename, before memory shows it: the registry is the file.               *)
(***************************************************************************)

Phase(h) ==
  CASE pc[h] = "idle"                      -> "idle"
    [] pc[h] \in {"publish", "answered"}   -> "done"
    [] OTHER                               -> "pending"

Atomic == INSTANCE Registry WITH
  map    <- Load(disk),
  stable <- Load(stable),
  phase  <- [h \in Handlers |-> Phase(h)],
  ans    <- [h \in Handlers |->
               IF pc[h] = "publish" THEN Success(Load(disk), op[h]) ELSE ans[h]]

\* Every operation takes effect at one instant, or not at all (see Registry).
ImplementsRegistry == Atomic!Spec

=============================================================================
