------------------------ MODULE RegistryStore_proofs ------------------------
(***************************************************************************)
(* Proofs about RegistryStore, for any number of requests in progress and  *)
(* any names and services: the registry in memory is the one on disk, what *)
(* is on disk is always readable, and the store implements the atomic      *)
(* registry.                                                               *)
(***************************************************************************)
EXTENDS RegistryStore, TLAPS

(***************************************************************************)
(* Facts about the edits of a registry: they yield registries, and they    *)
(* leave no app without services.                                          *)
(***************************************************************************)

LEMMA PartialIntro ==
  ASSUME NEW U, NEW T, NEW A \in SUBSET U, NEW f \in [A -> T]
  PROVE  f \in Partial(U, T)
  BY DEF Partial

LEMMA PartialElim ==
  ASSUME NEW U, NEW T, NEW f \in Partial(U, T)
  PROVE  /\ DOMAIN f \subseteq U
         /\ f \in [DOMAIN f -> T]
         /\ \A x \in DOMAIN f : f[x] \in T
  BY DEF Partial

LEMMA EmptyPartial ==
  ASSUME NEW U, NEW T
  PROVE  EmptyRegistry \in Partial(U, T) /\ DOMAIN EmptyRegistry = {}
<1>1. EmptyRegistry \in [{} -> T]
  BY DEF EmptyRegistry
<1> QED BY <1>1, PartialIntro DEF EmptyRegistry

LEMMA WithPartial ==
  ASSUME NEW U, NEW T, NEW f \in Partial(U, T), NEW x \in U, NEW v \in T
  PROVE  /\ With(f, x, v) \in Partial(U, T)
         /\ DOMAIN With(f, x, v) = DOMAIN f \cup {x}
         /\ With(f, x, v)[x] = v
         /\ \A y \in DOMAIN f \ {x} : With(f, x, v)[y] = f[y]
<1>1. DOMAIN f \cup {x} \in SUBSET U /\ \A y \in DOMAIN f : f[y] \in T
  BY PartialElim
<1>2. With(f, x, v) \in [DOMAIN f \cup {x} -> T]
  BY <1>1 DEF With
<1> QED BY <1>1, <1>2, PartialIntro DEF With

LEMMA WithoutPartial ==
  ASSUME NEW U, NEW T, NEW f \in Partial(U, T), NEW x
  PROVE  /\ Without(f, x) \in Partial(U, T)
         /\ DOMAIN Without(f, x) = DOMAIN f \ {x}
         /\ \A y \in DOMAIN f \ {x} : Without(f, x)[y] = f[y]
<1>1. DOMAIN f \ {x} \in SUBSET U /\ \A y \in DOMAIN f : f[y] \in T
  BY PartialElim
<1>2. Without(f, x) \in [DOMAIN f \ {x} -> T]
  BY <1>1 DEF Without
<1> QED BY <1>1, <1>2, PartialIntro DEF Without

LEMMA EmptyRegistryType == EmptyRegistry \in Registries /\ EmptyRegistry \in ServiceMaps
  BY EmptyPartial DEF Registries, ServiceMaps

\* The same facts at the two levels of a registry.
LEMMA WithService ==
  ASSUME NEW svcs \in ServiceMaps, NEW s \in Services \cap ValidNames, NEW v \in Stored
  PROVE  /\ With(svcs, s, v) \in ServiceMaps
         /\ DOMAIN With(svcs, s, v) # {}
<1> DEFINE U == Services \cap ValidNames
<1>1. svcs \in Partial(U, Stored)
  BY DEF ServiceMaps
<1>2. /\ With(svcs, s, v) \in Partial(U, Stored)
      /\ DOMAIN With(svcs, s, v) = DOMAIN svcs \cup {s}
      /\ With(svcs, s, v)[s] = v
      /\ \A y \in DOMAIN svcs \ {s} : With(svcs, s, v)[y] = svcs[y]
  <2> HIDE DEF U
  <2>1. s \in U
    BY DEF U
  <2> QED BY <1>1, <2>1, WithPartial
<1> QED BY <1>2 DEF ServiceMaps

LEMMA WithoutService ==
  ASSUME NEW svcs \in ServiceMaps, NEW s
  PROVE  Without(svcs, s) \in ServiceMaps
<1> DEFINE U == Services \cap ValidNames
<1>1. svcs \in Partial(U, Stored)
  BY DEF ServiceMaps
<1>2. Without(svcs, s) \in Partial(U, Stored)
  <2> HIDE DEF U
  <2> QED BY <1>1, WithoutPartial
<1> QED BY <1>2 DEF ServiceMaps

LEMMA AppOf ==
  ASSUME NEW apps \in Registries, NEW a \in DOMAIN apps
  PROVE  a \in Apps \cap ValidNames /\ apps[a] \in ServiceMaps
<1> DEFINE U == Apps \cap ValidNames
<1>1. apps \in Partial(U, ServiceMaps)
  BY DEF Registries
<1>2. DOMAIN apps \subseteq U /\ \A x \in DOMAIN apps : apps[x] \in ServiceMaps
  <2> HIDE DEF U
  <2> QED BY <1>1, PartialElim
<1> QED BY <1>2

LEMMA WithApp ==
  ASSUME NEW apps \in Registries, NEW a \in Apps \cap ValidNames,
         NEW svcs \in ServiceMaps, DOMAIN svcs # {}
  PROVE  /\ With(apps, a, svcs) \in Registries
         /\ NoEmptyApp(apps) => NoEmptyApp(With(apps, a, svcs))
<1> DEFINE U == Apps \cap ValidNames
<1>1. apps \in Partial(U, ServiceMaps)
  BY DEF Registries
<1>2. /\ With(apps, a, svcs) \in Partial(U, ServiceMaps)
      /\ DOMAIN With(apps, a, svcs) = DOMAIN apps \cup {a}
      /\ With(apps, a, svcs)[a] = svcs
      /\ \A y \in DOMAIN apps \ {a} : With(apps, a, svcs)[y] = apps[y]
  <2> HIDE DEF U
  <2>1. a \in U
    BY DEF U
  <2> QED BY <1>1, <2>1, WithPartial
<1>3. With(apps, a, svcs) \in Registries
  BY <1>2 DEF Registries
<1>4. NoEmptyApp(apps) => NoEmptyApp(With(apps, a, svcs))
  BY <1>2 DEF NoEmptyApp
<1> QED BY <1>3, <1>4

LEMMA WithoutApp ==
  ASSUME NEW apps \in Registries, NEW a
  PROVE  /\ Without(apps, a) \in Registries
         /\ NoEmptyApp(apps) => NoEmptyApp(Without(apps, a))
<1> DEFINE U == Apps \cap ValidNames
<1>1. apps \in Partial(U, ServiceMaps)
  BY DEF Registries
<1>2. /\ Without(apps, a) \in Partial(U, ServiceMaps)
      /\ DOMAIN Without(apps, a) = DOMAIN apps \ {a}
      /\ \A y \in DOMAIN apps \ {a} : Without(apps, a)[y] = apps[y]
  <2> HIDE DEF U
  <2>1. Without(apps, a) \in Partial(U, ServiceMaps)
    BY <1>1, WithoutPartial
  <2>2. DOMAIN Without(apps, a) = DOMAIN apps \ {a}
    BY DEF Without
  <2>3. \A y \in DOMAIN apps \ {a} : Without(apps, a)[y] = apps[y]
    BY DEF Without
  <2> QED BY <2>1, <2>2, <2>3
<1> QED BY <1>2 DEF Registries, NoEmptyApp

LEMMA ServicesOfType ==
  ASSUME NEW apps \in Registries, NEW a
  PROVE  ServicesOf(apps, a) \in ServiceMaps
  BY EmptyRegistryType, AppOf DEF ServicesOf

LEMMA PutType ==
  ASSUME NEW apps \in Registries, NEW o \in Writes, o.kind = "put", Valid(o)
  PROVE  /\ PutService(apps, o) \in Registries
         /\ NoEmptyApp(apps) => NoEmptyApp(PutService(apps, o))
<1>1. /\ o.app \in Apps \cap ValidNames
      /\ o.service \in Services \cap ValidNames
      /\ o.svc \in Requested /\ ValidService(o.svc)
  BY DEF Writes, Valid
<1>2. Normalize(o.svc) \in Stored
  BY <1>1 DEF Stored
<1> DEFINE svcs == With(ServicesOf(apps, o.app), o.service, Normalize(o.svc))
<1>3. svcs \in ServiceMaps /\ DOMAIN svcs # {}
  BY <1>1, <1>2, ServicesOfType, WithService
<1>4. PutService(apps, o) = With(apps, o.app, svcs)
  BY DEF PutService
<1> HIDE DEF svcs
<1> QED BY <1>1, <1>3, <1>4, WithApp

LEMMA RemoveServiceType ==
  ASSUME NEW apps \in Registries, NEW o, o.app \in DOMAIN apps
  PROVE  /\ RemoveService(apps, o) \in Registries
         /\ NoEmptyApp(apps) => NoEmptyApp(RemoveService(apps, o))
<1> DEFINE left == Without(apps[o.app], o.service)
<1>1. o.app \in Apps \cap ValidNames /\ apps[o.app] \in ServiceMaps
  BY AppOf
<1>2. left \in ServiceMaps
  BY <1>1, WithoutService
<1>3. RemoveService(apps, o) =
        IF DOMAIN left = {} THEN Without(apps, o.app) ELSE With(apps, o.app, left)
  BY DEF RemoveService
<1> HIDE DEF left
<1>4. CASE DOMAIN left = {}
  BY <1>3, <1>4, WithoutApp
<1>5. CASE DOMAIN left # {}
  BY <1>1, <1>2, <1>3, <1>5, WithApp
<1> QED BY <1>4, <1>5

\* A write that found what it names yields a registry, and one without empty
\* apps if there were none: what Put, RemoveApp and RemoveService preserve.
LEMMA EditedType ==
  ASSUME NEW apps \in Registries, NEW o \in Writes, Valid(o), Found(apps, o)
  PROVE  /\ Edited(apps, o) \in Registries
         /\ NoEmptyApp(apps) => NoEmptyApp(Edited(apps, o))
<1>1. CASE o.kind = "put"
  BY <1>1, PutType DEF Edited
<1>2. CASE o.kind = "removeApp"
  BY <1>2, WithoutApp DEF Edited, RemoveApp
<1>3. CASE o.kind = "removeService"
  <2>1. o.app \in DOMAIN apps
    BY <1>3 DEF Found
  <2>2. Edited(apps, o) = RemoveService(apps, o)
    BY <1>3 DEF Edited
  <2> QED BY <2>1, <2>2, RemoveServiceType
<1> QED BY <1>1, <1>2, <1>3 DEF Writes

LEMMA ShownType ==
  ASSUME NEW apps \in Registries, NEW o \in Ops, Valid(o), Found(apps, o)
  PROVE  Success(apps, o) \in Answers
<1> SUFFICES Shown(apps, o) \in Registries
  BY DEF Success, Answers
<1>1. CASE o.kind = "apps"
  BY <1>1 DEF Shown
<1>2. CASE o.kind = "app"
  <2>1. o.app \in DOMAIN apps
    BY <1>2 DEF Found
  <2>2. o.app \in Apps \cap ValidNames /\ apps[o.app] \in ServiceMaps
    BY <2>1, AppOf
  <2>3. [a \in {o.app} |-> apps[a]] \in [{o.app} -> ServiceMaps]
    BY <2>2
  <2>4. [a \in {o.app} |-> apps[a]] \in Registries
    BY <2>2, <2>3 DEF Registries, Partial
  <2> QED BY <1>2, <2>4 DEF Shown
<1>3. CASE o.kind = "put"
  <2>1. o \in Writes
    BY <1>3 DEF Ops, Reads
  <2> QED BY <1>3, <2>1, PutType, EmptyRegistryType DEF Shown
<1>4. CASE o.kind \notin {"apps", "app", "put"}
  BY <1>4, EmptyRegistryType DEF Shown
<1> QED BY <1>1, <1>2, <1>3, <1>4

LEMMA AnswerType ==
  ASSUME NEW s \in {"none", "ok", "notFound", "invalid", "failed"}
  PROVE  Answer(s) \in Answers
  BY EmptyRegistryType DEF Answer, Answers

\* What a write shows does not depend on the registry it was applied to.
LEMMA WriteShows ==
  ASSUME NEW o, IsWrite(o), NEW apps, NEW other
  PROVE  Success(apps, o) = Success(other, o)
  BY DEF IsWrite, Success, Shown

(***************************************************************************)
(* The inductive invariant.                                                *)
(***************************************************************************)

\* The lock is held by the goroutine that is inside commitLocked, by no other.
LockInv == \A h \in Handlers : pc[h] \in Steps <=> lock = h

\* Nothing runs in a daemon that is down.
DownInv == ~up => \A h \in Handlers : pc[h] = "idle" /\ tmp[h] = "none"

\* A file under the final name is complete and synced.
FileInv == \A f \in {disk, stable} : f.form \in {"absent", "whole"} /\ f.synced

\* The temporary file is as far as the steps that were taken on it.
TempInv ==
  \A h \in Handlers :
    /\ pc[h] = "write" => tmp[h] = "empty"
    /\ pc[h] = "sync" => tmp[h] = "written"
    /\ pc[h] \in {"close", "rename"} => tmp[h] = "synced"
    /\ pc[h] \notin {"write", "sync", "close", "rename"} => tmp[h] = "none"

\* A goroutine that is past its checks works on a legal write, and its
\* candidate is the edit of the registry in memory; once renamed, it is the
\* registry on disk.
CandInv ==
  \A h \in Handlers :
    /\ pc[h] # "idle" => op[h] \in Ops
    /\ pc[h] \in Steps => IsWrite(op[h]) /\ Valid(op[h])
    /\ pc[h] \in Steps \ {"publish"} =>
         /\ Found(mem, op[h])
         /\ cand[h] = Edited(mem, op[h])
    /\ pc[h] = "publish" => disk.form = "whole" /\ disk.apps = cand[h]

MemInv == up /\ (\A h \in Handlers : pc[h] # "publish") => mem = Load(disk)

IInv ==
  /\ TypeOK
  /\ LockInv
  /\ DownInv
  /\ FileInv
  /\ TempInv
  /\ CandInv
  /\ MemInv
  /\ NoAppWithoutServices

LEMMA LoadType ==
  ASSUME NEW f \in Files
  PROVE  Load(f) \in Registries
  BY EmptyRegistryType DEF Load, Files

LEMMA WritesAreOps ==
  ASSUME NEW o \in Ops, IsWrite(o)
  PROVE  o \in Writes
  BY DEF Ops, Reads, IsWrite

LEMMA InitIInv == Init => IInv
<1> SUFFICES ASSUME Init PROVE IInv
  OBVIOUS
<1> USE DEF Init
<1>1. TypeOK
  BY EmptyRegistryType, AnswerType DEF TypeOK, NoFile, Files, Forms
<1>2. LockInv /\ DownInv /\ FileInv /\ TempInv /\ CandInv
  BY NoOneAssumption DEF LockInv, DownInv, FileInv, TempInv, CandInv, Steps, NoFile
<1>3. Load(NoFile) = EmptyRegistry
  BY DEF Load, NoFile
<1>4. MemInv
  BY <1>3 DEF MemInv
<1>5. NoAppWithoutServices
  BY <1>3 DEF NoAppWithoutServices, NoEmptyApp, EmptyRegistry
<1> QED BY <1>1, <1>2, <1>4, <1>5 DEF IInv

\* Type correctness needs what CandInv says of the operation in progress.
LEMMA TypeStep ==
  ASSUME IInv, [Next]_vars
  PROVE  TypeOK'
<1> USE DEF TypeOK, IInv
<1>1. ASSUME NEW h \in Handlers, NEW o \in Ops, Receive(h, o)
      PROVE  TypeOK'
  BY <1>1 DEF Receive
<1>2. ASSUME NEW h \in Handlers, Refuse(h)
      PROVE  TypeOK'
  BY <1>2, AnswerType, EmptyRegistryType DEF Refuse, Finish
<1>3. ASSUME NEW h \in Handlers, Read(h)
      PROVE  TypeOK'
  <2>1. op[h] \in Ops /\ Valid(op[h])
    BY <1>3 DEF Read, CandInv
  <2> DEFINE a == IF Found(mem, op[h]) THEN Success(mem, op[h]) ELSE Answer("notFound")
  <2>2. a \in Answers
    BY <2>1, ShownType, AnswerType
  <2>3. Finish(h, a) /\ UNCHANGED <<mem, disk, lock, tmp>>
    BY <1>3 DEF Read
  <2> HIDE DEF a
  <2> QED BY <2>2, <2>3, EmptyRegistryType DEF Finish
<1>4. ASSUME NEW h \in Handlers, Miss(h)
      PROVE  TypeOK'
  BY <1>4, AnswerType, EmptyRegistryType DEF Miss, Finish
<1>5. ASSUME NEW h \in Handlers, Begin(h)
      PROVE  TypeOK'
  <2>1. op[h] \in Writes /\ Valid(op[h]) /\ Found(mem, op[h])
    BY <1>5, WritesAreOps DEF Begin, CandInv
  <2>2. Edited(mem, op[h]) \in Registries
    BY <2>1, EditedType
  <2> QED BY <1>5, <2>2 DEF Begin, Steps
<1>6. ASSUME NEW h \in Handlers, CreateTemp(h) \/ WriteTemp(h) \/ SyncTemp(h) \/ CloseTemp(h)
      PROVE  TypeOK'
  BY <1>6 DEF CreateTemp, WriteTemp, SyncTemp, CloseTemp, Save, Steps
<1>7. ASSUME NEW h \in Handlers, Rename(h)
      PROVE  TypeOK'
  BY <1>7 DEF Rename, Save, Steps, Files, Forms
<1>8. ASSUME NEW h \in Handlers, Publish(h)
      PROVE  TypeOK'
  <2>1. op[h] \in Ops /\ Valid(op[h]) /\ IsWrite(op[h])
    BY <1>8 DEF Publish, CandInv, Steps
  <2>2. Success(mem, op[h]) \in Answers
    <3>1. op[h] \in Writes
      BY <2>1, WritesAreOps
    <3>2. CASE op[h].kind = "put"
      <4>1. Found(mem, op[h])
        BY <3>2 DEF Found
      <4> QED BY <4>1, <2>1, ShownType
    <3>3. CASE op[h].kind # "put"
      BY <2>1, <3>3, EmptyRegistryType DEF Success, Shown, IsWrite, Answers
    <3> QED BY <3>2, <3>3
  <2> QED BY <1>8, <2>2, EmptyRegistryType DEF Publish, Finish
<1>9. ASSUME NEW h \in Handlers, SaveFails(h)
      PROVE  TypeOK'
  BY <1>9, AnswerType, EmptyRegistryType DEF SaveFails, Finish
<1>10. ASSUME NEW h \in Handlers, Respond(h)
       PROVE  TypeOK'
  BY <1>10, AnswerType DEF Respond
<1>11. CASE FlushDirectory
  BY <1>11 DEF FlushDirectory
<1>12. ASSUME Stop
       PROVE  /\ up' \in BOOLEAN
              /\ mem' \in Registries
              /\ lock' \in Handlers \cup {NoOne}
              /\ pc' \in [Handlers -> {"idle", "received", "answered"} \cup Steps]
              /\ op' \in [Handlers -> Ops \cup {NoOp}]
              /\ cand' \in [Handlers -> Registries]
              /\ tmp' \in [Handlers -> {"none", "empty", "written", "synced"}]
              /\ ans' \in [Handlers -> Answers]
  BY <1>12, AnswerType, EmptyRegistryType DEF Stop
<1>13. CASE Crash
  BY <1>12, <1>13 DEF Crash
<1>14. CASE PowerLoss
  <2>1. disk' \in {disk, stable} /\ stable' = disk'
    BY <1>14 DEF PowerLoss, FileInv, AfterPowerLoss
  <2> QED BY <1>12, <1>14, <2>1 DEF PowerLoss
<1>15. CASE Open
  BY <1>15, LoadType DEF Open
<1>16. CASE UNCHANGED vars
  BY <1>16 DEF vars
<1> QED
  BY <1>1, <1>2, <1>3, <1>4, <1>5, <1>6, <1>7, <1>8, <1>9, <1>10, <1>11, <1>13,
     <1>14, <1>15, <1>16 DEF Next, Acquire, Commit

\* At most one goroutine is inside commitLocked.
LEMMA OneCommit ==
  ASSUME LockInv, NEW g \in Handlers, NEW h \in Handlers, pc[g] \in Steps, pc[h] \in Steps
  PROVE  g = h
  BY DEF LockInv

\* The invariant one group of conjuncts at a time: who is where,
LEMMA LockStep ==
  ASSUME IInv, [Next]_vars
  PROVE  LockInv' /\ DownInv' /\ TempInv'
<1> USE NoOneAssumption DEF IInv, TypeOK, LockInv, DownInv, TempInv, Steps
<1>1. ASSUME NEW h \in Handlers, NEW o \in Ops, Receive(h, o)
      PROVE  LockInv' /\ DownInv' /\ TempInv'
  BY <1>1 DEF Receive
<1>2. ASSUME NEW h \in Handlers, Refuse(h) \/ Read(h) \/ Miss(h)
      PROVE  LockInv' /\ DownInv' /\ TempInv'
  BY <1>2 DEF Refuse, Read, Miss, Finish
<1>3. ASSUME NEW h \in Handlers, Begin(h)
      PROVE  LockInv' /\ DownInv' /\ TempInv'
  BY <1>3 DEF Begin
<1>4. ASSUME NEW h \in Handlers,
             CreateTemp(h) \/ WriteTemp(h) \/ SyncTemp(h) \/ CloseTemp(h) \/ Rename(h)
      PROVE  LockInv' /\ DownInv' /\ TempInv'
  BY <1>4 DEF CreateTemp, WriteTemp, SyncTemp, CloseTemp, Rename, Save
<1>5. ASSUME NEW h \in Handlers, Publish(h) \/ SaveFails(h)
      PROVE  LockInv' /\ DownInv' /\ TempInv'
  BY <1>5 DEF Publish, SaveFails, Finish
<1>6. ASSUME NEW h \in Handlers, Respond(h)
      PROVE  LockInv' /\ DownInv' /\ TempInv'
  BY <1>6 DEF Respond
<1>7. CASE FlushDirectory
  BY <1>7 DEF FlushDirectory
<1>8. CASE Crash \/ PowerLoss
  BY <1>8 DEF Crash, PowerLoss, Stop
<1>9. CASE Open
  BY <1>9 DEF Open
<1>10. CASE UNCHANGED vars
  BY <1>10 DEF vars
<1> QED
  BY <1>1, <1>2, <1>3, <1>4, <1>5, <1>6, <1>7, <1>8, <1>9, <1>10
  DEF Next, Acquire, Commit

\* what the file is, which is replaced by Rename only, and only by a synced temporary file.
LEMMA FileStep ==
  ASSUME IInv, [Next]_vars
  PROVE  FileInv'
<1> USE DEF IInv, FileInv
<1>1. ASSUME NEW h \in Handlers, Rename(h)
      PROVE  FileInv'
  <2>1. tmp[h] = "synced"
    BY <1>1 DEF Rename, Save, TempInv
  <2>2. stable' = stable
    BY <1>1 DEF Rename, Save
  <2>3. disk' = [form |-> "whole", apps |-> cand[h], synced |-> TRUE]
    BY <1>1, <2>1 DEF Rename
  <2> QED BY <2>2, <2>3
<1>2. CASE PowerLoss
  BY <1>2 DEF PowerLoss, AfterPowerLoss
<1>3. CASE UNCHANGED <<disk, stable>> \/ FlushDirectory
  BY <1>3 DEF FlushDirectory
<1>4. CASE (\E h \in Handlers : Rename(h)) \/ PowerLoss \/ FlushDirectory
           \/ UNCHANGED <<disk, stable>>
  BY <1>1, <1>2, <1>3, <1>4
<1> QED
  BY <1>4 DEF Next, Acquire, Commit, Receive, Refuse, Read, Miss, Begin, Finish, CreateTemp,
    WriteTemp, SyncTemp, CloseTemp, Save, Publish, SaveFails, Respond, Crash, Open, vars

\* what the candidate is, and that memory follows the file,
LEMMA CandStep ==
  ASSUME IInv, [Next]_vars
  PROVE  CandInv' /\ MemInv'
<1> USE DEF IInv, TypeOK, CandInv, MemInv, Steps
<1>1. ASSUME NEW h \in Handlers, NEW o \in Ops, Receive(h, o)
      PROVE  CandInv' /\ MemInv'
  BY <1>1 DEF Receive
<1>2. ASSUME NEW h \in Handlers, Refuse(h) \/ Read(h) \/ Miss(h)
      PROVE  CandInv' /\ MemInv'
  BY <1>2 DEF Refuse, Read, Miss, Finish
<1>3. ASSUME NEW h \in Handlers, Begin(h)
      PROVE  CandInv' /\ MemInv'
  BY <1>3 DEF Begin
<1>4. ASSUME NEW h \in Handlers,
             CreateTemp(h) \/ WriteTemp(h) \/ SyncTemp(h) \/ CloseTemp(h)
      PROVE  CandInv' /\ MemInv'
  BY <1>4 DEF CreateTemp, WriteTemp, SyncTemp, CloseTemp, Save
<1>5. ASSUME NEW h \in Handlers, Rename(h)
      PROVE  CandInv' /\ MemInv'
  <2>1. \A g \in Handlers \ {h} : pc[g] \notin Steps
    BY <1>5, OneCommit DEF Rename, Save
  <2>2. tmp[h] = "synced"
    BY <1>5 DEF Rename, Save, TempInv
  <2>3. pc' = [pc EXCEPT ![h] = "publish"] /\ UNCHANGED <<up, mem, op, cand>>
    BY <1>5 DEF Rename, Save
  <2>4. disk'.form = "whole" /\ disk'.apps = cand[h]
    BY <1>5, <2>2 DEF Rename
  <2>5. MemInv'
    BY <2>3
  <2>6. CandInv'
    BY <1>5, <2>1, <2>3, <2>4 DEF Rename, Save
  <2> QED BY <2>5, <2>6
<1>6. ASSUME NEW h \in Handlers, Publish(h)
      PROVE  CandInv' /\ MemInv'
  <2>1. \A g \in Handlers \ {h} : pc[g] \notin Steps
    BY <1>6, OneCommit DEF Publish
  <2>2. mem' = Load(disk') /\ disk' = disk
    BY <1>6 DEF Publish, Load
  <2> QED BY <1>6, <2>1, <2>2 DEF Publish, Finish
<1>7. ASSUME NEW h \in Handlers, SaveFails(h)
      PROVE  CandInv' /\ MemInv'
  <2>1. \A g \in Handlers \ {h} : pc[g] \notin Steps
    BY <1>7, OneCommit DEF SaveFails
  <2> QED BY <1>7, <2>1 DEF SaveFails, Finish
<1>8. ASSUME NEW h \in Handlers, Respond(h)
      PROVE  CandInv' /\ MemInv'
  BY <1>8 DEF Respond
<1>9. CASE FlushDirectory
  BY <1>9 DEF FlushDirectory
<1>10. CASE Crash \/ PowerLoss
  BY <1>10 DEF Crash, PowerLoss, Stop
<1>11. CASE Open
  BY <1>11 DEF Open, DownInv
<1>12. CASE UNCHANGED vars
  BY <1>12 DEF vars
<1> QED
  BY <1>1, <1>2, <1>3, <1>4, <1>5, <1>6, <1>7, <1>8, <1>9, <1>10, <1>11, <1>12
  DEF Next, Acquire, Commit

\* and that what is renamed into place, and later published, is an edit of a
\* registry without empty apps.
LEMMA EmptyAppStep ==
  ASSUME IInv, [Next]_vars
  PROVE  NoAppWithoutServices'
<1> USE DEF IInv, NoAppWithoutServices
<1>1. NoEmptyApp(EmptyRegistry)
  BY DEF NoEmptyApp, EmptyRegistry
<1>2. ASSUME NEW h \in Handlers, Rename(h)
      PROVE  NoAppWithoutServices'
  <2>1. op[h] \in Writes /\ Valid(op[h]) /\ Found(mem, op[h]) /\ cand[h] = Edited(mem, op[h])
    BY <1>2, WritesAreOps DEF Rename, Save, CandInv, Steps
  <2>2. NoEmptyApp(cand[h])
    BY <2>1, EditedType DEF TypeOK
  <2> QED BY <1>1, <1>2, <2>2 DEF Rename, Save, Load
<1>3. ASSUME NEW h \in Handlers, Publish(h)
      PROVE  NoAppWithoutServices'
  <2>1. Load(disk) = cand[h]
    BY <1>3 DEF Publish, CandInv, Load
  <2> QED BY <1>3, <2>1 DEF Publish, Finish
<1>4. CASE FlushDirectory
  BY <1>4 DEF FlushDirectory
<1>5. CASE Crash
  BY <1>1, <1>5 DEF Crash, Stop
<1>6. CASE PowerLoss
  BY <1>1, <1>6 DEF PowerLoss, Stop, AfterPowerLoss, FileInv
<1>7. CASE Open
  BY <1>7 DEF Open
<1>8. CASE UNCHANGED <<mem, disk, stable>>
  BY <1>8
<1>9. \/ \E h \in Handlers : Rename(h) \/ Publish(h)
      \/ FlushDirectory \/ Crash \/ PowerLoss \/ Open
      \/ UNCHANGED <<mem, disk, stable>>
  BY DEF Next, Acquire, Commit, Receive, Refuse, Read, Miss, Begin, Finish, CreateTemp,
    WriteTemp, SyncTemp, CloseTemp, Save, SaveFails, Respond, vars
<1> QED BY <1>2, <1>3, <1>4, <1>5, <1>6, <1>7, <1>8, <1>9

LEMMA StepIInv == IInv /\ [Next]_vars => IInv'
  BY TypeStep, LockStep, FileStep, CandStep, EmptyAppStep DEF IInv

THEOREM Inductive == Spec => []IInv
  BY InitIInv, StepIInv, PTL DEF Spec

\* Every variable always has its type: in particular every registry in memory
\* or on disk is made of valid names and of normalised, valid services.
THEOREM TypeCorrect == Spec => []TypeOK
<1>1. IInv => TypeOK
  BY DEF IInv
<1> QED BY <1>1, Inductive, PTL

\* commitLocked "publishes a private candidate only after persistence
\* succeeds": outside of the instant between the two, memory and
\* registry.json agree.
THEOREM MemoryMatchesDisk == Spec => []MemoryIsDisk
<1>1. IInv => MemoryIsDisk
  BY DEF IInv, MemInv, MemoryIsDisk
<1> QED BY <1>1, Inductive, PTL

\* "Writes registry.json atomically": after a crash or a loss of power at any
\* step of any save the file can be read back.
THEOREM DiskNeverTorn == Spec => []NeverTorn
<1>1. IInv => NeverTorn
  BY DEF IInv, FileInv, NeverTorn, AfterPowerLoss
<1> QED BY <1>1, Inductive, PTL

\* "An app left with zero services is dropped": no reader, restart or loss of
\* power ever shows an app without services.
THEOREM AppsHaveServices == Spec => []NoAppWithoutServices
<1>1. IInv => NoAppWithoutServices
  BY DEF IInv
<1> QED BY <1>1, Inductive, PTL

\* The deferred removal covers every failing step of a save.
THEOREM TempFilesRemoved == Spec => []TempOnlyWhileSaving
<1>1. IInv => TempOnlyWhileSaving
  BY DEF IInv, TempInv, LockInv, Steps, TempOnlyWhileSaving
<1> QED BY <1>1, Inductive, PTL

(***************************************************************************)
(* The store implements the atomic registry: each of its steps is a step   *)
(* of Registry, or leaves the registry and every request as they are.      *)
(***************************************************************************)

\* Registry is instantiated with the constants of this module, so its
\* operators on registries are the ones of this module.
LEMMA SameData ==
  /\ Atomic!EmptyRegistry = EmptyRegistry
  /\ Atomic!NoOp = NoOp
  /\ Atomic!Ops = Ops
  /\ \A s : Atomic!Answer(s) = Answer(s)
  /\ \A o : Atomic!IsWrite(o) <=> IsWrite(o)
  BY DEF Atomic!EmptyRegistry, EmptyRegistry, Atomic!NoOp, NoOp, Atomic!Ops, Ops,
    Atomic!Writes, Writes, Atomic!Reads, Reads, Atomic!Answer, Answer, Atomic!IsWrite, IsWrite

LEMMA SameValid == \A o : Atomic!Valid(o) <=> Valid(o)
  BY DEF Atomic!Valid, Valid, Atomic!ValidService, ValidService, Atomic!ValidPath,
    ValidPath, Atomic!MaxPort, MaxPort, Atomic!ForbiddenInPath, ForbiddenInPath

LEMMA SameFound == \A apps, o : Atomic!Found(apps, o) <=> Found(apps, o)
  BY DEF Atomic!Found, Found

LEMMA SamePut == \A apps, o : Atomic!PutService(apps, o) = PutService(apps, o)
  BY SameData DEF Atomic!PutService, PutService, Atomic!With, With, Atomic!ServicesOf, ServicesOf,
    Atomic!Normalize, Normalize, Atomic!NormalizePath, NormalizePath

LEMMA SameEdited == \A apps, o : Atomic!Edited(apps, o) = Edited(apps, o)
  BY SamePut DEF Atomic!Edited, Edited, Atomic!RemoveApp, RemoveApp, Atomic!RemoveService,
    RemoveService, Atomic!Without, Without, Atomic!With, With

LEMMA SameSuccess == \A apps, o : Atomic!Success(apps, o) = Success(apps, o)
  BY SamePut, SameData DEF Atomic!Success, Success, Atomic!Shown, Shown

LEMMA RefineInit == Init => Atomic!Init
<1> SUFFICES ASSUME Init PROVE Atomic!Init
  OBVIOUS
<1>1. Load(disk) = EmptyRegistry /\ Load(stable) = EmptyRegistry
  BY DEF Init, Load, NoFile
<1> QED BY <1>1, SameData DEF Init, Atomic!Init, Phase, Steps

\* Steps that change neither the file nor what a caller has been told.
LEMMA RefineStutter ==
  ASSUME UNCHANGED <<up, disk, stable, op>>,
         \A h \in Handlers : Phase(h)' = Phase(h),
         \A h \in Handlers : (IF pc[h] = "publish" THEN Success(Load(disk), op[h]) ELSE ans[h])'
                            = (IF pc[h] = "publish" THEN Success(Load(disk), op[h]) ELSE ans[h])
  PROVE  UNCHANGED Atomic!vars
  BY DEF Atomic!vars, Load

\* A free lock means that memory and file agree.
LEMMA FreeLock ==
  ASSUME IInv, up, lock = NoOne
  PROVE  /\ mem = Load(disk)
         /\ \A h \in Handlers : pc[h] \notin Steps
<1>1. \A h \in Handlers : pc[h] \notin Steps
  BY NoOneAssumption DEF IInv, LockInv
<1> QED BY <1>1 DEF IInv, MemInv, Steps

LEMMA RefineStep ==
  ASSUME IInv, [Next]_vars
  PROVE  Atomic!Next \/ UNCHANGED Atomic!vars
<1> USE SameData, SameValid DEF IInv, TypeOK, Phase
<1>1. ASSUME NEW h \in Handlers, NEW o \in Ops, Receive(h, o)
      PROVE  Atomic!Send(h, o)
  BY <1>1 DEF Receive, Atomic!Send
<1>2. ASSUME NEW h \in Handlers, Refuse(h)
      PROVE  Atomic!Refuse(h)
  BY <1>2 DEF Refuse, Finish, Atomic!Refuse, Atomic!Done, DownInv
<1>3. ASSUME NEW h \in Handlers, Read(h)
      PROVE  Atomic!Read(h) \/ Atomic!Miss(h)
  <2>1. up /\ mem = Load(disk)
    BY <1>3, FreeLock DEF Read, DownInv
  <2>2. CASE Found(mem, op[h])
    <3>1. Finish(h, Success(mem, op[h]))
      BY <1>3, <2>2 DEF Read
    <3>2. Atomic!Done(h, Success(mem, op[h]))
      BY <1>3, <2>1, <3>1 DEF Read, Finish, Atomic!Done
    <3> QED
      BY <1>3, <2>1, <2>2, <3>1, <3>2, SameSuccess, SameFound
      DEF Read, Atomic!Read, Atomic!Done
  <2>3. CASE ~Found(mem, op[h])
    <3>1. /\ Finish(h, Answer("notFound")) /\ UNCHANGED disk
          /\ pc[h] = "received" /\ Valid(op[h])
      BY <1>3, <2>3 DEF Read
    <3>2. Atomic!Done(h, Answer("notFound"))
      BY <2>1, <3>1 DEF Finish, Atomic!Done
    <3>3. Load(disk)' = Load(disk) /\ ~Atomic!Found(Load(disk), op[h])
      BY <2>1, <2>3, <3>1, SameFound
    <3> QED BY <3>1, <3>2, <3>3 DEF Atomic!Miss
  <2> QED BY <2>2, <2>3
<1>4. ASSUME NEW h \in Handlers, Miss(h)
      PROVE  Atomic!Miss(h)
  <2>1. up /\ mem = Load(disk)
    BY <1>4, FreeLock DEF Miss, DownInv
  <2>2. Atomic!Done(h, Answer("notFound"))
    BY <1>4, <2>1 DEF Miss, Finish, Atomic!Done
  <2> QED BY <1>4, <2>1, <2>2, SameFound DEF Miss, Atomic!Miss
<1>5. ASSUME NEW h \in Handlers, Begin(h)
      PROVE  UNCHANGED Atomic!vars
  BY <1>5, RefineStutter DEF Begin, Steps
<1>6. ASSUME NEW h \in Handlers,
             CreateTemp(h) \/ WriteTemp(h) \/ SyncTemp(h) \/ CloseTemp(h)
      PROVE  UNCHANGED Atomic!vars
  BY <1>6, RefineStutter DEF CreateTemp, WriteTemp, SyncTemp, CloseTemp, Save
<1>7. ASSUME NEW h \in Handlers, Rename(h)
      PROVE  Atomic!Write(h)
  <2>1. pc[h] = "rename" /\ pc' = [pc EXCEPT ![h] = "publish"]
        /\ UNCHANGED <<up, stable, op, ans>>
    BY <1>7 DEF Rename, Save
  <2>2. IsWrite(op[h]) /\ Valid(op[h]) /\ Found(mem, op[h]) /\ cand[h] = Edited(mem, op[h])
    BY <2>1 DEF CandInv, Steps
  <2>3. up /\ \A g \in Handlers \ {h} : pc[g] \notin Steps
    BY <2>1, OneCommit DEF DownInv, Steps
  <2>4. mem = Load(disk)
    BY <2>1, <2>3 DEF MemInv, Steps
  <2>5. tmp[h] = "synced"
    BY <2>1 DEF TempInv
  <2>6. Load(disk)' = Edited(mem, op[h])
    BY <1>7, <2>2, <2>5 DEF Rename, Load
  <2>7. Success(Load(disk'), op[h]) = Success(mem, op[h])
    BY <2>2, WriteShows
  <2>8. Atomic!Done(h, Atomic!Success(Load(disk), op[h]))
    <3>1. Atomic!Success(Load(disk), op[h]) = Success(Load(disk'), op[h])
      BY <2>4, <2>7, SameSuccess
    <3> QED BY <2>1, <2>3, <3>1 DEF Atomic!Done, Steps, Load
  <2>9. /\ Atomic!Edited(Load(disk), op[h]) = Edited(mem, op[h])
        /\ Atomic!Found(Load(disk), op[h])
        /\ Phase(h) = "pending"
    BY <2>1, <2>2, <2>4, SameEdited, SameFound DEF Steps
  <2> HIDE DEF Phase
  <2> QED BY <2>2, <2>6, <2>8, <2>9 DEF Atomic!Write
<1>8. ASSUME NEW h \in Handlers, Publish(h)
      PROVE  UNCHANGED Atomic!vars
  <2>1. IsWrite(op[h])
    BY <1>8 DEF Publish, CandInv, Steps
  <2>2. Success(mem, op[h]) = Success(Load(disk), op[h])
    BY <2>1, WriteShows
  <2> QED BY <1>8, <2>2, RefineStutter DEF Publish, Finish
<1>9. ASSUME NEW h \in Handlers, SaveFails(h)
      PROVE  Atomic!Fail(h)
  <2>1. pc[h] \in Steps \ {"publish"} /\ Finish(h, Answer("failed")) /\ UNCHANGED disk
    BY <1>9 DEF SaveFails
  <2>2. up /\ IsWrite(op[h])
    BY <2>1 DEF CandInv, DownInv, Steps
  <2>3. Atomic!Done(h, Answer("failed"))
    BY <2>1, <2>2 DEF Finish, Atomic!Done, Steps
  <2> QED BY <2>1, <2>2, <2>3 DEF Atomic!Fail
<1>10. ASSUME NEW h \in Handlers, Respond(h)
       PROVE  Atomic!Return(h)
  BY <1>10 DEF Respond, Atomic!Return
<1>11. ASSUME FlushDirectory
       PROVE  Atomic!Flush
  BY <1>11 DEF FlushDirectory, Atomic!Flush
<1>12. ASSUME Stop
       PROVE  Atomic!LoseRequests
  BY <1>12 DEF Stop, Atomic!LoseRequests
<1>13. ASSUME Crash
       PROVE  Atomic!Crash
  BY <1>12, <1>13 DEF Crash, Atomic!Crash
<1>14. ASSUME PowerLoss
       PROVE  Atomic!PowerLoss
  <2>1. disk' \in {disk, stable} /\ stable' = disk'
    BY <1>14 DEF PowerLoss, FileInv, AfterPowerLoss
  <2> QED BY <1>12, <1>14, <2>1 DEF PowerLoss, Atomic!PowerLoss
<1>15. ASSUME Open
       PROVE  Atomic!Restart
  BY <1>15 DEF Open, Atomic!Restart
<1>16. ASSUME UNCHANGED vars
       PROVE  UNCHANGED Atomic!vars
  BY <1>16 DEF vars, Atomic!vars
<1> QED
  BY <1>1, <1>2, <1>3, <1>4, <1>5, <1>6, <1>7, <1>8, <1>9, <1>10, <1>11, <1>13, <1>14,
     <1>15, <1>16 DEF Next, Acquire, Commit, Atomic!Next

\* Every operation of the store takes effect at one instant between its request
\* and its answer, or not at all; a crash loses nothing that was answered "ok",
\* and a failed save changes nothing.
THEOREM StoreImplementsRegistry == Spec => ImplementsRegistry
<1>1. IInv /\ [Next]_vars => [Atomic!Next]_(Atomic!vars)
  BY RefineStep
<1> QED BY <1>1, RefineInit, Inductive, PTL DEF Spec, Atomic!Spec, ImplementsRegistry

=============================================================================
