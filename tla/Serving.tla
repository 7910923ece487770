------------------------------- MODULE Serving -------------------------------
(***************************************************************************)
(* How a registered service is reached while everything around it moves:   *)
(* `localapp run` commands, which take a free port, register it, start a   *)
(* child and register again with its pid; `add`, `rm` and the dashboard's  *)
(* delete; processes, which listen and exit when they like; requests       *)
(* through the proxy, which resolves, checks the process, dials the port   *)
(* and then forwards; and readers of the dashboard's log streams, of which *)
(* only so many are admitted.                                              *)
(*                                                                         *)
(* The registry changes in one step here: RegistryStore has the save.  A   *)
(* pid is given out once.                                                  *)
(***************************************************************************)
EXTENDS Routing, FiniteSets

CONSTANTS
  Runs,       \* `localapp run` commands
  RunOf,      \* what each registers: [app, service, path, strip]
  Added,      \* what `add` registers, with any pid or none: [app, service, svc]
  Ports,      \* the ports the kernel gives out
  Requests,   \* requests through the proxy
  Asked,      \* their hosts and paths
  Viewers,    \* readers of log streams
  MaxStreams, \* maxLogStreams
  MaxPids     \* bound: processes started

VARIABLES
  apps,     \* the registry
  pids,     \* processes started so far
  alive,    \* the processes that run
  listens,  \* listens[p]: the process that listens on port p, or NoPid
  given,    \* given[x]: the port that child x got in PORT, or NoPort
  run,      \* run[r]: the progress of a run
  req,      \* req[q]: the progress of a request
  viewer,   \* viewer[v]: the progress of a reader
  streams   \* the dashboard's count of streams

processes == <<pids, alive, listens, given>>
vars == <<apps, processes, run, req, viewer, streams>>

NoPid  == 0
NoPort == 0
Pids   == 1..MaxPids
Idle   == [pc |-> "idle"]

\* What a run registers, with its port and the pid of its child, if any.
Target(r, p, x) ==
  [port |-> p, path |-> RunOf[r].path, strip |-> RunOf[r].strip, pid |-> x]

Entry(r, p, x) ==
  [app |-> RunOf[r].app, service |-> RunOf[r].service, svc |-> Target(r, p, x)]

ASSUME ServingAssumption ==
  /\ Ports \subseteq 1..MaxPort
  /\ MaxPids \in Nat /\ MaxStreams \in Nat
  /\ IsFiniteSet(Viewers)
  /\ \A u \in Asked :
       /\ u.host = Elsewhere \/ u.host \in Seq(STRING)
       /\ u.path \in Seq(STRING) /\ Len(u.path) > 0 /\ u.path[1] = "/"
  /\ \A r \in Runs :
       /\ RunOf[r].app \in Apps \cap ValidNames
       /\ RunOf[r].service \in Services \cap ValidNames
       /\ \A p \in Ports, x \in Pids \cup {NoPid} :
            Target(r, p, x) \in Requested /\ ValidService(Target(r, p, x))
  /\ \A o \in Added :
       /\ o.app \in Apps \cap ValidNames /\ o.service \in Services \cap ValidNames
       /\ o.svc \in Requested /\ ValidService(o.svc)

Init ==
  /\ apps = EmptyRegistry
  /\ pids = 0 /\ alive = {}
  /\ listens = [p \in Ports |-> NoPid]
  /\ given = [x \in Pids |-> NoPort]
  /\ run = [r \in Runs |-> Idle]
  /\ req = [q \in Requests |-> Idle]
  /\ viewer = [v \in Viewers |-> Idle]
  /\ streams = 0

(***************************************************************************)
(* Liveness of a service, as the proxy, `ls` and the dashboard see it.     *)
(***************************************************************************)

\* A service without a pid has nothing to watch.
ProcessAlive(x) == x = NoPid \/ x \in alive

\* Does the port accept a connection?
Accepts(p) == p \in Ports /\ listens[p] # NoPid

(***************************************************************************)
(* Processes: servers that a user starts, and the children of runs.        *)
(***************************************************************************)

NewProcess(port) ==
  /\ pids < MaxPids
  /\ pids' = pids + 1
  /\ alive' = alive \cup {pids'}
  /\ given' = [given EXCEPT ![pids'] = port]

StartServer ==
  /\ NewProcess(NoPort)
  /\ UNCHANGED <<apps, listens, run, req, viewer, streams>>

\* A process binds a port that is free; a child need not honor PORT.
Listen(x, p) ==
  /\ x \in alive
  /\ listens[p] = NoPid
  /\ listens' = [listens EXCEPT ![p] = x]
  /\ UNCHANGED <<apps, pids, alive, given, run, req, viewer, streams>>

Exit(x) ==
  /\ x \in alive
  /\ alive' = alive \ {x}
  /\ listens' = [p \in Ports |-> IF listens[p] = x THEN NoPid ELSE listens[p]]
  /\ UNCHANGED <<apps, pids, given, run, req, viewer, streams>>

(***************************************************************************)
(* `localapp run`.                                                         *)
(***************************************************************************)

\* allocatePort: the kernel's choice, released at once.
AllocatePort(r, p) ==
  /\ run[r].pc = "idle"
  /\ listens[p] = NoPid
  /\ run' = [run EXCEPT ![r] = [pc |-> "allocated", port |-> p]]
  /\ UNCHANGED <<apps, processes, req, viewer, streams>>

\* The first PutService, before the child: without a pid.
Register(r) ==
  /\ run[r].pc = "allocated"
  /\ apps' = PutService(apps, Entry(r, run[r].port, NoPid))
  /\ run' = [run EXCEPT ![r].pc = "registered"]
  /\ UNCHANGED <<processes, req, viewer, streams>>

StartChild(r) ==
  /\ run[r].pc = "registered"
  /\ NewProcess(run[r].port)
  /\ run' = [run EXCEPT ![r] =
               [pc |-> "started", port |-> run[r].port, pid |-> pids']]
  /\ UNCHANGED <<apps, listens, req, viewer, streams>>

\* Mutant: the pid is added to the service that is registered by then.
RecordPidOnly(r) ==
  LET a == RunOf[r].app  s == RunOf[r].service
  IN  /\ run[r].pc = "started"
      /\ a \in DOMAIN apps /\ s \in DOMAIN apps[a]
      /\ apps' = [apps EXCEPT ![a][s].pid = run[r].pid]
      /\ run' = [run EXCEPT ![r].pc = "waiting"]
      /\ UNCHANGED <<processes, req, viewer, streams>>

\* The second PutService: all of the service again, with the pid.
RecordPid(r) ==
  /\ run[r].pc = "started"
  /\ apps' = PutService(apps, Entry(r, run[r].port, run[r].pid))
  /\ run' = [run EXCEPT ![r].pc = "waiting"]
  /\ UNCHANGED <<processes, req, viewer, streams>>

\* It is best effort: without it the run goes on.
RecordFails(r) ==
  /\ run[r].pc = "started"
  /\ run' = [run EXCEPT ![r].pc = "waiting"]
  /\ UNCHANGED <<apps, processes, req, viewer, streams>>

\* An error before the child is started, the end of the child, or the end of
\* the run alone; what is registered stays.
EndRun(r) ==
  /\ run[r].pc # "idle"
  /\ run[r].pc = "waiting" => run[r].pid \notin alive
  /\ run' = [run EXCEPT ![r] = Idle]
  /\ UNCHANGED <<apps, processes, req, viewer, streams>>

(***************************************************************************)
(* `add`, `rm` and the dashboard.                                          *)
(***************************************************************************)

\* The pid of --pid is what the user says: nothing ties it to the port.
Add(o) ==
  /\ apps' = PutService(apps, o)
  /\ UNCHANGED <<processes, run, req, viewer, streams>>

\* rm of an app, and of a service, by the command or the dashboard.
Remove(a) ==
  /\ a \in DOMAIN apps
  /\ apps' = RemoveApp(apps, [app |-> a])
  /\ UNCHANGED <<processes, run, req, viewer, streams>>

DeleteMapping(a, s) ==
  /\ a \in DOMAIN apps /\ s \in DOMAIN apps[a]
  /\ apps' = RemoveService(apps, [app |-> a, service |-> s])
  /\ UNCHANGED <<processes, run, req, viewer, streams>>

(***************************************************************************)
(* The proxy.  Only requests that it forwards have steps: the others are   *)
(* answered at once, with the dashboard or an error page.                  *)
(***************************************************************************)

\* The registration is read here and not again.  Whether its process had ended
\* when the request came in is kept for the properties.
Arrive(q, u) ==
  LET rt == Resolve(apps, u.host, u.path)
  IN  /\ req[q].pc = "idle"
      /\ rt.kind = "proxy"
      /\ req' = [req EXCEPT ![q] =
                   [pc |-> "resolved", svc |-> rt.svc,
                    ended |-> rt.svc.pid \in 1..pids \ alive]]
      /\ UNCHANGED <<apps, processes, run, viewer, streams>>

To(q, pc) ==
  /\ req' = [req EXCEPT ![q].pc = pc]
  /\ UNCHANGED <<apps, processes, run, viewer, streams>>

\* The page that says that the service is down.
Unavailable(q) ==
  /\ req' = [req EXCEPT ![q] = Idle]
  /\ UNCHANGED <<apps, processes, run, viewer, streams>>

CheckProcess(q) ==
  /\ req[q].pc = "resolved"
  /\ IF ProcessAlive(req[q].svc.pid) THEN To(q, "checked") ELSE Unavailable(q)

Dial(q) ==
  /\ req[q].pc = "checked"
  /\ IF Accepts(req[q].svc.port) THEN To(q, "dialed") ELSE Unavailable(q)

\* The transport connects again; by then nobody may listen, and
\* handleTransportError answers.
Forward(q) ==
  /\ req[q].pc = "dialed"
  /\ IF Accepts(req[q].svc.port) THEN To(q, "forwarded") ELSE Unavailable(q)

Answered(q) == req[q].pc = "forwarded" /\ Unavailable(q)

(***************************************************************************)
(* Log streams of the dashboard.                                           *)
(***************************************************************************)

Goes(v, pc) == viewer' = [viewer EXCEPT ![v] = [pc |-> pc]]

\* mappingExists of some service, before the stream is counted.
OpenLogs(v) ==
  /\ viewer[v].pc = "idle"
  /\ UNION {DOMAIN apps[a] : a \in DOMAIN apps} # {}
  /\ Goes(v, "found")
  /\ UNCHANGED <<apps, processes, run, req, streams>>

\* Mutant: a stream is admitted when the limit was reached.
TakeSlotLate(v) ==
  /\ viewer[v].pc = "found"
  /\ streams' = streams + 1
  /\ Goes(v, IF streams > MaxStreams THEN "refused" ELSE "streaming")
  /\ UNCHANGED <<apps, processes, run, req>>

\* One atomic increment, and a comparison of what it returns.
TakeSlot(v) ==
  /\ viewer[v].pc = "found"
  /\ streams' = streams + 1
  /\ Goes(v, IF streams + 1 > MaxStreams THEN "refused" ELSE "streaming")
  /\ UNCHANGED <<apps, processes, run, req>>

\* Refused, or ended: the reader left or the mapping is gone.
GiveBack(v) ==
  /\ viewer[v].pc \in {"refused", "streaming"}
  /\ streams' = streams - 1
  /\ Goes(v, "idle")
  /\ UNCHANGED <<apps, processes, run, req>>

Next ==
  \/ StartServer
  \/ \E x \in Pids : Exit(x) \/ \E p \in Ports : Listen(x, p)
  \/ \E r \in Runs :
       \/ \E p \in Ports : AllocatePort(r, p)
       \/ Register(r) \/ StartChild(r) \/ RecordPid(r) \/ RecordFails(r) \/ EndRun(r)
  \/ \E o \in Added : Add(o)
  \/ \E a \in Apps : Remove(a) \/ \E s \in Services : DeleteMapping(a, s)
  \/ \E q \in Requests :
       \/ \E u \in Asked : Arrive(q, u)
       \/ CheckProcess(q) \/ Dial(q) \/ Forward(q) \/ Answered(q)
  \/ \E v \in Viewers : OpenLogs(v) \/ TakeSlot(v) \/ GiveBack(v)

Spec == Init /\ [][Next]_vars

(***************************************************************************)
(* Properties.                                                             *)
(***************************************************************************)

Counted == {v \in Viewers : viewer[v].pc \in {"refused", "streaming"}}

\* The shape of the state.
TypeOK ==
  /\ apps \in Registries
  /\ pids \in 0..MaxPids /\ alive \subseteq 1..pids
  /\ listens \in [Ports -> alive \cup {NoPid}]
  /\ given \in [Pids -> Ports \cup {NoPort}]
  /\ run \in [Runs -> {Idle} \cup
       [pc : {"allocated", "registered"}, port : Ports] \cup
       [pc : {"started", "waiting"}, port : Ports, pid : 1..pids]]
  /\ req \in [Requests -> {Idle} \cup
       [pc : {"resolved", "checked", "dialed", "forwarded"}, svc : Stored,
        ended : BOOLEAN]]
  /\ viewer \in [Viewers -> [pc : {"idle", "found", "refused", "streaming"}]]
  /\ streams \in Nat

\* Whatever is registered: every URL that a service is advertised with leads
\* to it, unless another service of the app was given the same mount; and
\* whatever a client asks for, what is left of the path when the mount is
\* stripped is still a path.
AdvertisedResolves ==
  /\ \A a \in DOMAIN apps : \A s \in DOMAIN apps[a] :
       \A u \in URLs(a, s, apps[a][s]) :
         LET rt == Resolve(apps, u.host, u.path)
         IN  /\ rt.kind = "proxy" /\ rt.app = a
             /\ rt.service = s \/ MountIsShared(apps[a], s)
  /\ \A u \in Asked :
       LET rt == Resolve(apps, u.host, u.path)
       IN  rt.kind = "proxy" => Rewrite(rt, u.path)[1] = "/"

\* However runs of one service overlap, end, fail to record the pid or race
\* with add and rm, and whoever takes their ports over: a request is forwarded
\* for a registration with a pid only if that process had not ended when the
\* request came in; and pid and port are of one registration, that of a child
\* that was told this port or that of an `add`, never one's pid and another's
\* port.
ServedAsRegistered ==
  \A q \in Requests :
    req[q].pc = "forwarded" /\ req[q].svc.pid # NoPid =>
      /\ ~req[q].ended
      /\ \/ \E o \in Added : req[q].svc = Normalize(o.svc)
         \/ given[req[q].svc.pid] = req[q].svc.port

\* The count is that of the readers that hold or give back a slot, whatever
\* their order, so no slot is lost, and no more than the limit ever stream.
SlotsExact ==
  /\ streams = Cardinality(Counted)
  /\ Cardinality({v \in Viewers : viewer[v].pc = "streaming"}) <= MaxStreams

=============================================================================
