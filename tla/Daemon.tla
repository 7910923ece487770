------------------------------- MODULE Daemon -------------------------------
(***************************************************************************)
(* The life of `localapp daemon`: registry.Open, control.Listen, the other *)
(* listeners, the servers, the shutdown, and a crash anywhere.             *)
(*                                                                         *)
(* Two daemons may be started over one state directory (a second terminal, *)
(* or a restart that does not wait for the old daemon to be gone).  They   *)
(* share the registry, the ports, and the path of the control socket.      *)
(* A socket that is bound is reached through the path only; closing it, or *)
(* leaving runDaemon, removes whatever is at the path.                     *)
(***************************************************************************)
EXTENDS Integers, Sequences

CONSTANTS
  Daemons,   \* processes
  Ports,     \* the TCP and UDP listeners, in the order they are opened
  Updates,   \* registrations that clients send
  Registered, \* those that were answered before
  MaxStarts, \* bound: starts
  MaxFaults  \* bound: crashes and listeners that die

PortSet == {Ports[i] : i \in DOMAIN Ports}

\* One server each; those over HTTPS, and control, have requests that last.
Servers == {"control"} \cup PortSet
Streaming == {"control", "https"}

ASSUME DaemonAssumption ==
  /\ Ports \in Seq(STRING) /\ "https" \in PortSet /\ "control" \notin PortSet
  /\ Daemons \cap {"none", "free", "other"} = {}
  /\ Registered \subseteq Updates
  /\ MaxStarts \in Nat /\ MaxFaults \in Nat

VARIABLES
  file,       \* registry.json
  path,       \* whose socket is at SocketPath, alive or not, or "none"
  sock,       \* whether a daemon's control listener is open
  holder,     \* which daemon has a port: "free", or "other" for a program
              \* that is none of them
  pc,         \* where a daemon is in runDaemon
  memory,     \* its registry
  pending,    \* control requests it has and has not answered
  streams,    \* the servers of it with a log stream open
  returned,   \* the servers of it that returned
  acked,      \* registrations that were answered
  overlapped, \* whether two daemons ever ran at once
  starts,     \* starts so far
  faults      \* faults so far

listeners == <<path, sock, holder>>
requests == <<pending, streams>>
process == <<pc, memory, returned>>
counters == <<overlapped, starts, faults>>
vars == <<file, listeners, process, requests, acked, counters>>

Init ==
  /\ file = Registered
  /\ path \in Daemons \cup {"none"} \* left by a crash
  /\ sock = [d \in Daemons |-> FALSE]
  /\ holder \in [PortSet -> {"free", "other"}]
  /\ pc = [d \in Daemons |-> "off"]
  /\ memory = [d \in Daemons |-> {}]
  /\ pending = [d \in Daemons |-> {}]
  /\ streams = [d \in Daemons |-> {}]
  /\ returned = [d \in Daemons |-> {}]
  /\ acked = Registered
  /\ overlapped = FALSE
  /\ starts = 0 /\ faults = 0

\* The process ends, and with it all that it held.
Ends(d) ==
  /\ pc' = [pc EXCEPT ![d] = "off"]
  /\ sock' = [sock EXCEPT ![d] = FALSE]
  /\ holder' = [p \in PortSet |-> IF holder[p] = d THEN "free" ELSE holder[p]]
  /\ memory' = [memory EXCEPT ![d] = {}]
  /\ pending' = [pending EXCEPT ![d] = {}]
  /\ streams' = [streams EXCEPT ![d] = {}]
  /\ returned' = [returned EXCEPT ![d] = {}]
  /\ UNCHANGED <<file, acked, overlapped, starts>>

Goto(d, l) ==
  /\ pc' = [pc EXCEPT ![d] = l]
  /\ UNCHANGED <<memory, returned>>

(***************************************************************************)
(* Starting.                                                               *)
(***************************************************************************)

\* Mutant: the registry is not read until it is saved.
StartEmpty(d) ==
  /\ pc[d] = "off"
  /\ starts < MaxStarts
  /\ starts' = starts + 1
  /\ overlapped' = (overlapped \/ \E e \in Daemons : pc[e] # "off")
  /\ pc' = [pc EXCEPT ![d] = "stat"]
  /\ UNCHANGED <<file, listeners, memory, returned, requests, acked, faults>>

Start(d) ==
  /\ pc[d] = "off"
  /\ starts < MaxStarts
  /\ starts' = starts + 1
  /\ overlapped' = (overlapped \/ \E e \in Daemons : pc[e] # "off")
  /\ pc' = [pc EXCEPT ![d] = "stat"]
  /\ memory' = [memory EXCEPT ![d] = file]
  /\ UNCHANGED <<file, listeners, returned, requests, acked, faults>>

\* control.Listen, step by step.
StatSocket(d) ==
  /\ pc[d] = "stat"
  /\ Goto(d, IF path = "none" THEN "listen" ELSE "dial")
  /\ UNCHANGED <<file, listeners, requests, acked, counters>>

Accepts == path # "none" /\ sock[path]

\* Mutants: a daemon refuses to start, or never does, when the file is there.
DialNothing(d) ==
  /\ pc[d] = "dial"
  /\ path # "none"
  /\ Ends(d)
  /\ UNCHANGED <<path, faults>>

DialRefused(d) ==
  /\ pc[d] = "dial"
  /\ Accepts
  /\ Ends(d)
  /\ UNCHANGED <<path, faults>>

DialAnyway(d) ==
  /\ pc[d] = "dial"
  /\ Goto(d, "remove")
  /\ UNCHANGED <<file, listeners, requests, acked, counters>>

DialFails(d) ==
  /\ pc[d] = "dial"
  /\ ~Accepts
  /\ Goto(d, "remove")
  /\ UNCHANGED <<file, listeners, requests, acked, counters>>

RemoveStale(d) ==
  /\ pc[d] = "remove"
  /\ IF path = "none"
     THEN /\ Ends(d)
          /\ UNCHANGED <<path, faults>>
     ELSE /\ path' = "none"
          /\ Goto(d, "listen")
          /\ UNCHANGED <<file, sock, holder, requests, acked, counters>>

Bind(d) ==
  /\ pc[d] = "listen"
  /\ IF path # "none"
     THEN /\ Ends(d)
          /\ UNCHANGED <<path, faults>>
     ELSE /\ path' = d
          /\ sock' = [sock EXCEPT ![d] = TRUE]
          /\ Goto(d, "chmod")
          /\ UNCHANGED <<file, holder, requests, acked, counters>>

Chmod(d) ==
  /\ pc[d] = "chmod"
  /\ IF path = "none"
     THEN /\ Ends(d)
          /\ UNCHANGED <<path, faults>>
     ELSE /\ Goto(d, "ports")
          /\ UNCHANGED <<file, listeners, requests, acked, counters>>

Held(d) == {p \in PortSet : holder[p] = d}

NextPort(d) ==
  Ports[CHOOSE i \in DOMAIN Ports :
          /\ Ports[i] \notin Held(d)
          /\ \A j \in DOMAIN Ports : Ports[j] \notin Held(d) => i <= j]

\* Mutant: a port that is taken is passed over.
OpenPortOrNot(d) ==
  /\ pc[d] = "ports"
  /\ LET p == NextPort(d) IN
       /\ IF holder[p] = "free"
          THEN holder' = [holder EXCEPT ![p] = d]
          ELSE UNCHANGED holder
       /\ Goto(d, IF holder[p] # "free" \/ Held(d) \cup {p} = PortSet THEN "serving" ELSE "ports")
       /\ UNCHANGED <<file, path, sock, requests, acked, counters>>

\* If a port is taken, closeAll: closing the control listener removes the file.
OpenPort(d) ==
  /\ pc[d] = "ports"
  /\ LET p == NextPort(d) IN
       IF holder[p] = "free"
       THEN /\ holder' = [holder EXCEPT ![p] = d]
            /\ Goto(d, IF Held(d) \cup {p} = PortSet THEN "serving" ELSE "ports")
            /\ UNCHANGED <<file, path, sock, requests, acked, counters>>
       ELSE /\ path' = "none"
            /\ Ends(d)
            /\ UNCHANGED faults

(***************************************************************************)
(* Serving.  A client connects as soon as the socket is bound, and is      *)
(* answered once the servers run.                                          *)
(***************************************************************************)

Request(d, u) ==
  /\ path = d /\ sock[d]
  /\ u \notin acked /\ \A e \in Daemons : u \notin pending[e]
  /\ pending' = [pending EXCEPT ![d] = @ \cup {u}]
  /\ UNCHANGED <<file, listeners, process, streams, acked, counters>>

Running(d) == pc[d] \in {"serving", "stopping"}

\* The whole registry is written, then the request answered.
Answer(d, u) ==
  /\ Running(d)
  /\ u \in pending[d]
  /\ memory' = [memory EXCEPT ![d] = @ \cup {u}]
  /\ file' = memory[d] \cup {u}
  /\ acked' = acked \cup {u}
  /\ pending' = [pending EXCEPT ![d] = @ \ {u}]
  /\ UNCHANGED <<listeners, pc, returned, streams, counters>>

OpenStream(d, s) ==
  /\ pc[d] = "serving"
  /\ IF s = "control" THEN path = d /\ sock[d] ELSE holder[s] = d
  /\ streams' = [streams EXCEPT ![d] = @ \cup {s}]
  /\ UNCHANGED <<file, listeners, process, pending, acked, counters>>

\* The client leaves.
CloseStream(d, s) ==
  /\ s \in streams[d]
  /\ streams' = [streams EXCEPT ![d] = @ \ {s}]
  /\ UNCHANGED <<file, listeners, process, pending, acked, counters>>

(***************************************************************************)
(* Stopping.  Each server closes its listener and waits for its requests,  *)
(* 5 seconds at most.  Those over HTTPS are told to end (BaseContext).     *)
(***************************************************************************)

Signal(d) ==
  /\ pc[d] = "serving"
  /\ Goto(d, "stopping")
  /\ UNCHANGED <<file, listeners, requests, acked, counters>>

Listening(d, s) == IF s = "control" THEN sock[d] ELSE holder[s] = d

CloseListener(d, s) ==
  IF s = "control"
  THEN /\ path' = "none"
       /\ sock' = [sock EXCEPT ![d] = FALSE]
       /\ UNCHANGED holder
  ELSE /\ holder' = [holder EXCEPT ![s] = "free"]
       /\ UNCHANGED <<path, sock>>

\* Serve closes the listener, and its error is a reason for all to stop.
ListenerDies(d, s) ==
  /\ pc[d] = "serving"
  /\ Listening(d, s)
  /\ faults < MaxFaults
  /\ faults' = faults + 1
  /\ CloseListener(d, s)
  /\ returned' = [returned EXCEPT ![d] = @ \cup {s}]
  /\ pc' = [pc EXCEPT ![d] = "stopping"]
  /\ UNCHANGED <<file, memory, requests, acked, overlapped, starts>>

\* A connection that was never accepted is reset.
Shutdown(d, s) ==
  /\ pc[d] = "stopping"
  /\ Listening(d, s)
  /\ CloseListener(d, s)
  /\ \E reset \in SUBSET pending[d] :
       /\ s # "control" => reset = {}
       /\ pending' = [pending EXCEPT ![d] = @ \ reset]
  /\ UNCHANGED <<file, process, streams, acked, counters>>

Cancelled(d) ==
  /\ pc[d] = "stopping"
  /\ "https" \in streams[d]
  /\ streams' = [streams EXCEPT ![d] = @ \ {"https"}]
  /\ UNCHANGED <<file, listeners, process, pending, acked, counters>>

Busy(d, s) == s \in streams[d] \/ (s = "control" /\ pending[d] # {})

Waiting(d, s) == pc[d] = "stopping" /\ s \notin returned[d] /\ ~Listening(d, s)

Drained(d, s) ==
  /\ Waiting(d, s)
  /\ ~Busy(d, s)
  /\ returned' = [returned EXCEPT ![d] = @ \cup {s}]
  /\ UNCHANGED <<file, listeners, pc, memory, requests, acked, counters>>

\* Mutant: the wait has no end.
NeverTimesOut(d) == FALSE

\* What was told to end does so in less than 5 seconds: only control is late.
TimedOut(d) ==
  /\ Waiting(d, "control")
  /\ Busy(d, "control")
  /\ returned' = [returned EXCEPT ![d] = @ \cup {"control"}]
  /\ UNCHANGED <<file, listeners, pc, memory, requests, acked, counters>>

\* The deferred os.Remove.
Exit(d) ==
  /\ pc[d] = "stopping"
  /\ returned[d] = Servers
  /\ path' = "none"
  /\ Ends(d)
  /\ UNCHANGED faults

Crash(d) ==
  /\ pc[d] # "off"
  /\ faults < MaxFaults
  /\ faults' = faults + 1
  /\ Ends(d)
  /\ UNCHANGED path

StartUp(d) ==
  \/ Start(d) \/ StatSocket(d) \/ DialRefused(d) \/ DialFails(d)
  \/ RemoveStale(d) \/ Bind(d) \/ Chmod(d) \/ OpenPort(d)

Serve(d) ==
  \/ \E u \in Updates : Request(d, u) \/ Answer(d, u)
  \/ \E s \in Streaming : OpenStream(d, s) \/ CloseStream(d, s)

Stop(d) ==
  \/ Signal(d)
  \/ \E s \in Servers : ListenerDies(d, s) \/ Shutdown(d, s) \/ Drained(d, s)
  \/ Cancelled(d) \/ TimedOut(d) \/ Exit(d) \/ Crash(d)

Next == \E d \in Daemons : StartUp(d) \/ Serve(d) \/ Stop(d)

Spec == Init /\ [][Next]_vars

(***************************************************************************)
(* The goroutines of a daemon that is to stop run, and its timer fires.    *)
(* No client need leave, and nothing makes a request finish.               *)
(***************************************************************************)
Fairness ==
  \A d \in Daemons :
    /\ \A s \in Servers : WF_vars(Shutdown(d, s)) /\ WF_vars(Drained(d, s))
    /\ WF_vars(Cancelled(d)) /\ WF_vars(TimedOut(d)) /\ WF_vars(Exit(d))

FairSpec == Spec /\ Fairness

(***************************************************************************)
(* Properties.                                                             *)
(***************************************************************************)

TypeOK ==
  /\ file \subseteq Updates /\ acked \subseteq Updates
  /\ path \in Daemons \cup {"none"}
  /\ sock \in [Daemons -> BOOLEAN]
  /\ holder \in [PortSet -> Daemons \cup {"free", "other"}]
  /\ pc \in [Daemons -> {"off", "stat", "dial", "remove", "listen", "chmod",
                         "ports", "serving", "stopping"}]
  /\ memory \in [Daemons -> SUBSET Updates]
  /\ pending \in [Daemons -> SUBSET Updates]
  /\ streams \in [Daemons -> SUBSET Streaming]
  /\ returned \in [Daemons -> SUBSET Servers]
  /\ overlapped \in BOOLEAN
  /\ \A d \in Daemons : returned[d] # {} => pc[d] = "stopping"
  /\ starts \in 0..MaxStarts /\ faults \in 0..MaxFaults

\* "If even one cannot be opened it starts nothing": a daemon that answers has
\* every listener that none of its faults closed.
WholeOrNothing == \A d \in Daemons : pc[d] = "serving" => Held(d) = PortSet /\ sock[d]

\* "A stale socket (left by a crashed daemon) can be reused": unless another
\* daemon ran at the same time, it does not keep one from starting, nor hide it.
StaleSocketHarmless ==
  [][\A d \in Daemons : ~overlapped' =>
       /\ pc[d] \notin {"off", "ports", "stopping"} /\ pc'[d] = "off" => faults' # faults
       /\ pc'[d] = "serving" => path' = d]_vars

\* "Registrations persist across reboots": what was answered is in the file,
\* through shutdowns that requests are still part of, crashes, and restarts.
AnsweredIsKept == ~overlapped => acked \subseteq file

\* A second daemon does not take the socket of one that serves, unless it was
\* about to remove a stale one, or remove its own, when that one bound it.
Settled(d) ==
  /\ pc[d] = "serving" /\ path = d
  /\ \A e \in Daemons \ {d} : pc[e] \notin {"remove", "chmod", "ports", "stopping"}

SecondIsHarmless ==
  [][\A d \in Daemons : Settled(d) /\ pc'[d] = "serving" => Settled(d)']_vars

\* "If any listener dies, stop everything": a daemon that is told to stop, or
\* lost a listener, is gone in the end, whatever its clients do.
StopsWhole ==
  \A d \in Daemons : pc[d] = "stopping" \/ returned[d] # {} ~> pc[d] = "off"

\* "An existing socket file is removed ... only when it accepts no
\* connections", which is what Listen means to do.
OnlyStaleRemoved == [][\A d \in Daemons : RemoveStale(d) => ~Accepts]_vars

\* "Request contexts derive from ctx so long-lived handlers (the log stream)
\* end on shutdown instead of holding Shutdown for its timeout."
StreamsEndOnShutdown ==
  [][\A d \in Daemons : TimedOut(d) => "control" \notin streams[d]]_vars

=============================================================================
