------------------------------ MODULE MCServing ------------------------------
(***************************************************************************)
(* One app with a default service and one under a mount; two runs of the   *)
(* latter, two ports and two processes, so that a port goes from one       *)
(* process to another and a run is overtaken by the next.  `add` registers *)
(* the default service, with a mount that has the other's as a prefix by   *)
(* characters, and with the other's mount; the former with a pid.  Two     *)
(* readers want one stream.                                                *)
(***************************************************************************)
EXTENDS Serving, TLC

CONSTANTS r1, r2, q1, v1, v2

A == <<"/", "a">>
AB == <<"/", "a", "b">>

MCRuns == {r1, r2}
MCRequests == {q1}
MCViewers == {v1, v2}
MCPorts == {1, 2}
MCRank == [api |-> 1, web |-> 2]
MCRunOf == [r \in MCRuns |->
  [app |-> "shop", service |-> "api", path |-> A, strip |-> TRUE]]

Svc(port, path, pid) == [port |-> port, path |-> path, strip |-> TRUE, pid |-> pid]

MCAdded == {[app |-> "shop", service |-> "web", svc |-> svc] :
             svc \in {Svc(1, AB, 1), Svc(1, A \o <<"/">>, 0)}}
MCRequested ==
  {Svc(port, path, pid) : port \in MCPorts, path \in {A, AB, A \o <<"/">>}, pid \in 0..2}

MCAsked == {[host |-> <<"shop">>, path |-> path] :
             path \in {A, AB \o <<"/">>}}
           \cup {[host |-> <<"api", "shop">>, path |-> <<"/">>],
                 [host |-> <<>>, path |-> <<"/">>],
                 [host |-> Elsewhere, path |-> <<"/">>]}

Symmetry == Permutations(MCRuns)

\* Two questions at a time: what is served, and the readers of log streams,
\* who only want to know if the service is registered.
Focus ==
  \/ \A v \in Viewers : viewer[v].pc = "idle"
  \/ /\ pids = 0
     /\ \A r \in Runs : run[r].pc = "idle"
     /\ \A q \in Requests : req[q].pc = "idle"

=============================================================================
