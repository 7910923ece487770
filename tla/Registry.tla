------------------------------ MODULE Registry ------------------------------
(***************************************************************************)
(* What registry.Store promises its callers: one registry, on which every  *)
(* operation takes effect at one instant between its request and its       *)
(* answer, or not at all.  A write answered "ok" has taken effect and a    *)
(* write answered anything else has not; a read shows the registry of that *)
(* instant.  A crash of the daemon loses the requests in progress and      *)
(* nothing else.  A loss of power may also take the registry back to what  *)
(* the file system last made durable.                                      *)
(***************************************************************************)
EXTENDS RegistryData

CONSTANT Handlers \* requests that can be in progress at the same time

VARIABLES
  up,     \* whether the daemon is running
  map,    \* the registry
  stable, \* the registry a loss of power may go back to
  phase,  \* of each request: "idle", "pending" or "done"
  op,     \* its operation
  ans     \* its answer

vars == <<up, map, stable, phase, op, ans>>

Init ==
  /\ up = TRUE
  /\ map = EmptyRegistry
  /\ stable = EmptyRegistry
  /\ phase = [h \in Handlers |-> "idle"]
  /\ op = [h \in Handlers |-> NoOp]
  /\ ans = [h \in Handlers |-> Answer("none")]

Send(h, o) ==
  /\ up
  /\ phase[h] = "idle"
  /\ phase' = [phase EXCEPT ![h] = "pending"]
  /\ op' = [op EXCEPT ![h] = o]
  /\ UNCHANGED <<up, map, stable, ans>>

Done(h, a) ==
  /\ up
  /\ phase[h] = "pending"
  /\ phase' = [phase EXCEPT ![h] = "done"]
  /\ ans' = [ans EXCEPT ![h] = a]
  /\ UNCHANGED <<up, stable, op>>

Refuse(h) ==
  /\ Done(h, Answer("invalid"))
  /\ ~Valid(op[h])
  /\ UNCHANGED map

Miss(h) ==
  /\ Done(h, Answer("notFound"))
  /\ Valid(op[h])
  /\ ~Found(map, op[h])
  /\ UNCHANGED map

Read(h) ==
  /\ phase[h] = "pending"
  /\ ~IsWrite(op[h])
  /\ Valid(op[h])
  /\ Found(map, op[h])
  /\ Done(h, Success(map, op[h]))
  /\ UNCHANGED map

Write(h) ==
  /\ phase[h] = "pending"
  /\ IsWrite(op[h])
  /\ Valid(op[h])
  /\ Found(map, op[h])
  /\ Done(h, Success(map, op[h]))
  /\ map' = Edited(map, op[h])

Fail(h) ==
  /\ IsWrite(op[h])
  /\ Done(h, Answer("failed"))
  /\ UNCHANGED map

Return(h) ==
  /\ phase[h] = "done"
  /\ phase' = [phase EXCEPT ![h] = "idle"]
  /\ op' = [op EXCEPT ![h] = NoOp]
  /\ ans' = [ans EXCEPT ![h] = Answer("none")]
  /\ UNCHANGED <<up, map, stable>>

Flush ==
  /\ stable' = map
  /\ UNCHANGED <<up, map, phase, op, ans>>

LoseRequests ==
  /\ up
  /\ up' = FALSE
  /\ phase' = [h \in Handlers |-> "idle"]
  /\ op' = [h \in Handlers |-> NoOp]
  /\ ans' = [h \in Handlers |-> Answer("none")]

Crash == LoseRequests /\ UNCHANGED <<map, stable>>

PowerLoss ==
  /\ LoseRequests
  /\ map' \in {map, stable}
  /\ stable' = map'

Restart ==
  /\ ~up
  /\ up' = TRUE
  /\ UNCHANGED <<map, stable, phase, op, ans>>

Next ==
  \/ \E h \in Handlers :
       \/ \E o \in Ops : Send(h, o)
       \/ Refuse(h) \/ Miss(h) \/ Read(h) \/ Write(h) \/ Fail(h) \/ Return(h)
  \/ Flush \/ Crash \/ PowerLoss \/ Restart

Spec == Init /\ [][Next]_vars

=============================================================================
