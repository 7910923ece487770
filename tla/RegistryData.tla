---------------------------- MODULE RegistryData ----------------------------
(***************************************************************************)
(* The registry as a value: two levels, app > service, and the three edits *)
(* of registry.Store as functions on that value.  An app is registered     *)
(* when it is in the registry's domain, so an app that is registered       *)
(* without any service can be told from an app that is not registered.     *)
(*                                                                         *)
(* The slices of the code are sorted by name and searched by name; a       *)
(* function from names is that slice with the order left out, which is why *)
(* the model has no step for sortApps.                                     *)
(***************************************************************************)
EXTENDS Naturals, Sequences

CONSTANTS
  Apps,       \* the app names callers send
  Services,   \* the service names callers send
  ValidNames, \* the names that match [a-z0-9-]{1,63}
  Requested   \* the services callers ask for: [port, path, pid]

MaxPort == 65535

(***************************************************************************)
(* Validation and normalisation.  A path is the sequence of its characters.*)
(***************************************************************************)

ForbiddenInPath == {"?", "#", " ", "\t", "\r", "\n"}

ValidPath(p) ==
  p # <<>> => /\ p[1] = "/"
              /\ \A i \in DOMAIN p : p[i] \notin ForbiddenInPath

ValidService(v) ==
  /\ v.port >= 1 /\ v.port <= MaxPort
  /\ ValidPath(v.path)
  /\ v.pid >= 0

\* strings.TrimRight(p, "/"): the positions that have a character other than
\* "/" at or after them are a prefix of p.
NormalizePath(p) ==
  [i \in {i \in DOMAIN p : \E j \in DOMAIN p : j >= i /\ p[j] # "/"} |-> p[i]]

Normalize(v) == [v EXCEPT !.path = NormalizePath(v.path)]

(***************************************************************************)
(* Registries.                                                             *)
(***************************************************************************)

Stored == {Normalize(v) : v \in {v \in Requested : ValidService(v)}}

\* Functions to T from some of the elements of U.
Partial(U, T) == UNION {[A -> T] : A \in SUBSET U}

ServiceMaps == Partial(Services \cap ValidNames, Stored)

Registries == Partial(Apps \cap ValidNames, ServiceMaps)

EmptyRegistry == [a \in {} |-> {}]

(***************************************************************************)
(* Operations of the store, as the control API and the dashboard issue     *)
(* them.                                                                   *)
(***************************************************************************)

NoOp == [kind |-> "none"]

Writes ==
  [kind : {"put"}, app : Apps, service : Services, svc : Requested]
    \cup [kind : {"removeApp"}, app : Apps]
    \cup [kind : {"removeService"}, app : Apps, service : Services]

Reads == [kind : {"apps"}] \cup [kind : {"app"}, app : Apps]

Ops == Writes \cup Reads

IsWrite(o) == o.kind \in {"put", "removeApp", "removeService"}

\* What the handlers and Put check before they take the lock.
Valid(o) ==
  /\ o.kind # "apps" => o.app \in ValidNames
  /\ o.kind \in {"put", "removeService"} => o.service \in ValidNames
  /\ o.kind = "put" => ValidService(o.svc)

\* Whether the operation names something that is there.
Found(apps, o) ==
  CASE o.kind \in {"removeApp", "app"} -> o.app \in DOMAIN apps
    [] o.kind = "removeService" ->
         o.app \in DOMAIN apps /\ o.service \in DOMAIN apps[o.app]
    [] OTHER -> TRUE

Without(f, x) == [y \in DOMAIN f \ {x} |-> f[y]]

With(f, x, v) == [y \in DOMAIN f \cup {x} |-> IF y = x THEN v ELSE f[y]]

ServicesOf(apps, a) == IF a \in DOMAIN apps THEN apps[a] ELSE EmptyRegistry

\* Put: the service is replaced entirely, or added, and so is its app.
PutService(apps, o) ==
  With(apps, o.app,
       With(ServicesOf(apps, o.app), o.service, Normalize(o.svc)))

RemoveApp(apps, o) == Without(apps, o.app)

\* Mutant: the app stays when its last service goes.
RemoveServiceKeepsApp(apps, o) ==
  With(apps, o.app, Without(apps[o.app], o.service))

\* RemoveService drops an app it leaves with no service.
RemoveService(apps, o) ==
  LET left == Without(apps[o.app], o.service)
  IN  IF DOMAIN left = {} THEN Without(apps, o.app) ELSE With(apps, o.app, left)

\* The registry after a write that found what it names.
Edited(apps, o) ==
  CASE o.kind = "put"           -> PutService(apps, o)
    [] o.kind = "removeApp"     -> RemoveApp(apps, o)
    [] o.kind = "removeService" -> RemoveService(apps, o)

(***************************************************************************)
(* Answers: a status and the part of the registry the response shows.      *)
(***************************************************************************)

Answers == [status : {"none", "ok", "notFound", "invalid", "failed"},
            shows : Registries]

Answer(status) == [status |-> status, shows |-> EmptyRegistry]

\* Apps shows everything, App one app, Put the service it saved.
Shown(apps, o) ==
  CASE o.kind = "apps" -> apps
    [] o.kind = "app"  -> [a \in {o.app} |-> apps[a]]
    [] o.kind = "put"  -> PutService(EmptyRegistry, o)
    [] OTHER           -> EmptyRegistry

Success(apps, o) == [status |-> "ok", shows |-> Shown(apps, o)]

(***************************************************************************)
(* What a registry must look like, whatever was done to it.                *)
(***************************************************************************)

NoEmptyApp(apps) == \A a \in DOMAIN apps : DOMAIN apps[a] # {}

=============================================================================
