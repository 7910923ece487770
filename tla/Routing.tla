------------------------------- MODULE Routing -------------------------------
(***************************************************************************)
(* Which service a URL reaches.  A host is the sequence of the labels in   *)
(* front of the development domain, outermost first (<<>> is the domain    *)
(* itself), or Elsewhere; its case, port and trailing dot are gone.  A     *)
(* path is the sequence of its characters, as in RegistryData, and so is a *)
(* mount.                                                                  *)
(***************************************************************************)
EXTENDS RegistryData

CONSTANTS
  DefaultService, \* registry.DefaultService
  Rank,           \* the place of each service name in the order of names
  Elsewhere       \* a host that is not under the development domain

ASSUME RoutingAssumption ==
  /\ Rank \in [Services -> Nat]
  /\ \A s, t \in Services : Rank[s] = Rank[t] => s = t
  /\ Requested \subseteq [port : Nat, path : Seq(STRING), strip : BOOLEAN, pid : Nat]
  /\ \A a \in Apps, s \in Services : Elsewhere # <<a>> /\ Elsewhere # <<s, a>>

Slash == <<"/">>

Mount(svc) == NormalizePath(svc.path)

\* Mutant: a prefix by characters.
PathHasPrefixByCharacters(path, mount) ==
  /\ Len(path) >= Len(mount)
  /\ SubSeq(path, 1, Len(mount)) = mount

\* The path is the mount or lies under it, by segments.
PathHasPrefix(path, mount) ==
  \/ path = mount
  \/ /\ Len(path) > Len(mount)
     /\ SubSeq(path, 1, Len(mount) + 1) = mount \o Slash

\* The services whose mount a path lies under, and the longest of them, the
\* first by name if several have the same.
Mounted(services, path) ==
  {s \in DOMAIN services :
     LET mount == Mount(services[s]) IN mount # <<>> /\ PathHasPrefix(path, mount)}

Over(services, s, t) ==
  LET m == Len(Mount(services[s]))  n == Len(Mount(services[t]))
  IN  m > n \/ (m = n /\ Rank[s] <= Rank[t])

MatchPath(services, path) ==
  LET fit == Mounted(services, path)
  IN  CHOOSE s \in fit : \A t \in fit \ {s} : Over(services, s, t)

\* Where a request goes: a kind, and for a proxied one the registration as it
\* is at this moment.
ToProxy(apps, a, s, mount) ==
  [kind |-> "proxy", app |-> a, service |-> s, svc |-> apps[a][s], mount |-> mount]

NotFound(kind) == [kind |-> kind]

\* <service>.<app>.<domain>: the path is passed through.
ResolveService(apps, a, s) ==
  IF s \in DOMAIN apps[a] THEN ToProxy(apps, a, s, <<>>)
  ELSE NotFound("unknownService")

\* <app>.<domain>: the longest mount, then the default service.
ResolveApp(apps, a, path) ==
  IF Mounted(apps[a], path) # {}
  THEN LET s == MatchPath(apps[a], path)
       IN  ToProxy(apps, a, s, Mount(apps[a][s]))
  ELSE IF DefaultService \in DOMAIN apps[a]
       THEN ToProxy(apps, a, DefaultService, <<>>)
       ELSE NotFound("noDefault")

Resolve(apps, host, path) ==
  IF host = Elsewhere THEN NotFound("unknownHost")
  ELSE IF host = <<>> THEN NotFound("apex")
  ELSE IF Len(host) > 2 THEN NotFound("unknownHost")
  ELSE IF host[Len(host)] \notin DOMAIN apps THEN NotFound("unknownApp")
  ELSE IF Len(host) = 2 THEN ResolveService(apps, host[2], host[1])
  ELSE ResolveApp(apps, host[1], path)

\* The path the target sees: the mount is dropped only on the way through it,
\* and only if the registration says so.
StripMount(path, mount) ==
  LET rest == SubSeq(path, Len(mount) + 1, Len(path))
  IN  IF rest = <<>> THEN Slash ELSE rest

Rewrite(rt, path) ==
  IF rt.mount # <<>> /\ rt.svc.strip THEN StripMount(path, rt.mount) ELSE path

\* The URLs a registration is advertised with.
URLs(a, s, svc) ==
  LET mount == Mount(svc)
  IN  (IF s = DefaultService THEN {[host |-> <<a>>, path |-> Slash]} ELSE {})
        \cup {[host |-> <<s, a>>, path |-> Slash]}
        \cup (IF mount # <<>>
              THEN {[host |-> <<a>>, path |-> mount \o Slash]} ELSE {})

\* Two services of one app may be given the same mount; nothing refuses it.
MountIsShared(services, s) ==
  \E t \in DOMAIN services \ {s} :
    Mount(services[t]) # <<>> /\ Mount(services[t]) = Mount(services[s])

=============================================================================
