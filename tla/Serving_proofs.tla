--------------------------- MODULE Serving_proofs ---------------------------
(***************************************************************************)
(* Proofs about Routing and Serving, for any names, paths, runs, requests, *)
(* ports and readers.                                                      *)
(*                                                                         *)
(* That an advertised URL resolves to its service holds of every registry: *)
(* it is a fact about paths, for which a longest match must be shown to    *)
(* exist.  ServedAsRegistered needs that a registration's pid and port     *)
(* belong together, wherever a copy of it is held, and that a pid that     *)
(* ended does not come back.                                               *)
(***************************************************************************)
EXTENDS Serving, FiniteSetTheorems, SequenceTheorems, WellFoundedInduction, TLAPS

(***************************************************************************)
(* Registries.                                                             *)
(***************************************************************************)

\* A function from some of the elements of U to T.
LEMMA PartialFacts ==
  ASSUME NEW U, NEW T, NEW f
  PROVE  f \in Partial(U, T) <=>
           DOMAIN f \subseteq U /\ f = [x \in DOMAIN f |-> f[x]] /\ \A x \in DOMAIN f : f[x] \in T
<1>1. ASSUME f \in Partial(U, T)
      PROVE  DOMAIN f \subseteq U /\ f = [x \in DOMAIN f |-> f[x]] /\ \A x \in DOMAIN f : f[x] \in T
  BY <1>1 DEF Partial
<1>2. ASSUME DOMAIN f \subseteq U, f = [x \in DOMAIN f |-> f[x]], \A x \in DOMAIN f : f[x] \in T
      PROVE  f \in Partial(U, T)
  <2>1. f \in [DOMAIN f -> T]
    BY <1>2
  <2>2. QED
    BY <1>2, <2>1 DEF Partial
<1>3. QED
  BY <1>1, <1>2

\* Registrations that are made or dropped leave a registry.
LEMMA EmptyRegistryType == EmptyRegistry \in Registries /\ EmptyRegistry \in ServiceMaps
  BY PartialFacts DEF Registries, ServiceMaps, EmptyRegistry

LEMMA WithPartial ==
  ASSUME NEW U, NEW T, NEW f \in Partial(U, T), NEW x \in U, NEW v \in T
  PROVE  With(f, x, v) \in Partial(U, T) /\ DOMAIN With(f, x, v) # {}
  BY PartialFacts DEF With

LEMMA WithoutPartial ==
  ASSUME NEW U, NEW T, NEW f \in Partial(U, T), NEW x
  PROVE  Without(f, x) \in Partial(U, T)
  BY PartialFacts DEF Without

LEMMA AppOf ==
  ASSUME NEW reg \in Registries, NEW a \in DOMAIN reg
  PROVE  a \in Apps \cap ValidNames /\ reg[a] \in ServiceMaps
  BY PartialFacts DEF Registries

LEMMA WithService ==
  ASSUME NEW svcs \in ServiceMaps, NEW s \in Services \cap ValidNames, NEW v \in Stored
  PROVE  With(svcs, s, v) \in ServiceMaps /\ DOMAIN With(svcs, s, v) # {}
  BY WithPartial DEF ServiceMaps

LEMMA WithApp ==
  ASSUME NEW reg \in Registries, NEW a \in Apps \cap ValidNames, NEW svcs \in ServiceMaps
  PROVE  With(reg, a, svcs) \in Registries
  BY WithPartial DEF Registries

LEMMA WithoutApp ==
  ASSUME NEW reg \in Registries, NEW a
  PROVE  Without(reg, a) \in Registries
  BY WithoutPartial DEF Registries

LEMMA ServicesOfType ==
  ASSUME NEW reg \in Registries, NEW a
  PROVE  ServicesOf(reg, a) \in ServiceMaps
  BY EmptyRegistryType, AppOf DEF ServicesOf

LEMMA RemoveServiceType ==
  ASSUME NEW reg \in Registries, NEW o, o.app \in DOMAIN reg
  PROVE  RemoveService(reg, o) \in Registries
<1> DEFINE left == Without(reg[o.app], o.service)
<1>1. o.app \in Apps \cap ValidNames /\ left \in ServiceMaps
  BY AppOf, WithoutPartial DEF ServiceMaps
<1>2. RemoveService(reg, o) =
        IF DOMAIN left = {} THEN Without(reg, o.app) ELSE With(reg, o.app, left)
  BY DEF RemoveService
<1> HIDE DEF left
<1>3. QED
  BY <1>1, <1>2, WithoutApp, WithApp

(***************************************************************************)
(* Numbers.                                                                *)
(***************************************************************************)

\* A set of numbers has a least one.
LEMMA Least ==
  ASSUME NEW T \in SUBSET Nat, T # {}
  PROVE  \E x \in T : \A y \in T : x <= y
<1> DEFINE I(x) == 0..x
           F == {I(x) : x \in T}
           R == StrictSubsetOrdering(Nat)
<1>1. F \subseteq FiniteSubsetsOf(Nat)
  <2>1. ASSUME NEW x \in T PROVE IsFiniteSet(I(x)) /\ I(x) \subseteq Nat
    BY FS_Interval
  <2>2. QED
    BY <2>1 DEF FiniteSubsetsOf
<1>2. F # {}
  OBVIOUS
<1>3. PICK s \in F : \A t \in F : <<t, s>> \notin R
  <2> HIDE DEF F, R
  <2>1. IsWellFoundedOn(R, FiniteSubsetsOf(Nat))
    BY FS_StrictSubsetOrderingWellFounded DEF R
  <2>2. QED
    BY <1>1, <1>2, <2>1, WFMin
<1>4. PICK x \in T : s = I(x)
  OBVIOUS
<1>5. ASSUME NEW y \in T, y < x PROVE FALSE
  <2>1. I(y) \subseteq I(x) /\ I(y) # I(x)
    BY <1>5
  <2>2. I(x) \subseteq Nat
    OBVIOUS
  <2>3. <<I(y), I(x)>> \in R
    BY <2>1, <2>2 DEF StrictSubsetOrdering
  <2>4. QED
    BY <1>3, <1>4, <2>3
<1>6. QED
  BY <1>5

\* A set of numbers with a bound has a greatest one.
LEMMA Greatest ==
  ASSUME NEW n \in Nat, NEW T \in SUBSET Nat, T # {}, \A x \in T : x <= n
  PROVE  \E x \in T : \A y \in T : y <= x
<1> DEFINE D == {n - x : x \in T}
<1>1. D \in SUBSET Nat
  <2>1. ASSUME NEW x \in T PROVE n - x \in Nat
    OBVIOUS
  <2>2. QED
    BY <2>1
<1>2. D # {}
  OBVIOUS
<1>3. PICK d \in D : \A e \in D : d <= e
  <2> HIDE DEF D
  <2>1. QED
    BY <1>1, <1>2, Least
<1>4. PICK x \in T : d = n - x
  OBVIOUS
<1>5. ASSUME NEW y \in T PROVE y <= x
  <2>1. n - x <= n - y
    BY <1>3, <1>4
  <2>2. x \in Nat /\ y \in Nat
    OBVIOUS
  <2>3. QED
    BY <2>1, <2>2
<1>6. QED
  BY <1>5

(***************************************************************************)
(* Paths.                                                                  *)
(***************************************************************************)

\* The provers do not know that a literal is in STRING.
Text == STRING \cup {"/"}

\* A normalized path is a path, and does not end in a slash.
LEMMA NormalizedPath ==
  ASSUME NEW p \in Seq(Text)
  PROVE  /\ NormalizePath(p) \in Seq(Text)
         /\ NormalizePath(p) # <<>> =>
              Len(NormalizePath(p)) > 0 /\ NormalizePath(p)[Len(NormalizePath(p))] # "/"
<1> DEFINE T == {j \in DOMAIN p : p[j] # "/"}
           D == {i \in DOMAIN p : \E j \in DOMAIN p : j >= i /\ p[j] # "/"}
<1>1. DOMAIN p = 1..Len(p) /\ Len(p) \in Nat
  OBVIOUS
<1>2. NormalizePath(p) = [i \in D |-> p[i]]
  BY DEF NormalizePath
<1>3. CASE T = {}
  <2>1. D = {}
    BY <1>3
  <2>2. NormalizePath(p) = <<>>
    BY <1>2, <2>1
  <2>3. QED
    BY <2>2
<1>4. CASE T # {}
  <2>1. PICK m \in T : \A j \in T : j <= m
    <3>1. T \in SUBSET Nat /\ \A x \in T : x <= Len(p)
      BY <1>1
    <3>2. QED
      BY <1>1, <1>4, <3>1, Greatest
  <2>2. D = 1..m
    <3>1. m \in 1..Len(p) /\ p[m] # "/"
      BY <1>1
    <3>2. ASSUME NEW i \in D PROVE i \in 1..m
      BY <1>1, <2>1, <3>1
    <3>3. ASSUME NEW i \in 1..m PROVE i \in D
      BY <1>1, <3>1
    <3>4. QED
      BY <3>2, <3>3
  <2>3. m \in 1..Len(p) /\ p[m] # "/"
    BY <1>1
  <2> HIDE DEF D, T
  <2>4. NormalizePath(p) = [i \in 1..m |-> p[i]]
    BY <1>2, <2>2
  <2>5. \A i \in 1..m : p[i] \in Text
    BY <1>1, <2>3
  <2>6. QED
    BY <2>3, <2>4, <2>5
<1>5. QED
  BY <1>3, <1>4

\* A stored service is a record, and so its mount is such a path.
LEMMA StoredMount ==
  ASSUME NEW svc \in Stored
  PROVE  /\ Mount(svc) \in Seq(Text)
         /\ Mount(svc) # <<>> => Len(Mount(svc)) > 0 /\ Mount(svc)[Len(Mount(svc))] # "/"
<1>1. PICK v \in Requested : svc = Normalize(v)
  BY DEF Stored
<1>2. v \in [port : Nat, path : Seq(STRING), strip : BOOLEAN, pid : Nat]
  BY RoutingAssumption
<1>3. svc.path = NormalizePath(v.path)
  BY <1>1, <1>2 DEF Normalize
<1>4. svc.path \in Seq(Text)
  <2>1. v.path \in Seq(STRING) /\ STRING \subseteq Text
    BY <1>2 DEF Text
  <2>2. v.path \in Seq(Text)
    BY <2>1, SeqMonotonic
  <2>3. QED
    BY <1>3, <2>2, NormalizedPath
<1>5. QED
  BY <1>4, NormalizedPath DEF Mount

\* A mounted path is longer than the mount, or the mount itself.
LEMMA PrefixFacts ==
  ASSUME NEW path \in Seq(Text), NEW mount \in Seq(Text), PathHasPrefix(path, mount)
  PROVE  /\ Len(mount) <= Len(path)
         /\ \/ path = mount
            \/ Len(path) > Len(mount) /\ path[Len(mount) + 1] = "/"
         /\ mount = SubSeq(path, 1, Len(mount))
<1>1. CASE path = mount
  BY <1>1
<1>2. CASE /\ Len(path) > Len(mount)
           /\ SubSeq(path, 1, Len(mount) + 1) = mount \o Slash
  <2> DEFINE n == Len(mount)
  <2>1. n \in Nat /\ n + 1 <= Len(path)
    BY <1>2
  <2>2. \A i \in 1..(n + 1) : SubSeq(path, 1, n + 1)[i] = path[i]
    BY <2>1
  <2>3. \A i \in 1..n : (mount \o Slash)[i] = mount[i]
    BY DEF Slash
  <2>4. (mount \o Slash)[n + 1] = "/"
    BY DEF Slash
  <2>5. path[n + 1] = "/"
    BY <1>2, <2>1, <2>2, <2>4
  <2>6. \A i \in 1..n : path[i] = mount[i]
    BY <1>2, <2>1, <2>2, <2>3
  <2>7. SubSeq(path, 1, n) = mount
    BY <2>1, <2>6
  <2>8. QED
    BY <2>1, <2>5, <2>7, <1>2
<1>3. QED
  BY <1>1, <1>2 DEF PathHasPrefix

(***************************************************************************)
(* Routing.                                                                *)
(***************************************************************************)

\* The services of an app, with their mounts.
LEMMA ServiceFacts ==
  ASSUME NEW services \in ServiceMaps, NEW s \in DOMAIN services
  PROVE  /\ s \in Services /\ services[s] \in Stored
         /\ Mount(services[s]) \in Seq(Text)
         /\ Mount(services[s]) # <<>> =>
              /\ Len(Mount(services[s])) > 0
              /\ Mount(services[s])[Len(Mount(services[s]))] # "/"
<1>1. s \in Services /\ services[s] \in Stored
  BY PartialFacts DEF ServiceMaps
<1>2. QED
  BY <1>1, StoredMount

\* A sequence is not empty if it has a length.
LEMMA NotEmpty ==
  ASSUME NEW S, NEW s \in Seq(S)
  PROVE  Len(s) \in Nat /\ (s # <<>> <=> Len(s) > 0)
  BY EmptySeq

\* The root path is a path of one character.
LEMMA SlashFacts == Slash \in Seq(Text) /\ Len(Slash) = 1 /\ Slash[1] = "/"
<1>1. "/" \in Text
  BY DEF Text
<1>2. Slash = <<"/">>
  BY DEF Slash
<1>3. QED
  BY <1>1, <1>2

\* If any mount has the path, one of them is chosen, which goes over the others.
LEMMA MatchFacts ==
  ASSUME NEW services \in ServiceMaps, NEW path \in Seq(Text),
         Mounted(services, path) # {}
  PROVE  /\ MatchPath(services, path) \in Mounted(services, path)
         /\ \A t \in Mounted(services, path) : Over(services, MatchPath(services, path), t)
<1> DEFINE M == Mounted(services, path)
           L(s) == Len(Mount(services[s]))
           Lengths == {L(s) : s \in M}
<1>1. ASSUME NEW s \in M
      PROVE  s \in DOMAIN services /\ s \in Services /\ L(s) \in Nat /\ L(s) <= Len(path)
  <2>1. s \in DOMAIN services /\ PathHasPrefix(path, Mount(services[s]))
    BY DEF Mounted
  <2>2. Mount(services[s]) \in Seq(Text) /\ s \in Services
    BY <2>1, ServiceFacts
  <2>3. L(s) <= Len(path)
    BY <2>1, <2>2, PrefixFacts
  <2>4. QED
    BY <2>1, <2>2, <2>3
<1> HIDE DEF M, L
<1>2. PICK n \in Lengths : \A m \in Lengths : m <= n
  <2>1. Lengths \in SUBSET Nat /\ Lengths # {} /\ \A x \in Lengths : x <= Len(path)
    BY <1>1 DEF M
  <2>2. Len(path) \in Nat
    OBVIOUS
  <2> HIDE DEF Lengths
  <2>3. QED
    BY <2>1, <2>2, Greatest
<1> DEFINE Longest == {s \in M : L(s) = n}
           Ranks == {Rank[s] : s \in Longest}
<1>3. PICK r \in Ranks : \A k \in Ranks : r <= k
  <2>1. Longest # {}
    BY <1>2
  <2>2. Ranks \in SUBSET Nat /\ Ranks # {}
    BY <1>1, <2>1, RoutingAssumption
  <2> HIDE DEF Ranks
  <2>3. QED
    BY <2>2, Least
<1>4. PICK s \in Longest : r = Rank[s]
  BY <1>3
<1>5. ASSUME NEW t \in M PROVE Over(services, s, t)
  <2>1. L(t) <= L(s) /\ L(t) \in Nat /\ L(s) \in Nat
    BY <1>1, <1>2, <1>4
  <2>2. L(t) = L(s) => Rank[s] <= Rank[t]
    BY <1>3, <1>4
  <2>3. QED
    BY <2>1, <2>2 DEF Over, L
<1>6. \E x \in M : \A t \in M \ {x} : Over(services, x, t)
  BY <1>4, <1>5
<1>7. \A x \in M : Over(services, x, x)
  BY <1>1, RoutingAssumption DEF Over, L
<1>8. QED
  BY <1>6, <1>7 DEF MatchPath, M

\* What is left of a path is a path: the mount ends where a segment begins.
LEMMA StrippedPath ==
  ASSUME NEW path \in Seq(Text), Len(path) > 0, path[1] = "/",
         NEW mount \in Seq(Text), PathHasPrefix(path, mount)
  PROVE  StripMount(path, mount)[1] = "/"
<1> DEFINE n == Len(mount)
           rest == SubSeq(path, n + 1, Len(path))
<1>1. CASE path = mount
  <2>1. rest = <<>>
    BY <1>1
  <2>2. QED
    BY <2>1 DEF StripMount, Slash
<1>2. CASE Len(path) > n /\ path[n + 1] = "/"
  <2>1. n \in Nat /\ Len(rest) = Len(path) - n /\ rest \in Seq(Text)
    BY <1>2
  <2>2. Len(rest) > 0 /\ rest[1] = path[n + 1]
    BY <1>2, <2>1
  <2>3. rest # <<>>
    <3> HIDE DEF rest
    <3>1. QED
      BY <2>1, <2>2, NotEmpty
  <2>4. QED
    BY <1>2, <2>2, <2>3 DEF StripMount
<1>3. QED
  BY <1>1, <1>2, PrefixFacts

\* A service's own path leads to it, or to one with the same mount.
LEMMA OwnMount ==
  ASSUME NEW services \in ServiceMaps, NEW s \in DOMAIN services,
         Mount(services[s]) # <<>>
  PROVE  LET path == Mount(services[s]) \o Slash
         IN  /\ Mounted(services, path) # {}
             /\ MatchPath(services, path) \in DOMAIN services
             /\ MatchPath(services, path) = s \/ MountIsShared(services, s)
<1> DEFINE m == Mount(services[s])
           path == m \o Slash
           t == MatchPath(services, path)
           k == Mount(services[t])
<1>1. m \in Seq(Text) /\ Len(m) > 0 /\ Len(m) \in Nat
  BY ServiceFacts
<1>2. path \in Seq(Text) /\ Len(path) = Len(m) + 1 /\ path[Len(path)] = "/"
  <2>1. /\ path \in Seq(Text) /\ Len(path) = Len(m) + 1
        /\ \A i \in 1..(Len(m) + 1) :
             path[i] = IF i <= Len(m) THEN m[i] ELSE Slash[i - Len(m)]
    <3> HIDE DEF m
    <3>1. /\ m \o Slash \in Seq(Text) /\ Len(m \o Slash) = Len(m) + Len(Slash)
          /\ \A i \in 1..(Len(m) + Len(Slash)) :
               (m \o Slash)[i] = IF i <= Len(m) THEN m[i] ELSE Slash[i - Len(m)]
      BY <1>1, SlashFacts, ConcatProperties
    <3>2. QED
      BY <3>1, SlashFacts
  <2>2. Len(m) + 1 \in 1..(Len(m) + 1) /\ ~(Len(m) + 1 <= Len(m)) /\ Len(m) + 1 - Len(m) = 1
    BY <1>1
  <2>3. path[Len(m) + 1] = Slash[1]
    BY <2>1, <2>2
  <2>4. QED
    BY <2>1, <2>3, SlashFacts
<1>3. SubSeq(path, 1, Len(m) + 1) = path
  BY <1>2
<1>4. s \in Mounted(services, path)
  BY <1>2, <1>3 DEF Mounted, PathHasPrefix
<1>5. t \in Mounted(services, path) /\ Over(services, t, s)
  BY <1>2, <1>4, MatchFacts
<1>6. t \in DOMAIN services /\ k # <<>> /\ PathHasPrefix(path, k)
  BY <1>5 DEF Mounted
<1>7. k \in Seq(Text) /\ k[Len(k)] # "/" /\ Len(k) \in Nat
  BY <1>6, ServiceFacts
<1>8. Len(k) >= Len(m)
  BY <1>1, <1>5, <1>7 DEF Over
<1>9. path # k /\ Len(k) <= Len(path) /\ k = SubSeq(path, 1, Len(k))
  BY <1>2, <1>6, <1>7, PrefixFacts
<1>10. Len(k) # Len(path)
  BY <1>2, <1>9
<1>11. Len(k) = Len(m)
  BY <1>1, <1>2, <1>7, <1>8, <1>9, <1>10
<1>12. SubSeq(path, 1, Len(m)) = m
  <2>1. \A i \in 1..Len(m) : path[i] = m[i]
    BY <1>1
  <2>2. QED
    BY <1>1, <1>2, <2>1
<1>13. k = m
  BY <1>9, <1>11, <1>12
<1>14. t = s \/ MountIsShared(services, s)
  BY <1>6, <1>13 DEF MountIsShared
<1>15. QED
  BY <1>4, <1>6, <1>14

\* No mount has the root of an app.
LEMMA RootUnmounted ==
  ASSUME NEW services \in ServiceMaps
  PROVE  Mounted(services, Slash) = {}
<1> SUFFICES ASSUME NEW s \in Mounted(services, Slash) PROVE FALSE
  OBVIOUS
<1> DEFINE k == Mount(services[s])
<1>1. s \in DOMAIN services /\ k # <<>> /\ PathHasPrefix(Slash, k)
  BY DEF Mounted
<1>2. k \in Seq(Text) /\ Len(k) > 0 /\ k[Len(k)] # "/"
  BY <1>1, ServiceFacts
<1>3. Slash \in Seq(Text) /\ Len(Slash) = 1 /\ Slash[1] = "/"
  BY SlashFacts
<1>4. Slash = k \/ Len(Slash) > Len(k)
  BY <1>1, <1>2, <1>3, PrefixFacts
<1>5. QED
  BY <1>2, <1>3, <1>4

\* What is asked for is a path.
LEMMA AskedPath ==
  ASSUME NEW u \in Asked
  PROVE  u.path \in Seq(Text) /\ Len(u.path) > 0 /\ u.path[1] = "/"
<1>1. u.path \in Seq(STRING) /\ STRING \subseteq Text
  BY ServingAssumption DEF Text
<1>2. QED
  BY <1>1, SeqMonotonic, ServingAssumption

\* A request that is proxied goes to a service that is registered: that of its
\* host, or one that the app mounted.
LEMMA ProxiedFacts ==
  ASSUME apps \in Registries, NEW u \in Asked,
         Resolve(apps, u.host, u.path).kind = "proxy"
  PROVE  LET rt == Resolve(apps, u.host, u.path)
         IN  \E a \in DOMAIN apps : \E s \in DOMAIN apps[a] :
               /\ rt.svc = apps[a][s]
               /\ \/ rt.mount = <<>>
                  \/ rt.mount = Mount(apps[a][s]) /\ PathHasPrefix(u.path, Mount(apps[a][s]))
<1> DEFINE rt == Resolve(apps, u.host, u.path)
<1>1. u.host # Elsewhere /\ u.host # <<>> /\ Len(u.host) <= 2
  BY ServingAssumption DEF Resolve, NotFound
<1>2. Len(u.host) = 1 \/ Len(u.host) = 2
  <2>1. u.host \in Seq(STRING)
    BY <1>1, ServingAssumption
  <2>2. Len(u.host) \in Nat /\ Len(u.host) > 0
    BY <1>1, <2>1, NotEmpty
  <2>3. \A k \in Nat : k > 0 /\ k <= 2 => k = 1 \/ k = 2
    OBVIOUS
  <2>4. QED
    BY <1>1, <2>2, <2>3
<1>3. u.host[Len(u.host)] \in DOMAIN apps
  BY <1>1, <1>2 DEF Resolve, NotFound
<1>4. CASE Len(u.host) = 2
  <2>1. rt = ResolveService(apps, u.host[2], u.host[1]) /\ u.host[2] \in DOMAIN apps
    BY <1>1, <1>3, <1>4 DEF Resolve
  <2>2. u.host[1] \in DOMAIN apps[u.host[2]]
    BY <2>1 DEF ResolveService, NotFound
  <2>3. rt.svc = apps[u.host[2]][u.host[1]] /\ rt.mount = <<>>
    BY <2>1, <2>2 DEF ResolveService, ToProxy
  <2>4. QED
    BY <2>1, <2>2, <2>3
<1>5. CASE Len(u.host) = 1
  <2> DEFINE a == u.host[1]
             t == MatchPath(apps[a], u.path)
  <2>1. rt = ResolveApp(apps, a, u.path) /\ a \in DOMAIN apps
    BY <1>1, <1>3, <1>5 DEF Resolve
  <2>2. CASE Mounted(apps[a], u.path) # {}
    <3>1. apps[a] \in ServiceMaps /\ u.path \in Seq(Text)
      BY <2>1, AppOf, AskedPath
    <3>2. t \in DOMAIN apps[a] /\ PathHasPrefix(u.path, Mount(apps[a][t]))
      BY <2>2, <3>1, MatchFacts DEF Mounted
    <3>3. rt.svc = apps[a][t] /\ rt.mount = Mount(apps[a][t])
      BY <2>1, <2>2 DEF ResolveApp, ToProxy
    <3>4. QED
      BY <2>1, <3>2, <3>3
  <2>3. CASE Mounted(apps[a], u.path) = {}
    <3>1. DefaultService \in DOMAIN apps[a]
      BY <2>1, <2>3 DEF ResolveApp, NotFound
    <3>2. rt.svc = apps[a][DefaultService] /\ rt.mount = <<>>
      BY <2>1, <2>3, <3>1 DEF ResolveApp, ToProxy
    <3>3. QED
      BY <2>1, <3>1, <3>2
  <2>4. QED
    BY <2>2, <2>3
<1>6. QED
  BY <1>2, <1>4, <1>5

\* Whatever is registered, what is advertised resolves.
LEMMA RegisteredResolves ==
  ASSUME apps \in Registries
  PROVE  AdvertisedResolves
<1>1. ASSUME NEW a \in DOMAIN apps, NEW s \in DOMAIN apps[a],
             NEW u \in URLs(a, s, apps[a][s])
      PROVE  LET rt == Resolve(apps, u.host, u.path)
             IN  /\ rt.kind = "proxy" /\ rt.app = a
                 /\ rt.service = s \/ MountIsShared(apps[a], s)
  <2>1. apps[a] \in ServiceMaps /\ a \in Apps
    BY AppOf
  <2>2. s \in Services
    BY <2>1, ServiceFacts
  <2>3. Elsewhere # <<a>> /\ Elsewhere # <<s, a>>
    BY <2>1, <2>2, RoutingAssumption
  <2>4. CASE s = DefaultService /\ u = [host |-> <<a>>, path |-> Slash]
    BY <2>1, <2>3, <2>4, RootUnmounted DEF Resolve, ResolveApp, ToProxy
  <2>5. CASE u = [host |-> <<s, a>>, path |-> Slash]
    BY <2>3, <2>5 DEF Resolve, ResolveService, ToProxy
  <2>6. CASE /\ Mount(apps[a][s]) # <<>>
             /\ u = [host |-> <<a>>, path |-> Mount(apps[a][s]) \o Slash]
    BY <2>1, <2>3, <2>6, OwnMount DEF Resolve, ResolveApp, ToProxy
  <2>7. QED
    BY <2>4, <2>5, <2>6 DEF URLs
<1>2. ASSUME NEW u \in Asked, Resolve(apps, u.host, u.path).kind = "proxy"
      PROVE  Rewrite(Resolve(apps, u.host, u.path), u.path)[1] = "/"
  <2> DEFINE rt == Resolve(apps, u.host, u.path)
  <2>1. u.path \in Seq(Text) /\ Len(u.path) > 0 /\ u.path[1] = "/"
    BY AskedPath
  <2>2. PICK a \in DOMAIN apps : \E s \in DOMAIN apps[a] :
               \/ rt.mount = <<>>
               \/ rt.mount = Mount(apps[a][s]) /\ PathHasPrefix(u.path, Mount(apps[a][s]))
    BY <1>2, ProxiedFacts
  <2>3. PICK s \in DOMAIN apps[a] :
               \/ rt.mount = <<>>
               \/ rt.mount = Mount(apps[a][s]) /\ PathHasPrefix(u.path, Mount(apps[a][s]))
    BY <2>2
  <2>4. CASE rt.mount = <<>>
    BY <2>1, <2>4 DEF Rewrite
  <2>5. CASE rt.mount = Mount(apps[a][s]) /\ PathHasPrefix(u.path, Mount(apps[a][s]))
    <3>1. Mount(apps[a][s]) \in Seq(Text)
      BY AppOf, ServiceFacts
    <3>2. StripMount(u.path, rt.mount)[1] = "/"
      BY <2>1, <2>5, <3>1, StrippedPath
    <3>3. QED
      BY <2>1, <3>2 DEF Rewrite
  <2>6. QED
    BY <2>3, <2>4, <2>5
<1>3. QED
  BY <1>1, <1>2 DEF AdvertisedResolves

(***************************************************************************)
(* The inductive invariant of Serving.                                     *)
(***************************************************************************)

OfAdd(svc) == \E o \in Added : svc = Normalize(o.svc)

\* The pid and the port of a registration, or of a copy, belong together.
Told(svc) ==
  svc.pid # NoPid =>
    OfAdd(svc) \/ (svc.pid \in 1..pids /\ given[svc.pid] = svc.port)

SystemInv ==
  /\ pids \in 0..MaxPids /\ alive \subseteq 1..pids
  /\ listens \in [Ports -> alive \cup {NoPid}]
  /\ given \in [Pids -> Ports \cup {NoPort}]

RegistryInv ==
  /\ apps \in Registries
  /\ \A a \in DOMAIN apps : \A s \in DOMAIN apps[a] : Told(apps[a][s])

RunTypes ==
  {Idle} \cup [pc : {"allocated", "registered"}, port : Ports] \cup
    [pc : {"started", "waiting"}, port : Ports, pid : 1..pids]

RunInv ==
  /\ run \in [Runs -> RunTypes]
  /\ \A r \in Runs : run[r].pc \in {"started", "waiting"} =>
       given[run[r].pid] = run[r].port

RequestTypes ==
  {Idle} \cup [pc : {"resolved", "checked", "dialed", "forwarded"}, svc : Stored,
               ended : BOOLEAN]

\* A process that had ended when a request came in does not run again, and the
\* request does not get past the check of it.
RequestInv ==
  /\ req \in [Requests -> RequestTypes]
  /\ \A q \in Requests : req[q].pc # "idle" =>
       /\ Told(req[q].svc)
       /\ req[q].ended => req[q].svc.pid \in 1..pids \ alive
       /\ req[q].pc # "resolved" => ~req[q].ended

StreamInv ==
  /\ viewer \in [Viewers -> [pc : {"idle", "found", "refused", "streaming"}]]
  /\ SlotsExact

IInv == SystemInv /\ RegistryInv /\ RunInv /\ RequestInv /\ StreamInv

(***************************************************************************)
(* What the actions are made of.                                           *)
(***************************************************************************)

\* A new process gets a pid that nobody knows of.
LEMMA Grows ==
  ASSUME SystemInv, NEW port \in Ports \cup {NoPort}, NewProcess(port), UNCHANGED listens
  PROVE  /\ SystemInv'
         /\ pids' = pids + 1 /\ pids' \in Pids /\ given'[pids'] = port
         /\ \A x \in 1..pids : /\ x \in 1..pids' /\ given'[x] = given[x]
                               /\ x \in alive' => x \in alive
<1>1. /\ pids \in Nat /\ pids < MaxPids /\ MaxPids \in Nat
      /\ pids' = pids + 1 /\ alive' = alive \cup {pids'}
      /\ given' = [given EXCEPT ![pids'] = port]
  BY ServingAssumption DEF SystemInv, NewProcess
<1>2. pids' \in 0..MaxPids /\ pids' \in Pids /\ 1..pids \subseteq 1..pids' /\ pids' \notin 1..pids
  BY <1>1 DEF Pids
<1>3. alive' \subseteq 1..pids'
  BY <1>1, <1>2 DEF SystemInv
<1>4. given' \in [Pids -> Ports \cup {NoPort}] /\ given'[pids'] = port
  BY <1>1, <1>2 DEF SystemInv
<1>5. listens' \in [Ports -> alive' \cup {NoPid}]
  BY <1>1 DEF SystemInv
<1>6. 1..pids \subseteq Pids
  BY <1>1 DEF Pids
<1>7. \A x \in 1..pids : given'[x] = given[x] /\ (x \in alive' => x \in alive)
  BY <1>1, <1>2, <1>6 DEF SystemInv
<1>8. QED
  BY <1>1, <1>2, <1>3, <1>4, <1>5, <1>7 DEF SystemInv

\* The copies that others hold stay true: of registrations, runs and requests.
LEMMA CopiesStayTrue ==
  ASSUME SystemInv', RegistryInv, RunInv, RequestInv,
         \A x \in 1..pids : /\ x \in 1..pids' /\ given'[x] = given[x]
                            /\ x \in alive' => x \in alive
  PROVE  /\ \A svc : Told(svc) => Told(svc)'
         /\ UNCHANGED apps => RegistryInv'
         /\ UNCHANGED run => RunInv'
         /\ UNCHANGED req => RequestInv'
<1>1. \A svc : Told(svc) => Told(svc)'
  BY DEF Told
<1>2. UNCHANGED apps => RegistryInv'
  BY <1>1 DEF RegistryInv, Told
<1>3. ASSUME UNCHANGED run PROVE RunInv'
  <2>1. RunTypes \subseteq RunTypes'
    BY DEF RunTypes
  <2>2. \A r \in Runs : run[r].pc \in {"started", "waiting"} => run[r].pid \in 1..pids
    BY DEF RunInv, RunTypes, Idle
  <2>3. QED
    BY <1>3, <2>1, <2>2 DEF RunInv
<1>4. ASSUME UNCHANGED req PROVE RequestInv'
  <2>1. RequestTypes' = RequestTypes
    BY DEF RequestTypes
  <2>2. ASSUME NEW q \in Requests, req[q].pc # "idle", req[q].ended
        PROVE  req[q].svc.pid \in 1..pids' \ alive'
    BY <2>2 DEF RequestInv
  <2>3. QED
    BY <1>1, <1>4, <2>1, <2>2 DEF RequestInv, Told
<1>5. QED
  BY <1>1, <1>2, <1>3, <1>4

\* What nothing touches stays true.
LEMMA Same ==
  ASSUME IInv
  PROVE  /\ UNCHANGED processes => SystemInv'
         /\ UNCHANGED <<apps, pids, given>> => RegistryInv'
         /\ UNCHANGED <<run, pids, given>> => RunInv'
         /\ UNCHANGED <<req, pids, alive, given>> => RequestInv'
         /\ UNCHANGED <<viewer, streams>> => StreamInv'
<1>1. UNCHANGED processes => SystemInv'
  BY DEF IInv, SystemInv, processes
<1>2. UNCHANGED <<apps, pids, given>> => RegistryInv'
  BY DEF IInv, RegistryInv, Told
<1>3. UNCHANGED <<run, pids, given>> => RunInv'
  BY DEF IInv, RunInv, RunTypes
<1>4. UNCHANGED <<req, pids, alive, given>> => RequestInv'
  BY DEF IInv, RequestInv, RequestTypes, Told
<1>5. UNCHANGED <<viewer, streams>> => StreamInv'
  BY DEF IInv, StreamInv, SlotsExact, Counted
<1>6. QED
  BY <1>1, <1>2, <1>3, <1>4, <1>5

\* Normalization is of the path only.
LEMMA NormalizeKeeps ==
  ASSUME NEW v \in Requested
  PROVE  Normalize(v).pid = v.pid /\ Normalize(v).port = v.port
<1>1. v \in [port : Nat, path : Seq(STRING), strip : BOOLEAN, pid : Nat]
  BY RoutingAssumption
<1>2. QED
  BY <1>1 DEF Normalize

\* A registration whose pid and port belong together keeps that so.
LEMMA PutTold ==
  ASSUME RegistryInv, NEW o, o.app \in Apps \cap ValidNames,
         o.service \in Services \cap ValidNames, o.svc \in Requested,
         ValidService(o.svc), Told(Normalize(o.svc)),
         apps' = PutService(apps, o), UNCHANGED <<pids, given>>
  PROVE  RegistryInv'
<1> DEFINE v == Normalize(o.svc)
           old == ServicesOf(apps, o.app)
           new == With(old, o.service, v)
<1>1. v \in Stored
  BY DEF Stored
<1>2. Told(v)
  OBVIOUS
<1>3. old \in ServiceMaps /\ \A s \in DOMAIN old : Told(old[s])
  BY ServicesOfType DEF RegistryInv, ServicesOf, EmptyRegistry
<1> HIDE DEF v, old
<1>4. new \in ServiceMaps /\ DOMAIN new # {} /\ \A s \in DOMAIN new : Told(new[s])
  <2>1. new \in ServiceMaps /\ DOMAIN new # {}
    BY <1>1, <1>3, WithService
  <2>2. ASSUME NEW s \in DOMAIN new PROVE Told(new[s])
    BY <1>2, <1>3 DEF With
  <2>3. QED
    BY <2>1, <2>2
<1>5. apps' = With(apps, o.app, new)
  BY DEF PutService, v, old
<1> HIDE DEF new
<1>6. apps' \in Registries
  BY <1>4, <1>5, WithApp DEF RegistryInv
<1>7. ASSUME NEW a \in DOMAIN apps', NEW s \in DOMAIN apps'[a] PROVE Told(apps'[a][s])
  <2>1. apps'[a] = (IF a = o.app THEN new ELSE apps[a]) /\ a \in DOMAIN apps \cup {o.app}
    BY <1>5 DEF With
  <2>2. QED
    BY <1>4, <2>1 DEF RegistryInv
<1>8. QED
  BY <1>6, <1>7 DEF RegistryInv, Told

\* What is left after a removal was there before.
LEMMA LeftTold ==
  ASSUME RegistryInv, apps' \in Registries, UNCHANGED <<pids, given>>,
         \A a \in DOMAIN apps' : /\ a \in DOMAIN apps
                                 /\ \A s \in DOMAIN apps'[a] :
                                      s \in DOMAIN apps[a] /\ apps'[a][s] = apps[a][s]
  PROVE  RegistryInv'
  BY DEF RegistryInv, Told

(***************************************************************************)
(* The steps.                                                              *)
(***************************************************************************)

\* Processes start, listen and exit.
LEMMA ProcessSteps ==
  ASSUME IInv,
         \/ StartServer
         \/ \E x \in Pids : Exit(x) \/ \E p \in Ports : Listen(x, p)
  PROVE  IInv'
<1> USE DEF IInv
<1>1. CASE StartServer
  <2>1. NewProcess(NoPort) /\ UNCHANGED <<apps, listens, run, req, viewer, streams>>
    BY <1>1 DEF StartServer
  <2>2. SystemInv'
    BY <2>1, Grows
  <2>3. RegistryInv' /\ RunInv' /\ RequestInv'
    BY <2>1, <2>2, Grows, CopiesStayTrue
  <2>4. QED
    BY <2>1, <2>2, <2>3, Same
<1>2. ASSUME NEW x \in Pids, Exit(x) PROVE IInv'
  <2>1. SystemInv'
    BY <1>2 DEF Exit, SystemInv
  <2>2. RegistryInv' /\ RunInv' /\ StreamInv'
    BY <1>2, Same DEF Exit
  <2>3. RequestInv'
    BY <1>2, <2>1, CopiesStayTrue DEF Exit
  <2>4. QED
    BY <2>1, <2>2, <2>3
<1>3. ASSUME NEW x \in Pids, NEW p \in Ports, Listen(x, p) PROVE IInv'
  <2>1. SystemInv'
    BY <1>3 DEF Listen, SystemInv
  <2>2. QED
    BY <1>3, <2>1, Same DEF Listen
<1>4. QED
  BY <1>1, <1>2, <1>3

\* A run before it has a child.
LEMMA AllocateStep ==
  ASSUME IInv, NEW r \in Runs, NEW p \in Ports, AllocatePort(r, p)
  PROVE  IInv'
<1>1. RunInv'
  <2>1. [pc |-> "allocated", port |-> p] \in RunTypes
    BY DEF RunTypes
  <2>2. run' = [run EXCEPT ![r] = [pc |-> "allocated", port |-> p]]
    BY DEF AllocatePort
  <2>3. UNCHANGED <<pids, given>>
    BY DEF AllocatePort, processes
  <2>4. QED
    BY <2>1, <2>2, <2>3 DEF IInv, RunInv, RunTypes
<1>2. QED
  BY <1>1, Same DEF IInv, AllocatePort, processes

\* What a run has at each place.
LEMMA RunFacts ==
  ASSUME RunInv, NEW r \in Runs
  PROVE  /\ run[r].pc \in {"allocated", "registered"} =>
              run[r] \in [pc : {"allocated", "registered"}, port : Ports]
         /\ run[r].pc \in {"started", "waiting"} =>
              run[r] \in [pc : {"started", "waiting"}, port : Ports, pid : 1..pids]
<1>1. run[r] \in RunTypes
  BY DEF RunInv
<1>2. QED
  BY <1>1 DEF RunTypes, Idle

\* The first registration has no pid.
LEMMA RegisterStep ==
  ASSUME IInv, NEW r \in Runs, Register(r)
  PROVE  IInv'
<1> DEFINE p == run[r].port
           o == Entry(r, p, NoPid)
<1>1. run[r].pc = "allocated" /\ UNCHANGED <<processes, req, viewer, streams>>
  BY DEF Register
<1>2. run[r] \in [pc : {"allocated", "registered"}, port : Ports]
  BY <1>1, RunFacts DEF IInv
<1>3. p \in Ports
  BY <1>2
<1> HIDE DEF p
<1>4. RegistryInv'
  <2>1. /\ o.app = RunOf[r].app /\ o.service = RunOf[r].service
        /\ o.svc = Target(r, p, NoPid)
    BY DEF Entry
  <2>2. /\ o.app \in Apps \cap ValidNames /\ o.service \in Services \cap ValidNames
        /\ o.svc \in Requested /\ ValidService(o.svc)
    BY <1>3, <2>1, ServingAssumption
  <2>3. Told(Normalize(o.svc))
    BY <2>1, <2>2, NormalizeKeeps DEF Target, Told
  <2>4. apps' = PutService(apps, o)
    BY DEF Register, p
  <2> HIDE DEF o
  <2>5. QED
    BY <1>1, <2>2, <2>3, <2>4, PutTold DEF IInv, processes
<1>5. RunInv'
  <2>1. run' = [run EXCEPT ![r] = [run[r] EXCEPT !.pc = "registered"]]
    BY DEF Register
  <2>2. [run[r] EXCEPT !.pc = "registered"] \in RunTypes
    BY <1>2 DEF RunTypes
  <2>3. [run[r] EXCEPT !.pc = "registered"].pc = "registered"
    BY <1>2
  <2>4. QED
    BY <1>1, <2>1, <2>2, <2>3 DEF IInv, RunInv, RunTypes, processes
<1>6. QED
  BY <1>1, <1>4, <1>5, Same DEF IInv, processes

\* The child is told the port.
LEMMA StartChildStep ==
  ASSUME IInv, NEW r \in Runs, StartChild(r)
  PROVE  IInv'
<1> DEFINE p == run[r].port
           b == [pc |-> "started", port |-> p, pid |-> pids']
<1>1. run[r].pc = "registered" /\ UNCHANGED <<apps, listens, req, viewer, streams>>
  BY DEF StartChild
<1>2. p \in Ports
  BY <1>1, RunFacts DEF IInv
<1>3. NewProcess(p) /\ run' = [run EXCEPT ![r] = b]
  BY DEF StartChild
<1> HIDE DEF p
<1>4. /\ SystemInv' /\ pids' = pids + 1 /\ given'[pids'] = p
      /\ \A x \in 1..pids : /\ x \in 1..pids' /\ given'[x] = given[x]
                            /\ x \in alive' => x \in alive
  BY <1>1, <1>2, <1>3, Grows DEF IInv
<1>5. RegistryInv' /\ RequestInv'
  BY <1>1, <1>4, CopiesStayTrue DEF IInv
<1>6. RunInv'
  <2>1. b \in RunTypes'
    <3>1. pids' \in 1..pids'
      BY <1>4 DEF IInv, SystemInv
    <3>2. QED
      BY <1>2, <3>1 DEF RunTypes
  <2>2. RunTypes \subseteq RunTypes'
    BY <1>4 DEF RunTypes
  <2>3. run' \in [Runs -> RunTypes']
    <3> HIDE DEF b
    <3>1. QED
      BY <1>3, <2>1, <2>2 DEF IInv, RunInv
  <2>4. ASSUME NEW t \in Runs, run'[t].pc \in {"started", "waiting"}
        PROVE  given'[run'[t].pid] = run'[t].port
    <3>1. CASE t = r
      BY <1>3, <1>4, <3>1 DEF IInv, RunInv
    <3>2. CASE t # r
      <4>1. run'[t] = run[t] /\ run[t].pid \in 1..pids
        BY <1>3, <2>4, <3>2, RunFacts DEF IInv, RunInv
      <4>2. QED
        BY <1>4, <2>4, <4>1 DEF IInv, RunInv
    <3>3. QED
      BY <3>1, <3>2
  <2>5. QED
    BY <2>3, <2>4 DEF RunInv
<1>7. QED
  BY <1>1, <1>4, <1>5, <1>6, Same DEF IInv

\* A run that waits for its child, whether the pid is recorded or not.
LEMMA WaitTypes ==
  ASSUME IInv, NEW r \in Runs, run[r].pc = "started",
         run' = [run EXCEPT ![r].pc = "waiting"], UNCHANGED <<pids, given>>
  PROVE  RunInv'
<1>1. run[r] \in [pc : {"started", "waiting"}, port : Ports, pid : 1..pids]
  BY RunFacts DEF IInv
<1>2. /\ [run[r] EXCEPT !.pc = "waiting"] \in RunTypes
      /\ [run[r] EXCEPT !.pc = "waiting"].pid = run[r].pid
      /\ [run[r] EXCEPT !.pc = "waiting"].port = run[r].port
  BY <1>1 DEF RunTypes
<1>3. run' = [run EXCEPT ![r] = [run[r] EXCEPT !.pc = "waiting"]]
  OBVIOUS
<1>4. QED
  BY <1>2, <1>3 DEF IInv, RunInv, RunTypes

\* The second registration has the pid and the port of the child.
LEMMA RecordPidStep ==
  ASSUME IInv, NEW r \in Runs, RecordPid(r)
  PROVE  IInv'
<1> DEFINE p == run[r].port
           x == run[r].pid
           o == Entry(r, p, x)
<1>1. run[r].pc = "started" /\ UNCHANGED <<processes, req, viewer, streams>>
  BY DEF RecordPid
<1>2. p \in Ports /\ x \in 1..pids /\ given[x] = p
  BY <1>1, RunFacts DEF IInv, RunInv
<1>3. x \in Pids
  BY <1>2, ServingAssumption DEF IInv, SystemInv, Pids
<1> HIDE DEF p, x
<1>4. RegistryInv'
  <2>1. /\ o.app = RunOf[r].app /\ o.service = RunOf[r].service
        /\ o.svc = Target(r, p, x)
    BY DEF Entry
  <2>2. /\ o.app \in Apps \cap ValidNames /\ o.service \in Services \cap ValidNames
        /\ o.svc \in Requested /\ ValidService(o.svc)
    BY <1>2, <1>3, <2>1, ServingAssumption
  <2>3. Told(Normalize(o.svc))
    BY <1>2, <2>1, <2>2, NormalizeKeeps DEF Target, Told
  <2>4. apps' = PutService(apps, o)
    BY DEF RecordPid, p, x
  <2> HIDE DEF o
  <2>5. QED
    BY <1>1, <2>2, <2>3, <2>4, PutTold DEF IInv, processes
<1>5. RunInv'
  BY <1>1, WaitTypes DEF RecordPid, processes
<1>6. QED
  BY <1>1, <1>4, <1>5, Same DEF IInv, processes

\* A run goes on without the record, or ends.
LEMMA OtherRunSteps ==
  ASSUME IInv, NEW r \in Runs, RecordFails(r) \/ EndRun(r)
  PROVE  IInv'
<1>1. CASE RecordFails(r)
  BY <1>1, WaitTypes, Same DEF RecordFails, IInv, processes
<1>2. CASE EndRun(r)
  <2>1. RunInv'
    BY <1>2 DEF EndRun, IInv, RunInv, RunTypes, Idle, processes
  <2>2. QED
    BY <1>2, <2>1, Same DEF EndRun, IInv, processes
<1>3. QED
  BY <1>1, <1>2

\* `add` registers one pid with one port, and a removal leaves what was there.
LEMMA RegistrySteps ==
  ASSUME IInv,
         \/ \E o \in Added : Add(o)
         \/ \E a \in Apps : Remove(a) \/ \E s \in Services : DeleteMapping(a, s)
  PROVE  IInv'
<1>1. ASSUME NEW o \in Added, Add(o) PROVE IInv'
  <2>1. /\ o.app \in Apps \cap ValidNames /\ o.service \in Services \cap ValidNames
        /\ o.svc \in Requested /\ ValidService(o.svc) /\ Told(Normalize(o.svc))
    BY ServingAssumption DEF Told, OfAdd
  <2>2. RegistryInv'
    BY <1>1, <2>1, PutTold DEF Add, IInv, processes
  <2>3. QED
    BY <1>1, <2>2, Same DEF Add, IInv, processes
<1>2. ASSUME NEW a \in Apps, Remove(a) PROVE IInv'
  <2>1. apps' = Without(apps, a)
    BY <1>2 DEF Remove, RemoveApp
  <2>2. apps' \in Registries
    BY <2>1, WithoutApp DEF IInv, RegistryInv
  <2>3. \A b \in DOMAIN apps' : b \in DOMAIN apps /\ apps'[b] = apps[b]
    BY <2>1 DEF Without
  <2>4. RegistryInv'
    BY <1>2, <2>2, <2>3, LeftTold DEF Remove, IInv, processes
  <2>5. QED
    BY <1>2, <2>4, Same DEF Remove, IInv, processes
<1>3. ASSUME NEW a \in Apps, NEW s \in Services, DeleteMapping(a, s) PROVE IInv'
  <2> DEFINE o == [app |-> a, service |-> s]
             left == Without(apps[a], s)
  <2>1. a \in DOMAIN apps /\ apps' = RemoveService(apps, o)
    BY <1>3 DEF DeleteMapping
  <2>2. apps' \in Registries
    BY <2>1, RemoveServiceType DEF IInv, RegistryInv
  <2>3. apps' = Without(apps, a) \/ apps' = With(apps, a, left)
    BY <2>1 DEF RemoveService
  <2>4. \A t \in DOMAIN left : t \in DOMAIN apps[a] /\ left[t] = apps[a][t]
    BY DEF Without
  <2> HIDE DEF left
  <2>5. ASSUME NEW b \in DOMAIN apps'
        PROVE  /\ b \in DOMAIN apps
               /\ \A t \in DOMAIN apps'[b] : t \in DOMAIN apps[b] /\ apps'[b][t] = apps[b][t]
    BY <2>1, <2>3, <2>4 DEF Without, With
  <2>6. RegistryInv'
    BY <1>3, <2>2, <2>5, LeftTold DEF DeleteMapping, IInv, processes
  <2>7. QED
    BY <1>3, <2>6, Same DEF DeleteMapping, IInv, processes
<1>4. QED
  BY <1>1, <1>2, <1>3

\* A request comes in with a copy of a registration.
LEMMA ArriveStep ==
  ASSUME IInv, NEW q \in Requests, NEW u \in Asked, Arrive(q, u)
  PROVE  IInv'
<1> DEFINE rt == Resolve(apps, u.host, u.path)
           svc == rt.svc
           b == [pc |-> "resolved", svc |-> svc, ended |-> svc.pid \in 1..pids \ alive]
<1>1. rt.kind = "proxy" /\ req' = [req EXCEPT ![q] = b]
  BY DEF Arrive
<1>2. UNCHANGED <<apps, processes, run, viewer, streams>>
  BY DEF Arrive
<1>3. svc \in Stored /\ Told(svc)
  <2>1. PICK a \in DOMAIN apps : \E s \in DOMAIN apps[a] : rt.svc = apps[a][s]
    BY <1>1, ProxiedFacts DEF IInv, RegistryInv
  <2>2. PICK s \in DOMAIN apps[a] : rt.svc = apps[a][s]
    BY <2>1
  <2>3. apps[a] \in ServiceMaps
    BY AppOf DEF IInv, RegistryInv
  <2>4. QED
    BY <2>2, <2>3, ServiceFacts DEF IInv, RegistryInv
<1> HIDE DEF svc
<1>4. /\ b \in RequestTypes /\ b.pc = "resolved" /\ b.svc = svc
      /\ b.ended => svc.pid \in 1..pids \ alive
  <2> DEFINE e == svc.pid \in 1..pids \ alive
  <2>1. e \in BOOLEAN /\ b = [pc |-> "resolved", svc |-> svc, ended |-> e]
    OBVIOUS
  <2> HIDE DEF b, e
  <2>2. b \in RequestTypes /\ b.pc = "resolved" /\ b.svc = svc /\ b.ended = e
    BY <1>3, <2>1 DEF RequestTypes
  <2>3. QED
    BY <2>2 DEF e
<1> HIDE DEF b
<1>5. RequestInv'
  <2>1. UNCHANGED <<pids, alive, given>>
    BY <1>2 DEF processes
  <2>2. req' \in [Requests -> RequestTypes]
    BY <1>1, <1>4 DEF IInv, RequestInv
  <2>3. ASSUME NEW t \in Requests, req'[t].pc # "idle"
        PROVE  /\ Told(req'[t].svc)
               /\ req'[t].ended => req'[t].svc.pid \in 1..pids \ alive
               /\ req'[t].pc # "resolved" => ~req'[t].ended
    <3>1. CASE t = q
      <4>1. req'[t] = b
        BY <1>1, <3>1 DEF IInv, RequestInv
      <4>2. QED
        BY <1>3, <1>4, <4>1
    <3>2. CASE t # q
      BY <1>1, <2>3, <3>2 DEF IInv, RequestInv
    <3>3. QED
      BY <3>1, <3>2
  <2>4. QED
    BY <2>1, <2>2, <2>3 DEF RequestInv, RequestTypes, Told
<1>6. QED
  BY <1>2, <1>5, Same DEF IInv, processes

\* A request is answered with an error, or is done.
LEMMA UnavailableStep ==
  ASSUME IInv, NEW q \in Requests, Unavailable(q)
  PROVE  IInv'
<1>1. RequestInv'
  BY DEF Unavailable, IInv, RequestInv, RequestTypes, Told, Idle, processes
<1>2. QED
  BY <1>1, Same DEF Unavailable, IInv, processes

\* A request goes on.  It leaves "resolved" only if its process runs.
LEMMA ToStep ==
  ASSUME IInv, NEW q \in Requests, NEW pc \in {"checked", "dialed", "forwarded"},
         req[q].pc # "idle", To(q, pc),
         req[q].pc = "resolved" => ProcessAlive(req[q].svc.pid)
  PROVE  IInv'
<1> DEFINE b == [req[q] EXCEPT !.pc = pc]
<1>1. req' = [req EXCEPT ![q] = b] /\ UNCHANGED <<apps, processes, run, viewer, streams>>
  BY DEF To
<1>2. /\ req[q] \in [pc : {"resolved", "checked", "dialed", "forwarded"}, svc : Stored,
                     ended : BOOLEAN]
      /\ Told(req[q].svc)
  BY DEF IInv, RequestInv, RequestTypes, Idle
<1>3. /\ b \in RequestTypes /\ b.pc = pc /\ b.svc = req[q].svc /\ b.ended = req[q].ended
      /\ pc # "resolved" /\ pc # "idle"
  BY <1>2 DEF RequestTypes
<1>4. ~req[q].ended
  <2>1. req[q].ended => req[q].svc.pid \in 1..pids \ alive
    BY DEF IInv, RequestInv
  <2>2. ProcessAlive(req[q].svc.pid) => ~(req[q].svc.pid \in 1..pids \ alive)
    BY DEF ProcessAlive, NoPid, IInv, SystemInv
  <2>3. QED
    BY <2>1, <2>2 DEF IInv, RequestInv
<1> HIDE DEF b
<1>5. RequestInv'
  <2>1. UNCHANGED <<pids, alive, given>>
    BY <1>1 DEF processes
  <2>2. req' \in [Requests -> RequestTypes]
    BY <1>1, <1>3 DEF IInv, RequestInv
  <2>3. ASSUME NEW t \in Requests, req'[t].pc # "idle"
        PROVE  /\ Told(req'[t].svc)
               /\ req'[t].ended => req'[t].svc.pid \in 1..pids \ alive
               /\ req'[t].pc # "resolved" => ~req'[t].ended
    <3>1. CASE t = q
      <4>1. req'[t] = b
        BY <1>1, <3>1 DEF IInv, RequestInv
      <4>2. QED
        BY <1>2, <1>3, <1>4, <4>1
    <3>2. CASE t # q
      BY <1>1, <2>3, <3>2 DEF IInv, RequestInv
    <3>3. QED
      BY <3>1, <3>2
  <2>4. QED
    BY <2>1, <2>2, <2>3 DEF RequestInv, RequestTypes, Told
<1>6. QED
  BY <1>1, <1>5, Same DEF IInv, processes

\* The proxy's steps.
LEMMA RequestSteps ==
  ASSUME IInv, NEW q \in Requests,
         \/ \E u \in Asked : Arrive(q, u)
         \/ CheckProcess(q) \/ Dial(q) \/ Forward(q) \/ Answered(q)
  PROVE  IInv'
<1>1. CASE \E u \in Asked : Arrive(q, u)
  BY <1>1, ArriveStep
<1>2. CASE CheckProcess(q)
  BY <1>2, ToStep, UnavailableStep DEF CheckProcess
<1>3. CASE Dial(q)
  BY <1>3, ToStep, UnavailableStep DEF Dial
<1>4. CASE Forward(q)
  BY <1>4, ToStep, UnavailableStep DEF Forward
<1>5. CASE Answered(q)
  BY <1>5, UnavailableStep DEF Answered
<1>6. QED
  BY <1>1, <1>2, <1>3, <1>4, <1>5

\* The readers that stream are among those that are counted.
LEMMA StreamingIsCounted ==
  LET Streaming == {v \in Viewers : viewer[v].pc = "streaming"}
  IN  /\ IsFiniteSet(Counted) /\ Cardinality(Counted) \in Nat
      /\ IsFiniteSet(Streaming) /\ Cardinality(Streaming) \in Nat
      /\ Cardinality(Streaming) <= Cardinality(Counted)
<1> DEFINE Streaming == {v \in Viewers : viewer[v].pc = "streaming"}
<1>1. Counted \in SUBSET Viewers /\ Streaming \in SUBSET Counted
  BY DEF Counted
<1>2. IsFiniteSet(Counted)
  BY <1>1, ServingAssumption, FS_Subset
<1>3. IsFiniteSet(Streaming) /\ Cardinality(Streaming) <= Cardinality(Counted)
  BY <1>1, <1>2, FS_Subset
<1>4. QED
  BY <1>2, <1>3, FS_CardinalityType

\* A reader of logs comes, counts itself, and gives its slot back.
LEMMA StreamSteps ==
  ASSUME IInv, NEW v \in Viewers,
         \/ OpenLogs(v) \/ TakeSlot(v) \/ GiveBack(v)
  PROVE  IInv'
<1> DEFINE Streaming == {w \in Viewers : viewer[w].pc = "streaming"}
<1>1. UNCHANGED <<processes, apps, run, req>>
  BY DEF OpenLogs, TakeSlot, GiveBack
<1>2. /\ viewer \in [Viewers -> [pc : {"idle", "found", "refused", "streaming"}]]
      /\ streams = Cardinality(Counted) /\ Cardinality(Streaming) <= MaxStreams
  BY DEF IInv, StreamInv, SlotsExact
<1>3. /\ IsFiniteSet(Counted) /\ streams \in Nat /\ MaxStreams \in Nat
      /\ IsFiniteSet(Streaming) /\ Cardinality(Streaming) \in Nat
      /\ Cardinality(Streaming) <= streams
  BY <1>2, StreamingIsCounted, ServingAssumption
<1>4. StreamInv'
  <2>1. ASSUME NEW pc \in {"idle", "found", "refused", "streaming"}, Goes(v, pc)
        PROVE  /\ viewer' \in [Viewers -> [pc : {"idle", "found", "refused", "streaming"}]]
               /\ \A w \in Viewers : viewer'[w].pc = IF w = v THEN pc ELSE viewer[w].pc
    BY <1>2, <2>1 DEF Goes
  <2>2. CASE OpenLogs(v)
    <3>1. viewer[v].pc = "idle" /\ Goes(v, "found") /\ streams' = streams
      BY <2>2 DEF OpenLogs
    <3>2. Counted' = Counted /\ Streaming' = Streaming
      BY <2>1, <3>1 DEF Counted
    <3> HIDE DEF Streaming
    <3>3. streams' = Cardinality(Counted') /\ Cardinality(Streaming') <= MaxStreams
      BY <1>2, <3>1, <3>2
    <3>4. QED
      BY <2>1, <3>1, <3>3 DEF StreamInv, SlotsExact, Streaming
  <2>3. CASE TakeSlot(v)
    <3>1. CASE streams + 1 > MaxStreams
      <4>1. viewer[v].pc = "found" /\ Goes(v, "refused") /\ streams' = streams + 1
        BY <2>3, <3>1 DEF TakeSlot
      <4>2. Counted' = Counted \cup {v} /\ v \notin Counted /\ Streaming' = Streaming
        BY <2>1, <4>1 DEF Counted
      <4> HIDE DEF Streaming
      <4>3. Cardinality(Counted') = Cardinality(Counted) + 1
        BY <1>3, <4>2, FS_AddElement
      <4>4. streams' = Cardinality(Counted') /\ Cardinality(Streaming') <= MaxStreams
        BY <1>2, <4>1, <4>2, <4>3
      <4>5. QED
        BY <2>1, <4>1, <4>4 DEF StreamInv, SlotsExact, Streaming
    <3>2. CASE ~(streams + 1 > MaxStreams)
      <4>1. viewer[v].pc = "found" /\ Goes(v, "streaming") /\ streams' = streams + 1
        BY <2>3, <3>2 DEF TakeSlot
      <4>2. /\ Counted' = Counted \cup {v} /\ v \notin Counted
            /\ Streaming' = Streaming \cup {v} /\ v \notin Streaming
        BY <2>1, <4>1 DEF Counted
      <4> HIDE DEF Streaming
      <4>3. /\ Cardinality(Counted') = Cardinality(Counted) + 1
            /\ Cardinality(Streaming') = Cardinality(Streaming) + 1
        BY <1>3, <4>2, FS_AddElement
      <4>4. streams' = Cardinality(Counted') /\ Cardinality(Streaming') <= MaxStreams
        BY <1>2, <1>3, <3>2, <4>1, <4>3
      <4>5. QED
        BY <2>1, <4>1, <4>4 DEF StreamInv, SlotsExact, Streaming
    <3>3. QED
      BY <3>1, <3>2
  <2>4. CASE GiveBack(v)
    <3>1. /\ viewer[v].pc \in {"refused", "streaming"} /\ Goes(v, "idle")
          /\ streams' = streams - 1
      BY <2>4 DEF GiveBack
    <3>2. /\ Counted' = Counted \ {v} /\ v \in Counted
          /\ Streaming' = Streaming \ {v}
      BY <2>1, <3>1 DEF Counted
    <3> HIDE DEF Streaming
    <3>3. /\ Cardinality(Counted') = Cardinality(Counted) - 1
          /\ Cardinality(Streaming') =
               IF v \in Streaming THEN Cardinality(Streaming) - 1 ELSE Cardinality(Streaming)
      BY <1>3, <3>2, FS_RemoveElement
    <3>4. streams' = Cardinality(Counted') /\ Cardinality(Streaming') <= MaxStreams
      BY <1>2, <1>3, <3>1, <3>3
    <3>5. QED
      BY <2>1, <3>1, <3>4 DEF StreamInv, SlotsExact, Streaming
  <2>5. QED
    BY <2>2, <2>3, <2>4
<1>5. QED
  BY <1>1, <1>4, Same DEF IInv, processes

(***************************************************************************)
(* The theorems.                                                           *)
(***************************************************************************)

\* Nothing is registered at first, and nobody runs or reads.
LEMMA InitInv == Init => IInv
<1> SUFFICES ASSUME Init PROVE IInv
  OBVIOUS
<1>1. SystemInv
  BY ServingAssumption DEF Init, SystemInv
<1>2. RegistryInv
  BY EmptyRegistryType DEF Init, RegistryInv, EmptyRegistry
<1>3. RunInv /\ RequestInv
  BY DEF Init, RunInv, RunTypes, RequestInv, RequestTypes, Idle
<1>4. StreamInv
  <2>1. Counted = {} /\ {v \in Viewers : viewer[v].pc = "streaming"} = {}
    BY DEF Init, Counted, Idle
  <2>2. viewer \in [Viewers -> [pc : {"idle", "found", "refused", "streaming"}]]
    BY DEF Init, Idle
  <2>3. streams = 0 /\ Cardinality({}) = 0 /\ 0 <= MaxStreams
    BY FS_EmptySet, ServingAssumption DEF Init
  <2>4. QED
    BY <2>1, <2>2, <2>3 DEF StreamInv, SlotsExact
<1>5. QED
  BY <1>1, <1>2, <1>3, <1>4 DEF IInv

\* What a pid, a port and a copy of a registration have to do with each other
\* holds in every state.
THEOREM Inductive == Spec => []IInv
<1>1. IInv /\ [Next]_vars => IInv'
  <2>1. ASSUME IInv, Next PROVE IInv'
    <3>1. CASE StartServer \/ \E x \in Pids : Exit(x) \/ \E p \in Ports : Listen(x, p)
      BY <2>1, <3>1, ProcessSteps
    <3>2. ASSUME NEW r \in Runs,
                 \/ \E p \in Ports : AllocatePort(r, p)
                 \/ Register(r) \/ StartChild(r) \/ RecordPid(r)
                 \/ RecordFails(r) \/ EndRun(r)
          PROVE  IInv'
      BY <2>1, <3>2, AllocateStep, RegisterStep, StartChildStep, RecordPidStep,
         OtherRunSteps
    <3>3. CASE \/ \E o \in Added : Add(o)
               \/ \E a \in Apps : Remove(a) \/ \E s \in Services : DeleteMapping(a, s)
      BY <2>1, <3>3, RegistrySteps
    <3>4. ASSUME NEW q \in Requests,
                 \/ \E u \in Asked : Arrive(q, u)
                 \/ CheckProcess(q) \/ Dial(q) \/ Forward(q) \/ Answered(q)
          PROVE  IInv'
      BY <2>1, <3>4, RequestSteps
    <3>5. ASSUME NEW v \in Viewers,
                 \/ OpenLogs(v) \/ TakeSlot(v) \/ GiveBack(v)
          PROVE  IInv'
      BY <2>1, <3>5, StreamSteps
    <3>6. QED
      BY <2>1, <3>1, <3>2, <3>3, <3>4, <3>5 DEF Next
  <2>2. ASSUME IInv, UNCHANGED vars PROVE IInv'
    BY <2>2, Same DEF vars, IInv, processes
  <2>3. QED
    BY <2>1, <2>2
<1>2. QED
  BY InitInv, <1>1, PTL DEF Spec

\* TypeOK: the state has the declared shape, whatever the interleaving.
THEOREM TypeCorrect == Spec => []TypeOK
<1>1. IInv => TypeOK
  <2> SUFFICES ASSUME IInv PROVE TypeOK
    OBVIOUS
  <2>1. streams \in Nat
    BY StreamingIsCounted DEF IInv, StreamInv, SlotsExact
  <2>2. QED
    BY <2>1 DEF IInv, SystemInv, RegistryInv, RunInv, RunTypes, RequestInv, RequestTypes,
       StreamInv, TypeOK
<1>2. QED
  BY <1>1, Inductive, PTL

\* AdvertisedResolves: every advertised URL leads to its service, or to one
\* with the same mount, and no path that is passed on loses its slash.
THEOREM AdvertisedAlwaysResolves == Spec => []AdvertisedResolves
<1>1. IInv => AdvertisedResolves
  BY RegisteredResolves DEF IInv, RegistryInv
<1>2. QED
  BY <1>1, Inductive, PTL

\* ServedAsRegistered: a request is forwarded only for a process that had not
\* ended when it came in, and with the pid and the port of one registration.
THEOREM AlwaysServedAsRegistered == Spec => []ServedAsRegistered
<1>1. IInv => ServedAsRegistered
  BY DEF IInv, RequestInv, Told, OfAdd, ServedAsRegistered
<1>2. QED
  BY <1>1, Inductive, PTL

\* SlotsExact: no slot of the log streams is lost, and the limit holds.
THEOREM SlotsAreExact == Spec => []SlotsExact
<1>1. IInv => SlotsExact
  BY DEF IInv, StreamInv
<1>2. QED
  BY <1>1, Inductive, PTL

=============================================================================
