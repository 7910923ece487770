-------------------------- MODULE CertStore_proofs --------------------------
(***************************************************************************)
(* Proofs about CertStore, for any number of processes, hosts, domains and *)
(* keys, and any lifetimes.                                                *)
(*                                                                         *)
(* ServedIsSound says nothing of a handshake that is under way, and        *)
(* RootUsable nothing of a process that has not got through its start: the *)
(* inductive invariants say what each has in hand.                         *)
(***************************************************************************)
EXTENDS CertStore, TLAPS

\* A process that is past reading the certificate has a root, and a handshake
\* that is past reading its own has a leaf.
Rooted  == Running \cup (Starting \ {"readCert"})
Holding == Answering \ {"readLeafCert"}

Begun   == [pc : Starting \cup Running, domain : Domains, root : Roots \cup {NoCert}]
Greeted == [host : Hosts, now : 0..MaxClock, cert : Leaves \cup {NoCert}]
Answers == [host : Hosts, pair : Pairs, at : 0..MaxClock]

\* The types, with what a process at each place is known to have.
DiskInv ==
  /\ rootCert \in Roots \cup {NoCert} /\ rootKey \in Files
  /\ leafCert \in [Hosts -> Leaves \cup {NoCert}] /\ leafKey \in [Hosts -> Files]
  /\ clock \in 0..MaxClock /\ keys \in 0..MaxKeys /\ overlapped \in BOOLEAN

ProcInv ==
  /\ proc \in [Procs -> {NoRoot} \cup Begun]
  /\ \A p \in Procs : proc[p].pc \in Rooted => proc[p].root \in Roots

HelloInv ==
  /\ hello \in [Procs -> {Idle} \cup Greeted]
  /\ \A p \in Procs :
       /\ proc[p].pc \in Answering => hello[p] \in Greeted
       /\ proc[p].pc \in Holding => hello[p].cert \in Leaves

MemoryInv ==
  /\ cache \in [Procs -> [Hosts -> Pairs \cup {NoCert}]]
  /\ served \in [Procs -> {NoCert} \cup Answers]

TypeInv == DiskInv /\ ProcInv /\ HelloInv /\ MemoryInv

\* What a handshake has in hand, and what the cache holds.
AnswerInv ==
  /\ ServedIsSound
  /\ \A p \in Procs :
       /\ served[p] # NoCert => proc[p].pc \in Running
       /\ \A h \in Hosts : cache[p][h] # NoCert =>
            cache[p][h].cert.key = cache[p][h].key
       /\ proc[p].pc \in Answering => ValidHost(hello[p].host, proc[p].domain)
       /\ proc[p].pc \in {"saveLeafKey", "saveLeafCert"} =>
            /\ hello[p].cert.root = proc[p].root.key
            /\ hello[p].cert.until = hello[p].now + Validity

\* Unless two processes created a root at once: who creates one is alone and
\* there is no certificate yet; who read one has the one on disk.
RootInv ==
  ~overlapped =>
    /\ rootCert # NoCert => rootKey = rootCert.key
    /\ \A p \in Procs :
         /\ proc[p].pc \in Creating =>
              /\ rootCert = NoCert
              /\ proc[p].root.domain = proc[p].domain
              /\ \A q \in Procs \ {p} : proc[q].pc \notin Creating
         /\ proc[p].pc = "saveCert" => rootKey = proc[p].root.key
         /\ proc[p].pc = "readKey" => proc[p].root = rootCert
         /\ proc[p].pc \in Running =>
              proc[p].root = rootCert /\ proc[p].domain = rootCert.domain

IInv == TypeInv /\ AnswerInv /\ RootInv

\* A certificate is not the absence of one; the numbers are numbers.
LEMMA DataFacts ==
  /\ NoCert \notin Roots /\ NoCert \notin Leaves /\ NoCert \notin Pairs
  /\ NoKey \notin Keys /\ NoKey \in Files /\ Keys \subseteq Files
  /\ NoRoot \notin Begun /\ Idle \notin Greeted
  BY CertStoreAssumption DEF NoCert, NoKey, Keys, Files, Roots, Leaves, Pairs, NoRoot,
    Begun, Starting, Running, Answering, Idle, Greeted

\* What a process has at each place, of the right type.
LEMMA TypeFacts ==
  ASSUME TypeInv, NEW p \in Procs
  PROVE  /\ proc[p].pc # "off" => proc[p] \in Begun
         /\ proc[p].pc \in Rooted => proc[p].root \in Roots
         /\ proc[p].pc \in Answering => hello[p] \in Greeted
         /\ proc[p].pc \in Holding => hello[p].cert \in Leaves
  BY DEF TypeInv, ProcInv, HelloInv, NoRoot

\* One process goes to another place: what is to be shown of it.
LEMMA ProcTypes ==
  ASSUME ProcInv, NEW p \in Procs, NEW b \in Begun,
         b.root \in Roots, proc' = [proc EXCEPT ![p] = b]
  PROVE  ProcInv'
  BY DEF ProcInv

\* The same for what it has in hand, and for one that has nothing in hand.
LEMMA HandTypes ==
  ASSUME ProcInv, HelloInv, NEW p \in Procs, NEW b \in Begun, NEW g \in Greeted,
         proc' = [proc EXCEPT ![p] = b], hello' = [hello EXCEPT ![p] = g],
         b.pc \in Holding => g.cert \in Leaves
  PROVE  HelloInv'
  BY DEF ProcInv, HelloInv

LEMMA RestTypes ==
  ASSUME ProcInv, HelloInv, NEW p \in Procs, NEW b \in Begun, b.pc \notin Answering,
         proc' = [proc EXCEPT ![p] = b],
         UNCHANGED hello \/ hello' = [hello EXCEPT ![p] = Idle]
  PROVE  HelloInv'
<1>1. b.pc \notin Holding
  BY DEF Holding
<1>2. QED
  BY <1>1 DEF ProcInv, HelloInv

\* A new root is a root.
LEMMA NewRootTypes ==
  ASSUME TypeInv, NEW p \in Procs, proc[p] \in Begun, NewRoot(p),
         UNCHANGED <<disk, clock, cache, hello, served>>
  PROVE  TypeInv'
<1> DEFINE r == [key |-> keys', domain |-> proc[p].domain]
           b == [proc[p] EXCEPT !.pc = "saveKey", !.root = r]
<1>1. keys' \in Keys /\ keys' \in 0..MaxKeys
  BY CertStoreAssumption DEF NewRoot, TypeInv, DiskInv, Keys
<1>2. r \in Roots
  BY <1>1 DEF Roots, Begun
<1>3. proc' = [proc EXCEPT ![p] = b]
  BY DEF NewRoot
<1> HIDE DEF r
<1>4. b \in Begun /\ b.pc = "saveKey" /\ b.root \in Roots
  BY <1>2 DEF Begun, Starting
<1> HIDE DEF b
<1>5. ProcInv' /\ HelloInv'
  BY <1>3, <1>4, ProcTypes, RestTypes DEF TypeInv, Answering
<1>6. overlapped' \in BOOLEAN
  BY Zenon DEF NewRoot
<1>7. DiskInv' /\ MemoryInv'
  BY <1>1, <1>6 DEF TypeInv, disk, DiskInv, MemoryInv
<1>8. QED
  BY <1>5, <1>7 DEF TypeInv

\* A new leaf is a leaf.
LEMMA NewLeafTypes ==
  ASSUME TypeInv, NEW p \in Procs, proc[p] \in Begun, proc[p].root \in Roots,
         hello[p] \in Greeted, NewLeaf(p)
  PROVE  ProcInv' /\ HelloInv' /\ MemoryInv' /\ keys' \in Keys
<1> DEFINE c == [key |-> keys', root |-> proc[p].root.key,
                 until |-> hello[p].now + Validity]
           b == [proc[p] EXCEPT !.pc = "saveLeafKey"]
           g == [hello[p] EXCEPT !.cert = c]
<1>1. keys' \in Keys
  BY CertStoreAssumption DEF NewLeaf, TypeInv, DiskInv, Keys
<1>2. proc[p].root.key \in Keys
  BY DEF Roots
<1>3. hello[p].now \in 0..MaxClock
  BY DEF Greeted
<1>4. hello[p].now + Validity \in 0..(MaxClock + Validity)
  BY <1>3, CertStoreAssumption
<1>5. c \in Leaves
  BY <1>1, <1>2, <1>4 DEF Leaves
<1>6. proc' = [proc EXCEPT ![p] = b] /\ hello' = [hello EXCEPT ![p] = g]
  BY DEF NewLeaf
<1> HIDE DEF c
<1>7. b \in Begun /\ b.root \in Roots /\ g \in Greeted /\ g.cert \in Leaves
  BY <1>5 DEF Begun, Running, Answering, Greeted
<1> HIDE DEF b, g
<1>8. ProcInv' /\ HelloInv'
  BY <1>6, <1>7, ProcTypes, HandTypes DEF TypeInv
<1>9. MemoryInv'
  BY DEF NewLeaf, TypeInv, MemoryInv
<1>10. QED
  BY <1>1, <1>8, <1>9

\* An answer is one.
LEMMA ServeTypes ==
  ASSUME TypeInv, NEW p \in Procs, NEW h \in Hosts, NEW pair \in Pairs,
         NEW now \in 0..MaxClock, proc[p] \in Begun, proc[p].root \in Roots,
         Serve(p, h, pair, now)
  PROVE  ProcInv' /\ HelloInv' /\ MemoryInv'
<1> DEFINE b == [proc[p] EXCEPT !.pc = "up"]
<1>1. b \in Begun /\ b.pc = "up" /\ b.root \in Roots
  BY DEF Begun, Running
<1>2. proc' = [proc EXCEPT ![p] = b] /\ hello' = [hello EXCEPT ![p] = Idle]
  BY DEF Serve
<1> HIDE DEF b
<1>3. ProcInv' /\ HelloInv'
  BY <1>1, <1>2, ProcTypes, RestTypes DEF TypeInv, Answering
<1>4. cache' \in [Procs -> [Hosts -> Pairs \cup {NoCert}]]
  BY DEF Serve, TypeInv, MemoryInv
<1>5. served' \in [Procs -> {NoCert} \cup Answers]
  <2>1. [host |-> h, pair |-> pair, at |-> now] \in Answers
    BY DEF Answers
  <2>2. QED
    BY <2>1 DEF Serve, TypeInv, MemoryInv
<1>6. QED
  BY <1>3, <1>4, <1>5 DEF MemoryInv

\* Every step keeps the types, and what a process at each place has.
LEMMA TypeStep == TypeInv /\ [Next]_vars => TypeInv'
<1> SUFFICES ASSUME TypeInv, [Next]_vars PROVE TypeInv'
  OBVIOUS
<1> USE CertStoreAssumption, DataFacts
<1>0. DiskInv /\ ProcInv /\ HelloInv /\ MemoryInv
  BY DEF TypeInv
<1> USE <1>0
<1>1. CASE UNCHANGED vars
  <2>1. ProcInv'
    BY <1>1, TypeFacts DEF vars, disk, ProcInv, Starting, Running,
      Answering, Holding, Rooted, Begun
  <2>2. HelloInv'
    BY <1>1, TypeFacts DEF vars, disk, ProcInv, HelloInv, Starting,
      Running, Answering, Holding, Rooted, Greeted
  <2>3. MemoryInv'
    BY <1>1, TypeFacts DEF vars, disk, MemoryInv
  <2>4. DiskInv'
    BY <1>1, TypeFacts DEF vars, disk, DiskInv
  <2>5. QED
    BY <2>1, <2>2, <2>3, <2>4 DEF TypeInv
<1>2. ASSUME NEW p \in Procs, NEW d \in Domains, Start(p, d) PROVE TypeInv'
  <2>1. ProcInv'
    BY <1>2, TypeFacts DEF Start, disk, ProcInv, Starting, Running,
      Answering, Holding, Rooted, Begun
  <2>2. HelloInv'
    BY <1>2, TypeFacts DEF Start, disk, ProcInv, HelloInv, Starting,
      Running, Answering, Holding, Rooted, Greeted
  <2>3. MemoryInv'
    BY <1>2, TypeFacts DEF Start, disk, MemoryInv
  <2>4. DiskInv'
    BY <1>2, TypeFacts DEF Start, disk, DiskInv
  <2>5. QED
    BY <2>1, <2>2, <2>3, <2>4 DEF TypeInv
<1>3. ASSUME NEW p \in Procs, ReadRootCert(p) PROVE TypeInv'
  <2>1. proc[p] \in Begun
    BY <1>3, TypeFacts DEF ReadRootCert
  <2>2. CASE rootCert = NoCert /\ NewRoot(p)
    BY <1>3, <2>1, <2>2, NewRootTypes DEF ReadRootCert
  <2>3. CASE /\ rootCert # NoCert
             /\ proc' = [proc EXCEPT ![p].pc = "readKey", ![p].root = rootCert]
             /\ UNCHANGED <<keys, overlapped>>
    <3> DEFINE b == [proc[p] EXCEPT !.pc = "readKey", !.root = rootCert]
    <3>1. b \in Begun /\ b.pc = "readKey" /\ b.root \in Roots
      BY <2>1, <2>3 DEF Begun, Starting, DiskInv
    <3>2. proc' = [proc EXCEPT ![p] = b]
      BY <2>3
    <3> HIDE DEF b
    <3>3. ProcInv' /\ HelloInv'
      BY <1>3, <3>1, <3>2, ProcTypes, RestTypes DEF ReadRootCert, Answering
    <3>4. DiskInv' /\ MemoryInv'
      BY <1>3, <2>3 DEF ReadRootCert, disk, DiskInv, MemoryInv
    <3>5. QED
      BY <3>3, <3>4 DEF TypeInv
  <2>4. QED
    BY <1>3, <2>2, <2>3 DEF ReadRootCert
<1>4. ASSUME NEW p \in Procs, ReadRootKey(p) PROVE TypeInv'
  <2>1. proc[p] \in Begun
    BY <1>4, TypeFacts DEF ReadRootKey
  <2>2. CASE NewRoot(p)
    BY <1>4, <2>1, <2>2, NewRootTypes DEF ReadRootKey
  <2>3. CASE proc' = [proc EXCEPT ![p].pc = "up"] /\ UNCHANGED <<keys, overlapped>>
    <3> DEFINE b == [proc[p] EXCEPT !.pc = "up"]
    <3>1. b \in Begun /\ b.pc = "up" /\ b.root \in Roots
      BY <1>4, <2>1, TypeFacts DEF ReadRootKey, Begun, Rooted, Starting, Running
    <3>2. proc' = [proc EXCEPT ![p] = b]
      BY <2>3
    <3> HIDE DEF b
    <3>3. ProcInv' /\ HelloInv'
      BY <1>4, <3>1, <3>2, ProcTypes, RestTypes DEF ReadRootKey, Answering
    <3>4. DiskInv' /\ MemoryInv'
      BY <1>4, <2>3 DEF ReadRootKey, disk, DiskInv, MemoryInv
    <3>5. QED
      BY <3>3, <3>4 DEF TypeInv
  <2>4. QED
    BY <1>4, <2>2, <2>3 DEF ReadRootKey
<1>5. ASSUME NEW p \in Procs, SaveRootKey(p) PROVE TypeInv'
  <2>1. proc[p].root \in Roots
    BY <1>5, TypeFacts DEF SaveRootKey, Rooted, Starting
  <2>2. ProcInv'
    BY <1>5, TypeFacts DEF SaveRootKey, ProcInv, Starting, Rooted, Begun
  <2>3. HelloInv'
    BY <1>5, TypeFacts DEF SaveRootKey, ProcInv, HelloInv, Starting, Answering, Holding,
      Greeted
  <2>4. rootKey' \in Files
    BY <1>5, <2>1 DEF SaveRootKey, Roots
  <2>5. DiskInv' /\ MemoryInv'
    BY <1>5, <2>4 DEF SaveRootKey, DiskInv, MemoryInv
  <2>6. QED
    BY <2>2, <2>3, <2>5 DEF TypeInv
<1>6. ASSUME NEW p \in Procs, SaveRootCert(p) PROVE TypeInv'
  <2>1. proc[p].root \in Roots
    BY <1>6, TypeFacts DEF SaveRootCert, Rooted, Starting
  <2>2. ProcInv'
    BY <1>6, TypeFacts DEF SaveRootCert, ProcInv, Starting, Running, Rooted, Begun
  <2>3. HelloInv'
    BY <1>6, TypeFacts DEF SaveRootCert, ProcInv, HelloInv, Starting, Answering, Holding,
      Greeted
  <2>4. rootCert' \in Roots
    BY <1>6, <2>1 DEF SaveRootCert
  <2>5. DiskInv' /\ MemoryInv'
    BY <1>6, <2>4 DEF SaveRootCert, DiskInv, MemoryInv
  <2>6. QED
    BY <2>2, <2>3, <2>5 DEF TypeInv
<1>7. ASSUME NEW p \in Procs, NEW h \in Hosts, Hello(p, h) PROVE TypeInv'
  <2>1. proc[p] \in Begun /\ proc[p].root \in Roots
    BY <1>7, TypeFacts DEF Hello, Rooted, Running
  <2>2. DiskInv'
    BY <1>7 DEF Hello, disk, DiskInv
  <2>3. clock \in 0..MaxClock
    BY DEF DiskInv
  <2>4. CASE cache[p][h] # NoCert /\ Serve(p, h, cache[p][h], clock)
    <3>1. cache[p][h] \in Pairs
      BY <2>4 DEF MemoryInv
    <3>2. QED
      BY <2>1, <2>2, <2>3, <2>4, <3>1, ServeTypes DEF TypeInv
  <2>5. CASE /\ hello' = [hello EXCEPT ![p] =
                            [host |-> h, now |-> clock, cert |-> NoCert]]
             /\ proc' = [proc EXCEPT ![p].pc = "readLeafCert"]
             /\ UNCHANGED <<cache, served>>
    <3> DEFINE b == [proc[p] EXCEPT !.pc = "readLeafCert"]
               g == [host |-> h, now |-> clock, cert |-> NoCert]
    <3>1. b \in Begun /\ b.pc = "readLeafCert" /\ b.root \in Roots
      BY <2>1 DEF Begun, Running, Answering
    <3>2. g \in Greeted
      BY <2>3 DEF Greeted
    <3>3. proc' = [proc EXCEPT ![p] = b] /\ hello' = [hello EXCEPT ![p] = g]
      BY <2>5
    <3> HIDE DEF b, g
    <3>4. ProcInv' /\ HelloInv'
      BY <3>1, <3>2, <3>3, ProcTypes, HandTypes DEF Holding
    <3>5. MemoryInv'
      BY <2>5 DEF MemoryInv
    <3>6. QED
      BY <2>2, <3>4, <3>5 DEF TypeInv
  <2>6. QED
    BY <1>7, <2>4, <2>5 DEF Hello
<1>8. ASSUME NEW p \in Procs, ReadLeafCert(p) PROVE TypeInv'
  <2>1. proc[p] \in Begun /\ proc[p].root \in Roots /\ hello[p] \in Greeted
    BY <1>8, TypeFacts DEF ReadLeafCert, Rooted, Running, Answering
  <2>2. CASE NewLeaf(p)
    <3>1. keys' \in 0..MaxKeys
      BY <2>1, <2>2, NewLeafTypes DEF Keys
    <3>2. DiskInv'
      BY <1>8, <3>1 DEF ReadLeafCert, disk, DiskInv
    <3>3. QED
      BY <2>1, <2>2, <3>2, NewLeafTypes DEF TypeInv
  <2>3. CASE LET cert == leafCert[hello[p].host]
             IN  /\ cert # NoCert
                 /\ hello' = [hello EXCEPT ![p].cert = cert]
                 /\ proc' = [proc EXCEPT ![p].pc = "readLeafKey"]
                 /\ UNCHANGED <<keys, cache, served>>
    <3> DEFINE b == [proc[p] EXCEPT !.pc = "readLeafKey"]
               g == [hello[p] EXCEPT !.cert = leafCert[hello[p].host]]
    <3>1. b \in Begun /\ b.pc = "readLeafKey" /\ b.root \in Roots
      BY <2>1 DEF Begun, Running, Answering
    <3>2. g \in Greeted /\ g.cert \in Leaves
      BY <2>1, <2>3 DEF Greeted, DiskInv
    <3>3. proc' = [proc EXCEPT ![p] = b] /\ hello' = [hello EXCEPT ![p] = g]
      BY <2>3
    <3> HIDE DEF b, g
    <3>4. ProcInv' /\ HelloInv'
      BY <3>1, <3>2, <3>3, ProcTypes, HandTypes
    <3>5. DiskInv' /\ MemoryInv'
      BY <1>8, <2>3 DEF ReadLeafCert, disk, DiskInv, MemoryInv
    <3>6. QED
      BY <3>4, <3>5 DEF TypeInv
  <2>4. QED
    BY <1>8, <2>2, <2>3 DEF ReadLeafCert
<1>9. ASSUME NEW p \in Procs, ReadLeafKey(p) PROVE TypeInv'
  <2>1. /\ proc[p] \in Begun /\ proc[p].root \in Roots
        /\ hello[p] \in Greeted /\ hello[p].cert \in Leaves
    BY <1>9, TypeFacts DEF ReadLeafKey, Rooted, Running, Answering, Holding
  <2>2. CASE NewLeaf(p)
    <3>1. keys' \in 0..MaxKeys
      BY <2>1, <2>2, NewLeafTypes DEF Keys
    <3>2. DiskInv'
      BY <1>9, <3>1 DEF ReadLeafKey, disk, DiskInv
    <3>3. QED
      BY <2>1, <2>2, <3>2, NewLeafTypes DEF TypeInv
  <2>3. CASE /\ leafKey[hello[p].host] = hello[p].cert.key
             /\ Serve(p, hello[p].host,
                      [cert |-> hello[p].cert, key |-> leafKey[hello[p].host]],
                      hello[p].now)
             /\ UNCHANGED keys
    <3> DEFINE h == hello[p].host
               pair == [cert |-> hello[p].cert, key |-> leafKey[hello[p].host]]
               now == hello[p].now
    <3>1. h \in Hosts /\ pair \in Pairs /\ now \in 0..MaxClock
      BY <2>1, <2>3 DEF Greeted, Pairs, Leaves
    <3>2. Serve(p, h, pair, now)
      BY <2>3
    <3> HIDE DEF h, pair, now
    <3>3. ProcInv' /\ HelloInv' /\ MemoryInv'
      BY <2>1, <3>1, <3>2, ServeTypes
    <3>4. DiskInv'
      BY <1>9, <2>3 DEF ReadLeafKey, disk, DiskInv
    <3>5. QED
      BY <3>3, <3>4 DEF TypeInv
  <2>4. QED
    BY <1>9, <2>2, <2>3 DEF ReadLeafKey
<1>10. ASSUME NEW p \in Procs, SaveLeafKey(p) PROVE TypeInv'
  <2>1. proc[p] \in Begun /\ hello[p] \in Greeted /\ hello[p].cert \in Leaves
    BY <1>10, TypeFacts DEF SaveLeafKey, Answering, Holding
  <2>2. ProcInv'
    BY <1>10, <2>1 DEF SaveLeafKey, ProcInv, Running, Answering, Rooted, Begun
  <2>3. HelloInv'
    BY <1>10, <2>1 DEF SaveLeafKey, ProcInv, HelloInv, Answering, Holding
  <2>4. hello[p].cert.key \in Files
    BY <2>1 DEF Leaves
  <2>5. DiskInv' /\ MemoryInv'
    BY <1>10, <2>1, <2>4 DEF SaveLeafKey, DiskInv, MemoryInv
  <2>6. QED
    BY <2>2, <2>3, <2>5 DEF TypeInv
<1>11. ASSUME NEW p \in Procs, SaveLeafCert(p) PROVE TypeInv'
  <2>1. /\ proc[p] \in Begun /\ proc[p].root \in Roots
        /\ hello[p] \in Greeted /\ hello[p].cert \in Leaves
    BY <1>11, TypeFacts DEF SaveLeafCert, Rooted, Running, Answering, Holding
  <2> DEFINE h == hello[p].host
             pair == [cert |-> hello[p].cert, key |-> hello[p].cert.key]
             now == hello[p].now
  <2>2. h \in Hosts /\ pair \in Pairs /\ now \in 0..MaxClock
    BY <2>1 DEF Greeted, Pairs, Leaves
  <2>3. Serve(p, h, pair, now)
    BY <1>11 DEF SaveLeafCert
  <2>4. leafCert' = [leafCert EXCEPT ![h] = hello[p].cert]
    BY <1>11 DEF SaveLeafCert
  <2> HIDE DEF h, pair, now
  <2>5. ProcInv' /\ HelloInv' /\ MemoryInv'
    BY <2>1, <2>2, <2>3, ServeTypes
  <2>6. DiskInv'
    BY <1>11, <2>1, <2>2, <2>4 DEF SaveLeafCert, DiskInv
  <2>7. QED
    BY <2>5, <2>6 DEF TypeInv
<1>12. ASSUME NEW p \in Procs, FailHello(p) PROVE TypeInv'
  <2>1. ProcInv'
    BY <1>12, TypeFacts DEF FailHello, disk, Idle, ProcInv, Starting,
      Running, Answering, Holding, Rooted, Begun
  <2>2. HelloInv'
    BY <1>12, TypeFacts DEF FailHello, disk, Idle, ProcInv, HelloInv,
      Starting, Running, Answering, Holding, Rooted, Greeted
  <2>3. MemoryInv'
    BY <1>12, TypeFacts DEF FailHello, disk, Idle, MemoryInv
  <2>4. DiskInv'
    BY <1>12, TypeFacts DEF FailHello, disk, Idle, DiskInv
  <2>5. QED
    BY <2>1, <2>2, <2>3, <2>4 DEF TypeInv
<1>13. ASSUME NEW p \in Procs, Stop(p) PROVE TypeInv'
  <2>1. ProcInv'
    BY <1>13, TypeFacts DEF Stop, disk, NoRoot, Idle, NoLeaves, ProcInv,
      Starting, Running, Answering, Holding, Rooted, Begun
  <2>2. HelloInv'
    BY <1>13, TypeFacts DEF Stop, disk, NoRoot, Idle, NoLeaves, ProcInv,
      HelloInv, Starting, Running, Answering, Holding, Rooted, Greeted
  <2>3. MemoryInv'
    BY <1>13, TypeFacts DEF Stop, disk, NoRoot, Idle, NoLeaves,
      MemoryInv
  <2>4. DiskInv'
    BY <1>13, TypeFacts DEF Stop, disk, NoRoot, Idle, NoLeaves, DiskInv
  <2>5. QED
    BY <2>1, <2>2, <2>3, <2>4 DEF TypeInv
<1>14. CASE Tick
  <2>1. ProcInv'
    BY <1>14, TypeFacts DEF Tick, disk, ProcInv, Starting, Running,
      Answering, Holding, Rooted, Begun
  <2>2. HelloInv'
    BY <1>14, TypeFacts DEF Tick, disk, ProcInv, HelloInv, Starting,
      Running, Answering, Holding, Rooted, Greeted
  <2>3. MemoryInv'
    BY <1>14, TypeFacts DEF Tick, disk, MemoryInv
  <2>4. DiskInv'
    BY <1>14, TypeFacts DEF Tick, disk, DiskInv
  <2>5. QED
    BY <2>1, <2>2, <2>3, <2>4 DEF TypeInv
<1>15. QED
  BY <1>1, <1>2, <1>3, <1>4, <1>5, <1>6, <1>7, <1>8, <1>9, <1>10, <1>11,
    <1>12, <1>13, <1>14 DEF Next

\* Nothing is served by a process that makes a new root.
LEMMA NewRootAnswer ==
  ASSUME TypeInv, AnswerInv, NEW p \in Procs, proc[p].pc \in {"readCert", "readKey"},
         NewRoot(p), UNCHANGED <<cache, hello, served>>
  PROVE  AnswerInv'
  BY TypeFacts DEF NewRoot, AnswerInv, ServedIsSound, ValidHost, Running, Answering,
    TypeInv, ProcInv

\* A new leaf is of the process's root and as long as it should be.
LEMMA NewLeafAnswer ==
  ASSUME TypeInv, AnswerInv, NEW p \in Procs, proc[p] \in Begun, hello[p] \in Greeted,
         proc[p].pc \in {"readLeafCert", "readLeafKey"}, NewLeaf(p)
  PROVE  AnswerInv'
<1> DEFINE c == [key |-> keys', root |-> proc[p].root.key,
                 until |-> hello[p].now + Validity]
<1>1. /\ proc' = [proc EXCEPT ![p].pc = "saveLeafKey"]
      /\ hello' = [hello EXCEPT ![p].cert = c]
      /\ UNCHANGED <<cache, served>>
  BY DEF NewLeaf
<1>2. c.root = proc[p].root.key /\ c.until = hello[p].now + Validity
  OBVIOUS
<1> HIDE DEF c
<1>3. QED
  BY <1>1, <1>2 DEF AnswerInv, ServedIsSound, ValidHost, Running, Answering, TypeInv,
    ProcInv, HelloInv, Begun, Greeted

\* A sound pair makes a sound answer.
LEMMA ServeAnswer ==
  ASSUME TypeInv, AnswerInv, NEW p \in Procs, NEW h \in Hosts, NEW pair \in Pairs,
         NEW now \in 0..MaxClock, proc[p] \in Begun, Serve(p, h, pair, now),
         ValidHost(h, proc[p].domain), pair.cert.key = pair.key,
         pair.cert.root = proc[p].root.key, now + Renew <= pair.cert.until
  PROVE  AnswerInv'
<1>1. /\ proc' = [proc EXCEPT ![p].pc = "up"]
      /\ served' = [served EXCEPT ![p] = [host |-> h, pair |-> pair, at |-> now]]
      /\ cache' = [cache EXCEPT ![p][h] = pair]
      /\ hello' = [hello EXCEPT ![p] = Idle]
  BY DEF Serve
<1>2. /\ proc \in [Procs -> {NoRoot} \cup Begun]
      /\ served \in [Procs -> {NoCert} \cup Answers]
      /\ cache \in [Procs -> [Hosts -> Pairs \cup {NoCert}]]
      /\ hello \in [Procs -> {Idle} \cup Greeted]
  BY DEF TypeInv, ProcInv, MemoryInv, HelloInv
<1>3. proc'[p].pc = "up" /\ proc'[p].root = proc[p].root /\ proc'[p].domain = proc[p].domain
  BY <1>1, <1>2 DEF Begun
<1>4. ServedIsSound'
  BY <1>1, <1>2, <1>3 DEF AnswerInv, ServedIsSound, ValidHost
<1>5. \A q \in Procs, k \in Hosts :
        cache'[q][k] # NoCert => cache'[q][k].cert.key = cache'[q][k].key
  BY <1>1, <1>2 DEF AnswerInv
<1>6. QED
  BY <1>1, <1>2, <1>3, <1>4, <1>5 DEF AnswerInv, ValidHost, Running, Answering

\* Every step keeps what is in hand, and what is served, sound.
LEMMA AnswerStep == IInv /\ [Next]_vars => AnswerInv'
<1> SUFFICES ASSUME TypeInv, AnswerInv, [Next]_vars PROVE AnswerInv'
  BY DEF IInv
<1> USE CertStoreAssumption
<1>0. DiskInv /\ ProcInv /\ HelloInv /\ MemoryInv
  BY DEF TypeInv
<1>1. CASE UNCHANGED vars
  BY <1>1, <1>0, TypeFacts DEF vars, disk, AnswerInv, ServedIsSound,
    Starting, Answering, Running,     ValidHost, ProcInv, HelloInv,
    MemoryInv, NoRoot, Begun
<1>2. ASSUME NEW p \in Procs, NEW d \in Domains, Start(p, d) PROVE AnswerInv'
  BY <1>2, <1>0, TypeFacts DEF Start, disk, AnswerInv, ServedIsSound,
    Starting, Answering, Running,     ValidHost, ProcInv, HelloInv,
    MemoryInv, NoRoot, Begun
<1>3. ASSUME NEW p \in Procs, ReadRootCert(p) PROVE AnswerInv'
  <2>1. CASE NewRoot(p)
    BY <1>3, <2>1, NewRootAnswer DEF ReadRootCert
  <2>2. CASE proc' = [proc EXCEPT ![p].pc = "readKey", ![p].root = rootCert]
    BY <1>3, <2>2, TypeFacts, <1>0 DEF ReadRootCert, AnswerInv, ServedIsSound, ValidHost,
      Running, Answering, ProcInv, NoRoot, Begun
  <2>3. QED
    BY <1>3, <2>1, <2>2 DEF ReadRootCert
<1>4. ASSUME NEW p \in Procs, ReadRootKey(p) PROVE AnswerInv'
  <2>1. CASE NewRoot(p)
    BY <1>4, <2>1, NewRootAnswer DEF ReadRootKey
  <2>2. CASE proc' = [proc EXCEPT ![p].pc = "up"]
    BY <1>4, <2>2, TypeFacts, <1>0 DEF ReadRootKey, AnswerInv, ServedIsSound, ValidHost,
      Running, Answering, ProcInv, NoRoot, Begun
  <2>3. QED
    BY <1>4, <2>1, <2>2 DEF ReadRootKey
<1>5. ASSUME NEW p \in Procs, SaveRootKey(p) PROVE AnswerInv'
  BY <1>5, <1>0, TypeFacts DEF SaveRootKey, AnswerInv, ServedIsSound,
    Starting, Answering, Running,     ValidHost, ProcInv, HelloInv,
    MemoryInv, NoRoot, Begun
<1>6. ASSUME NEW p \in Procs, SaveRootCert(p) PROVE AnswerInv'
  BY <1>6, <1>0, TypeFacts DEF SaveRootCert, AnswerInv, ServedIsSound,
    Starting, Answering, Running,     ValidHost, ProcInv, HelloInv,
    MemoryInv, NoRoot, Begun
<1>7. ASSUME NEW p \in Procs, NEW h \in Hosts, Hello(p, h) PROVE AnswerInv'
  <2>1. /\ proc[p] \in Begun /\ proc[p].root \in Roots /\ proc[p].pc = "up"
        /\ ValidHost(h, proc[p].domain) /\ clock \in 0..MaxClock
    BY <1>7, TypeFacts, <1>0 DEF Hello, Rooted, Running, DiskInv
  <2>2. CASE /\ cache[p][h] # NoCert
             /\ Usable(cache[p][h].cert, proc[p].root.key, clock)
             /\ Serve(p, h, cache[p][h], clock)
    <3>1. cache[p][h] \in Pairs /\ cache[p][h].cert.key = cache[p][h].key
      BY <2>2, <1>0 DEF MemoryInv, AnswerInv
    <3>2. /\ cache[p][h].cert.root = proc[p].root.key
          /\ clock + Renew <= cache[p][h].cert.until
      BY <2>2 DEF Usable
    <3>3. QED
      BY <2>1, <2>2, <3>1, <3>2, ServeAnswer
  <2>3. CASE /\ hello' = [hello EXCEPT ![p] =
                            [host |-> h, now |-> clock, cert |-> NoCert]]
             /\ proc' = [proc EXCEPT ![p].pc = "readLeafCert"]
             /\ UNCHANGED <<cache, served>>
    BY <2>1, <2>3, <1>0 DEF AnswerInv, ServedIsSound, ValidHost, Running, Answering,
      ProcInv, HelloInv, Begun
  <2>4. QED
    BY <1>7, <2>2, <2>3 DEF Hello
<1>8. ASSUME NEW p \in Procs, ReadLeafCert(p) PROVE AnswerInv'
  <2>1. proc[p].root \in Roots /\ proc[p] \in Begun /\ hello[p] \in Greeted
    BY <1>8, TypeFacts DEF ReadLeafCert, Rooted, Running, Answering
  <2>2. CASE NewLeaf(p)
    BY <1>8, <2>1, <2>2, NewLeafAnswer DEF ReadLeafCert
  <2>3. CASE /\ hello' = [hello EXCEPT ![p].cert = leafCert[hello[p].host]]
             /\ proc' = [proc EXCEPT ![p].pc = "readLeafKey"]
             /\ UNCHANGED <<keys, cache, served>>
    BY <1>8, <2>1, <2>3, <1>0 DEF ReadLeafCert, AnswerInv, ServedIsSound, ValidHost,
      Running, Answering, ProcInv, HelloInv, Begun, Greeted
  <2>4. QED
    BY <1>8, <2>2, <2>3 DEF ReadLeafCert
<1>9. ASSUME NEW p \in Procs, ReadLeafKey(p) PROVE AnswerInv'
  <2>1. /\ proc[p].root \in Roots /\ proc[p] \in Begun
        /\ hello[p] \in Greeted /\ hello[p].cert \in Leaves
        /\ ValidHost(hello[p].host, proc[p].domain)
    BY <1>9, TypeFacts DEF ReadLeafKey, Rooted, Running, Answering, Holding, AnswerInv
  <2>2. CASE NewLeaf(p)
    BY <1>9, <2>1, <2>2, NewLeafAnswer DEF ReadLeafKey
  <2>3. CASE /\ leafKey[hello[p].host] = hello[p].cert.key
             /\ Usable(hello[p].cert, proc[p].root.key, hello[p].now)
             /\ Serve(p, hello[p].host,
                      [cert |-> hello[p].cert, key |-> leafKey[hello[p].host]],
                      hello[p].now)
    <3> DEFINE h == hello[p].host
               pair == [cert |-> hello[p].cert, key |-> leafKey[hello[p].host]]
               now == hello[p].now
    <3>1. h \in Hosts /\ pair \in Pairs /\ now \in 0..MaxClock
      BY <2>1, <2>3 DEF Greeted, Pairs, Leaves
    <3>2. /\ pair.cert.key = pair.key /\ pair.cert.root = proc[p].root.key
          /\ now + Renew <= pair.cert.until
      BY <2>3 DEF Usable
    <3>3. Serve(p, h, pair, now) /\ ValidHost(h, proc[p].domain)
      BY <2>1, <2>3
    <3> HIDE DEF h, pair, now
    <3>4. QED
      BY <2>1, <3>1, <3>2, <3>3, ServeAnswer
  <2>4. QED
    BY <1>9, <2>2, <2>3 DEF ReadLeafKey
<1>10. ASSUME NEW p \in Procs, SaveLeafKey(p) PROVE AnswerInv'
  BY <1>10, <1>0, TypeFacts DEF SaveLeafKey, AnswerInv, ServedIsSound,
    Starting, Answering, Running,     ValidHost, ProcInv, HelloInv,
    MemoryInv, NoRoot, Begun
<1>11. ASSUME NEW p \in Procs, SaveLeafCert(p) PROVE AnswerInv'
  <2>1. /\ proc[p].root \in Roots /\ proc[p] \in Begun
        /\ hello[p] \in Greeted /\ hello[p].cert \in Leaves
        /\ ValidHost(hello[p].host, proc[p].domain)
        /\ hello[p].cert.root = proc[p].root.key
        /\ hello[p].cert.until = hello[p].now + Validity
    BY <1>11, TypeFacts DEF SaveLeafCert, Rooted, Running, Answering, Holding, AnswerInv
  <2> DEFINE h == hello[p].host
             pair == [cert |-> hello[p].cert, key |-> hello[p].cert.key]
             now == hello[p].now
  <2>2. h \in Hosts /\ pair \in Pairs /\ now \in 0..MaxClock
    BY <2>1 DEF Greeted, Pairs, Leaves
  <2>3. /\ pair.cert.key = pair.key /\ pair.cert.root = proc[p].root.key
        /\ now + Renew <= pair.cert.until
    BY <2>1, <2>2
  <2>4. Serve(p, h, pair, now) /\ ValidHost(h, proc[p].domain)
    BY <1>11, <2>1 DEF SaveLeafCert
  <2> HIDE DEF h, pair, now
  <2>5. QED
    BY <2>1, <2>2, <2>3, <2>4, ServeAnswer
<1>12. ASSUME NEW p \in Procs, FailHello(p) PROVE AnswerInv'
  BY <1>12, <1>0, TypeFacts DEF FailHello, disk, Idle, AnswerInv,
    ServedIsSound, Starting, Answering,     Running, ValidHost, ProcInv,
    HelloInv, MemoryInv, NoRoot, Begun
<1>13. ASSUME NEW p \in Procs, Stop(p) PROVE AnswerInv'
  BY <1>13, <1>0, TypeFacts DEF Stop, disk, NoRoot, Idle, NoLeaves,
    AnswerInv, ServedIsSound,     Starting, Answering, Running,
    ValidHost, ProcInv, HelloInv,     MemoryInv, Begun
<1>14. CASE Tick
  BY <1>14, <1>0, TypeFacts DEF Tick, disk, AnswerInv, ServedIsSound,
    Starting, Answering, Running,     ValidHost, ProcInv, HelloInv,
    MemoryInv, NoRoot, Begun
<1>15. QED
  BY <1>1, <1>2, <1>3, <1>4, <1>5, <1>6, <1>7, <1>8, <1>9, <1>10, <1>11,
    <1>12, <1>13, <1>14 DEF Next

\* Who begins to create a root while there is no certificate is alone with
\* that, or the starts overlap.
LEMMA NewRootAlone ==
  ASSUME TypeInv, RootInv, NEW p \in Procs, proc[p].pc = "readCert",
         rootCert = NoCert, NewRoot(p), UNCHANGED disk
  PROVE  RootInv'
<1> SUFFICES ASSUME ~overlapped' PROVE RootInv'
  BY DEF RootInv
<1>1. ~overlapped /\ \A q \in Procs \ {p} : proc[q].pc \notin Creating
  BY DEF NewRoot
<1>2. proc[p] \in Begun
  BY TypeFacts
<1> DEFINE r == [key |-> keys', domain |-> proc[p].domain]
<1>3. proc' = [proc EXCEPT ![p].pc = "saveKey", ![p].root = r]
  BY DEF NewRoot
<1>4. r.domain = proc[p].domain
  OBVIOUS
<1> HIDE DEF r
<1>5. UNCHANGED <<rootCert, rootKey>>
  BY DEF disk
<1>6. QED
  BY <1>1, <1>2, <1>3, <1>4, <1>5 DEF RootInv, TypeInv, ProcInv, Begun, Creating,
    Running, Answering

\* Every step keeps the root whole and its creator alone.
LEMMA RootStep == IInv /\ [Next]_vars => RootInv'
<1> SUFFICES ASSUME TypeInv, RootInv, [Next]_vars PROVE RootInv'
  BY DEF IInv
<1> USE CertStoreAssumption
<1>0. DiskInv /\ ProcInv /\ HelloInv /\ MemoryInv
  BY DEF TypeInv
<1>1. CASE UNCHANGED vars
  BY <1>1, <1>0, TypeFacts DEF vars, disk, RootInv, Starting, Answering,
    Running, Creating, ProcInv,     NoRoot, Begun
<1>2. ASSUME NEW p \in Procs, NEW d \in Domains, Start(p, d) PROVE RootInv'
  BY <1>2, <1>0, TypeFacts DEF Start, disk, RootInv, Starting,
    Answering, Running, Creating, ProcInv,     NoRoot, Begun
<1>3. ASSUME NEW p \in Procs, ReadRootCert(p) PROVE RootInv'
  <2>1. CASE rootCert = NoCert /\ NewRoot(p)
    BY <1>3, <2>1, NewRootAlone DEF ReadRootCert
  <2>2. CASE /\ proc' = [proc EXCEPT ![p].pc = "readKey", ![p].root = rootCert]
             /\ UNCHANGED <<keys, overlapped>>
    BY <1>3, <2>2, <1>0, TypeFacts DEF ReadRootCert, disk, RootInv, ProcInv, Creating,
      Running, Answering, Begun
  <2>3. QED
    BY <1>3, <2>1, <2>2 DEF ReadRootCert
<1>4. ASSUME NEW p \in Procs, ReadRootKey(p) PROVE RootInv'
  <2>1. CASE rootKey = NoKey /\ NewRoot(p)
    <3>1. proc[p].root \in Roots /\ proc[p].pc = "readKey"
      BY <1>4, TypeFacts DEF ReadRootKey, Rooted, Starting
    <3>2. ~overlapped => proc[p].root = rootCert /\ rootKey = rootCert.key
      BY <3>1, DataFacts DEF RootInv
    <3>3. overlapped
      BY <2>1, <3>1, <3>2, DataFacts DEF Roots
    <3>4. overlapped'
      BY <2>1, <3>3 DEF NewRoot
    <3>5. QED
      BY <3>4 DEF RootInv
  <2>2. CASE /\ proc[p].root.domain = proc[p].domain
             /\ proc' = [proc EXCEPT ![p].pc = "up"]
             /\ UNCHANGED <<keys, overlapped>>
    BY <1>4, <2>2, <1>0, TypeFacts DEF ReadRootKey, disk, RootInv, ProcInv, Creating,
      Running, Answering, Begun
  <2>3. QED
    BY <1>4, <2>1, <2>2 DEF ReadRootKey
<1>5. ASSUME NEW p \in Procs, SaveRootKey(p) PROVE RootInv'
  BY <1>5, <1>0, TypeFacts DEF SaveRootKey, RootInv, Starting,
    Answering, Running, Creating, ProcInv,     NoRoot, Begun
<1>6. ASSUME NEW p \in Procs, SaveRootCert(p) PROVE RootInv'
  <2> SUFFICES ASSUME ~overlapped' PROVE RootInv'
    BY DEF RootInv
  <2>1. /\ ~overlapped /\ rootCert = NoCert /\ proc[p] \in Begun
        /\ rootKey = proc[p].root.key /\ proc[p].root.domain = proc[p].domain
    BY <1>6, TypeFacts DEF SaveRootCert, RootInv, Creating
  <2>2. \A q \in Procs \ {p} :
          proc[q].pc \notin Creating /\ proc[q].pc # "readKey" /\ proc[q].pc \notin Running
    BY <1>6, <2>1, TypeFacts, DataFacts DEF SaveRootCert, RootInv, Creating, Rooted, Starting
  <2>3. /\ proc' = [proc EXCEPT ![p].pc = "up"] /\ rootCert' = proc[p].root
        /\ UNCHANGED rootKey
    BY <1>6 DEF SaveRootCert
  <2>4. QED
    BY <2>1, <2>2, <2>3, <1>0 DEF RootInv, ProcInv, Begun, Creating, Running, Answering
<1>7. ASSUME NEW p \in Procs, NEW h \in Hosts, Hello(p, h) PROVE RootInv'
  BY <1>7, <1>0, TypeFacts DEF Hello, disk, Serve, Usable, Idle,
    RootInv, Starting, Answering,     Running, Creating, ProcInv,
    NoRoot, Begun
<1>8. ASSUME NEW p \in Procs, ReadLeafCert(p) PROVE RootInv'
  BY <1>8, <1>0, TypeFacts DEF ReadLeafCert, disk, NewLeaf, RootInv,
    Starting, Answering, Running,     Creating, ProcInv, NoRoot, Begun
<1>9. ASSUME NEW p \in Procs, ReadLeafKey(p) PROVE RootInv'
  BY <1>9, <1>0, TypeFacts DEF ReadLeafKey, disk, NewLeaf, Serve,
    Usable, Idle, RootInv, Starting,     Answering, Running, Creating,
    ProcInv, NoRoot, Begun
<1>10. ASSUME NEW p \in Procs, SaveLeafKey(p) PROVE RootInv'
  BY <1>10, <1>0, TypeFacts DEF SaveLeafKey, RootInv, Starting,
    Answering, Running, Creating, ProcInv,     NoRoot, Begun
<1>11. ASSUME NEW p \in Procs, SaveLeafCert(p) PROVE RootInv'
  BY <1>11, <1>0, TypeFacts DEF SaveLeafCert, Serve, Idle, RootInv,
    Starting, Answering, Running,     Creating, ProcInv, NoRoot, Begun
<1>12. ASSUME NEW p \in Procs, FailHello(p) PROVE RootInv'
  BY <1>12, <1>0, TypeFacts DEF FailHello, disk, Idle, RootInv,
    Starting, Answering, Running,     Creating, ProcInv, NoRoot, Begun
<1>13. ASSUME NEW p \in Procs, Stop(p) PROVE RootInv'
  BY <1>13, <1>0, TypeFacts DEF Stop, disk, NoRoot, Idle, NoLeaves,
    RootInv, Starting, Answering,     Running, Creating, ProcInv, Begun
<1>14. CASE Tick
  BY <1>14, <1>0, TypeFacts DEF Tick, disk, RootInv, Starting,
    Answering, Running, Creating, ProcInv,     NoRoot, Begun
<1>15. QED
  BY <1>1, <1>2, <1>3, <1>4, <1>5, <1>6, <1>7, <1>8, <1>9, <1>10, <1>11,
    <1>12, <1>13, <1>14 DEF Next

\* The inductive invariant holds in every reachable state.
THEOREM Inductive == Spec => []IInv
<1>1. Init => IInv
  <2> SUFFICES ASSUME Init PROVE IInv
    OBVIOUS
  <2>1. DiskInv /\ MemoryInv
    <3>1. /\ rootCert = NoCert /\ rootKey \in Files
          /\ leafCert \in [Hosts -> Leaves \cup {NoCert}] /\ leafKey \in [Hosts -> Files]
          /\ clock \in 0..MaxClock /\ keys \in 0..MaxKeys
      BY CertStoreAssumption DEF Init, Files, NoLeaves
    <3>2. overlapped \in BOOLEAN
      BY DEF Init
    <3>3. MemoryInv
      BY DEF Init, MemoryInv, NoLeaves
    <3>4. QED
      BY <3>1, <3>2, <3>3 DEF DiskInv
  <2>2. ProcInv /\ HelloInv
    BY DEF Init, ProcInv, HelloInv, NoRoot, Rooted, Running, Starting, Answering, Holding
  <2>3. AnswerInv
    BY DEF Init, AnswerInv, ServedIsSound, NoRoot, NoLeaves, Running, Answering
  <2>4. RootInv
    BY DEF Init, RootInv, NoRoot, Creating, Running, Answering
  <2>5. QED
    BY <2>1, <2>2, <2>3, <2>4 DEF IInv, TypeInv
<1>2. IInv /\ [Next]_vars => IInv'
  BY TypeStep, AnswerStep, RootStep DEF IInv
<1>3. QED
  BY <1>1, <1>2, PTL DEF Spec

\* Every variable has its type.
THEOREM TypeCorrect == Spec => []TypeOK
<1>1. IInv => TypeOK
  BY DEF IInv, TypeInv, DiskInv, ProcInv, HelloInv, MemoryInv, TypeOK, Begun, Greeted,
    Answers
<1>2. QED
  BY Inductive, <1>1, PTL

\* Whatever crashes and other processes have left in the files, the answer of
\* a handshake is sound.
THEOREM AnswersAreSound == Spec => []ServedIsSound
<1>1. IInv => ServedIsSound
  BY DEF IInv, AnswerInv
<1>2. QED
  BY Inductive, <1>1, PTL

\* Unless two starts created a root at once, every start finds a whole root or
\* none, and every process that is up holds the root on disk.
THEOREM RootIsUsable == Spec => []RootUsable
<1>1. IInv => RootUsable
  BY DEF IInv, RootInv, RootUsable
<1>2. QED
  BY Inductive, <1>1, PTL

\* A root certificate, once on disk, stays.
THEOREM RootIsKept == Spec => RootKept
<1>1. IInv /\ [Next]_vars => [rootCert # NoCert /\ ~overlapped => rootCert' = rootCert]_vars
  <2> SUFFICES ASSUME RootInv, Next, rootCert # NoCert, ~overlapped
               PROVE  rootCert' = rootCert
    BY DEF IInv
  <2>1. ASSUME NEW p \in Procs PROVE ~SaveRootCert(p)
    BY DEF SaveRootCert, RootInv, Creating
  <2>2. QED
    BY <2>1 DEF Next, Start, ReadRootCert, ReadRootKey, SaveRootKey, Hello, ReadLeafCert,
      ReadLeafKey, SaveLeafKey, SaveLeafCert, FailHello, Stop, Tick, disk
<1>2. QED
  BY Inductive, <1>1, PTL DEF Spec, RootKept

=============================================================================
