------------------------------ MODULE CertStore ------------------------------
(***************************************************************************)
(* The certificate authority: the root's certificate and key, the leaf of  *)
(* each host with its key, all of them files that are replaced one at a    *)
(* time (by rename, so no file is ever half written), and the processes    *)
(* that load or create them: install, which stops when it has the root,    *)
(* and daemons, which go on to answer TLS handshakes.                      *)
(*                                                                         *)
(* A key is a number, given out once.  A certificate names the key it is   *)
(* for; the root's key names the root in the leaves it signed.  Time is    *)
(* counted in units of renewBefore; backdate is less than one.             *)
(***************************************************************************)
EXTENDS Naturals

CONSTANTS
  Procs,      \* processes over one state directory
  Domains,    \* domains they may be configured with
  Hosts,      \* server names that clients ask for
  DomainOf,   \* the domain each host is the apex of or lies under
  Validity,   \* leafValidity
  Renew,      \* renewBefore
  MaxKeys,    \* bound: keys generated
  MaxClock    \* bound: time

ASSUME CertStoreAssumption ==
  /\ DomainOf \in [Hosts -> Domains]
  /\ Validity \in Nat /\ Renew \in Nat /\ Renew <= Validity
  /\ MaxKeys \in Nat /\ MaxClock \in Nat

VARIABLES
  rootCert,   \* root.crt
  rootKey,    \* root.key
  leafCert,   \* leafCert[h]: certs/h.crt
  leafKey,    \* leafKey[h]: certs/h.key
  clock,
  keys,       \* keys generated so far
  proc,       \* proc[p]: its progress, domain, and root in memory
  cache,      \* cache[p][h]: leaves in memory
  hello,      \* hello[p]: the handshake that holds the lock
  served,     \* served[p]: the last certificate it answered with
  overlapped  \* two processes were creating a root at the same time

disk == <<rootCert, rootKey, leafCert, leafKey>>
vars == <<disk, clock, keys, proc, cache, hello, served, overlapped>>

NoKey  == 0
Keys   == 1..MaxKeys
Files  == Keys \cup {NoKey}
NoCert == [key |-> NoKey]
Roots  == [key : Keys, domain : Domains]
Leaves == [key : Keys, root : Keys, until : 0..(MaxClock + Validity)]
Pairs  == [cert : Leaves, key : Keys]

Starting  == {"readCert", "readKey", "saveKey", "saveCert"}
Creating  == {"saveKey", "saveCert"}
Answering == {"readLeafCert", "readLeafKey", "saveLeafKey", "saveLeafCert"}
Running   == {"up"} \cup Answering

NoRoot   == [pc |-> "off"]
Idle     == [host |-> "none"]
NoLeaves == [h \in Hosts |-> NoCert]

\* validateHost: a server name of the configured domain.
ValidHost(h, d) == DomainOf[h] = d

\* Mutant: a leaf of any root will do.
UsableOfAnyRoot(leaf, root, now) == leaf # NoCert /\ now + Renew <= leaf.until

\* usable: what a leaf must be to be served once more.
Usable(leaf, root, now) ==
  /\ leaf # NoCert
  /\ now + Renew <= leaf.until
  /\ leaf.root = root

Init ==
  /\ rootCert = NoCert /\ rootKey = NoKey
  /\ leafCert = NoLeaves /\ leafKey = [h \in Hosts |-> NoKey]
  /\ clock = 0 /\ keys = 0
  /\ proc = [p \in Procs |-> NoRoot]
  /\ cache = [p \in Procs |-> NoLeaves]
  /\ hello = [p \in Procs |-> Idle]
  /\ served = [p \in Procs |-> NoCert]
  /\ overlapped = FALSE

(***************************************************************************)
(* LoadOrCreate.                                                           *)
(***************************************************************************)

Start(p, d) ==
  /\ proc[p].pc = "off"
  /\ proc' = [proc EXCEPT ![p] =
                [pc |-> "readCert", domain |-> d, root |-> NoCert]]
  /\ UNCHANGED <<disk, clock, keys, cache, hello, served, overlapped>>

\* createRoot, before its files: a key and a certificate for the domain.
NewRoot(p) ==
  /\ keys < MaxKeys
  /\ keys' = keys + 1
  /\ proc' = [proc EXCEPT ![p].pc = "saveKey",
                          ![p].root = [key |-> keys', domain |-> proc[p].domain]]
  /\ overlapped' = (overlapped \/ \E q \in Procs \ {p} : proc[q].pc \in Creating)

\* loadRoot reads the certificate first; without it there is no root.
ReadRootCert(p) ==
  /\ proc[p].pc = "readCert"
  /\ \/ rootCert = NoCert /\ NewRoot(p)
     \/ /\ rootCert # NoCert
        /\ proc' = [proc EXCEPT ![p].pc = "readKey", ![p].root = rootCert]
        /\ UNCHANGED <<keys, overlapped>>
  /\ UNCHANGED <<disk, clock, cache, hello, served>>

\* Mutant: a root of another domain is replaced instead of refused.
ReadRootKeyOrReplace(p) ==
  /\ proc[p].pc = "readKey"
  /\ \/ /\ rootKey = NoKey \/ proc[p].root.domain # proc[p].domain
        /\ NewRoot(p)
     \/ /\ rootKey = proc[p].root.key /\ proc[p].root.domain = proc[p].domain
        /\ proc' = [proc EXCEPT ![p].pc = "up"]
        /\ UNCHANGED <<keys, overlapped>>
  /\ UNCHANGED <<disk, clock, cache, hello, served>>

\* Then the key: without it there is no root either.  A key that is not the
\* certificate's, or a root that is not for the domain, ends the process
\* (Stop).
ReadRootKey(p) ==
  /\ proc[p].pc = "readKey"
  /\ \/ rootKey = NoKey /\ NewRoot(p)
     \/ /\ rootKey = proc[p].root.key /\ proc[p].root.domain = proc[p].domain
        /\ proc' = [proc EXCEPT ![p].pc = "up"]
        /\ UNCHANGED <<keys, overlapped>>
  /\ UNCHANGED <<disk, clock, cache, hello, served>>

\* Mutant: the certificate is saved before the key.
SaveRootCertFirst(p) ==
  /\ proc[p].pc = "saveKey"
  /\ rootCert' = proc[p].root
  /\ proc' = [proc EXCEPT ![p].pc = "saveCert"]
  /\ UNCHANGED <<rootKey, leafCert, leafKey, clock, keys, cache, hello, served, overlapped>>

\* createRoot saves the key first, so that no certificate is ever without one.
SaveRootKey(p) ==
  /\ proc[p].pc = "saveKey"
  /\ rootKey' = proc[p].root.key
  /\ proc' = [proc EXCEPT ![p].pc = "saveCert"]
  /\ UNCHANGED <<rootCert, leafCert, leafKey, clock, keys, cache, hello, served, overlapped>>

SaveRootCert(p) ==
  /\ proc[p].pc = "saveCert"
  /\ rootCert' = proc[p].root
  /\ proc' = [proc EXCEPT ![p].pc = "up"]
  /\ UNCHANGED <<rootKey, leafCert, leafKey, clock, keys, cache, hello, served, overlapped>>

\* An error on the way, the end of install, or a crash, anywhere.
Stop(p) ==
  /\ proc[p].pc # "off"
  /\ proc' = [proc EXCEPT ![p] = NoRoot]
  /\ cache' = [cache EXCEPT ![p] = NoLeaves]
  /\ hello' = [hello EXCEPT ![p] = Idle]
  /\ served' = [served EXCEPT ![p] = NoCert]
  /\ UNCHANGED <<disk, clock, keys, overlapped>>

(***************************************************************************)
(* CertificateFor, one handshake at a time: the lock is held throughout,   *)
(* but another process may write the files meanwhile.                      *)
(***************************************************************************)

\* The answer, and the end of the handshake.
Serve(p, h, pair, now) ==
  /\ cache' = [cache EXCEPT ![p][h] = pair]
  /\ served' = [served EXCEPT ![p] = [host |-> h, pair |-> pair, at |-> now]]
  /\ hello' = [hello EXCEPT ![p] = Idle]
  /\ proc' = [proc EXCEPT ![p].pc = "up"]

\* The server name is valid; memory is asked first.
Hello(p, h) ==
  /\ proc[p].pc = "up"
  /\ ValidHost(h, proc[p].domain)
  /\ LET pair == cache[p][h]
         hit  == pair # NoCert /\ Usable(pair.cert, proc[p].root.key, clock)
     IN  \/ hit /\ Serve(p, h, pair, clock)
         \/ /\ ~hit
            /\ hello' = [hello EXCEPT ![p] =
                           [host |-> h, now |-> clock, cert |-> NoCert]]
            /\ proc' = [proc EXCEPT ![p].pc = "readLeafCert"]
            /\ UNCHANGED <<cache, served>>
  /\ UNCHANGED <<disk, clock, keys, overlapped>>

\* issueLeaf, before its files.
NewLeaf(p) ==
  /\ keys < MaxKeys
  /\ keys' = keys + 1
  /\ hello' = [hello EXCEPT ![p].cert =
                 [key |-> keys', root |-> proc[p].root.key,
                  until |-> hello[p].now + Validity]]
  /\ proc' = [proc EXCEPT ![p].pc = "saveLeafKey"]
  /\ UNCHANGED <<cache, served>>

\* loadLeaf reads the certificate first; when that fails, because there is
\* none or for another reason, a leaf is issued.
ReadLeafCert(p) ==
  /\ proc[p].pc = "readLeafCert"
  /\ LET cert == leafCert[hello[p].host]
     IN  \/ NewLeaf(p)
         \/ /\ cert # NoCert
            /\ hello' = [hello EXCEPT ![p].cert = cert]
            /\ proc' = [proc EXCEPT ![p].pc = "readLeafKey"]
            /\ UNCHANGED <<keys, cache, served>>
  /\ UNCHANGED <<disk, clock, overlapped>>

\* Then the key; when that fails, or the pair does not match, or the leaf is
\* not usable, a leaf is issued as well.
ReadLeafKey(p) ==
  /\ proc[p].pc = "readLeafKey"
  /\ LET h    == hello[p].host
         cert == hello[p].cert
         good == /\ leafKey[h] = cert.key
                 /\ Usable(cert, proc[p].root.key, hello[p].now)
     IN  \/ /\ good
            /\ Serve(p, h, [cert |-> cert, key |-> leafKey[h]], hello[p].now)
            /\ UNCHANGED keys
         \/ NewLeaf(p)
  /\ UNCHANGED <<disk, clock, overlapped>>

SaveLeafKey(p) ==
  /\ proc[p].pc = "saveLeafKey"
  /\ leafKey' = [leafKey EXCEPT ![hello[p].host] = hello[p].cert.key]
  /\ proc' = [proc EXCEPT ![p].pc = "saveLeafCert"]
  /\ UNCHANGED <<rootCert, rootKey, leafCert, clock, keys, cache, hello, served, overlapped>>

SaveLeafCert(p) ==
  /\ proc[p].pc = "saveLeafCert"
  /\ LET h == hello[p].host  cert == hello[p].cert
     IN  /\ leafCert' = [leafCert EXCEPT ![h] = cert]
         /\ Serve(p, h, [cert |-> cert, key |-> cert.key], hello[p].now)
  /\ UNCHANGED <<rootCert, rootKey, leafKey, clock, keys, overlapped>>

\* writeFile failed: the handshake fails and nothing is remembered.
FailHello(p) ==
  /\ proc[p].pc \in {"saveLeafKey", "saveLeafCert"}
  /\ proc' = [proc EXCEPT ![p].pc = "up"]
  /\ hello' = [hello EXCEPT ![p] = Idle]
  /\ UNCHANGED <<disk, clock, keys, cache, served, overlapped>>

Tick ==
  /\ clock < MaxClock
  /\ clock' = clock + 1
  /\ UNCHANGED <<disk, keys, proc, cache, hello, served, overlapped>>

Next ==
  \/ \E p \in Procs :
       \/ \E d \in Domains : Start(p, d)
       \/ ReadRootCert(p) \/ ReadRootKey(p) \/ SaveRootKey(p) \/ SaveRootCert(p)
       \/ \E h \in Hosts : Hello(p, h)
       \/ ReadLeafCert(p) \/ ReadLeafKey(p) \/ SaveLeafKey(p) \/ SaveLeafCert(p)
       \/ FailHello(p) \/ Stop(p)
  \/ Tick

Spec == Init /\ [][Next]_vars

(***************************************************************************)
(* Properties.                                                             *)
(***************************************************************************)

\* The shape of the state.
TypeOK ==
  /\ rootCert \in Roots \cup {NoCert} /\ rootKey \in Files
  /\ leafCert \in [Hosts -> Leaves \cup {NoCert}] /\ leafKey \in [Hosts -> Files]
  /\ clock \in 0..MaxClock /\ keys \in 0..MaxKeys
  /\ proc \in [Procs -> {NoRoot} \cup
       [pc : Starting \cup Running, domain : Domains, root : Roots \cup {NoCert}]]
  /\ cache \in [Procs -> [Hosts -> Pairs \cup {NoCert}]]
  /\ hello \in [Procs -> {Idle} \cup
       [host : Hosts, now : 0..MaxClock, cert : Leaves \cup {NoCert}]]
  /\ served \in [Procs -> {NoCert} \cup
       [host : Hosts, pair : Pairs, at : 0..MaxClock]]
  /\ overlapped \in BOOLEAN

\* What a handshake is answered with, from memory, from disk or new, is a
\* certificate with its own key, of the root that the daemon holds, that had
\* at least renewBefore to live, for a name of the daemon's domain, whatever
\* other processes and crashes have left in the files.
ServedIsSound ==
  \A p \in Procs : served[p] # NoCert =>
    LET pair == served[p].pair
    IN  /\ pair.cert.key = pair.key
        /\ pair.cert.root = proc[p].root.key
        /\ served[p].at + Renew <= pair.cert.until
        /\ ValidHost(served[p].host, proc[p].domain)

\* Unless two processes created a root at the same time, a root certificate on
\* disk has its key beside it, so the next start loads it, and every process
\* that got through its start holds that very root, the one that is trusted.
RootUsable ==
  ~overlapped =>
    /\ rootCert # NoCert => rootKey = rootCert.key
    /\ \A p \in Procs : proc[p].pc \in Running =>
         proc[p].root = rootCert /\ proc[p].domain = rootCert.domain

\* No start, crash or change of the configured domain replaces a root
\* certificate that is on disk, where only an overlap of two starts can.
RootKept == [][rootCert # NoCert /\ ~overlapped => rootCert' = rootCert]_vars

=============================================================================
