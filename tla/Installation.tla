---------------------------- MODULE Installation ----------------------------
(***************************************************************************)
(* install and uninstall: two procedures over the state directory and the  *)
(* operating system (resolver files, trust settings, the System keychain,  *)
(* launchd), each step of which may fail, and either of which may be cut   *)
(* off anywhere.  What one run leaves behind is what the next one finds.   *)
(*                                                                         *)
(* The administrator runs one command at a time, with any domain in its    *)
(* environment: uninstall is to find the installed domain by itself.  The  *)
(* root CA is a number, new for each root; creating it is one step here    *)
(* (CertStore has its two files), and so is writing a resolver file or     *)
(* the plist, of which only the existence matters.  The record of the      *)
(* installed domain is truncated, then written.                            *)
(***************************************************************************)
EXTENDS Naturals

CONSTANTS
  Domains,   \* valid development domains
  MaxRoots   \* bound: root CAs created

ASSUME InstallationAssumption == MaxRoots \in Nat

VARIABLES
  stateDir,  \* the state directory exists
  record,    \* <state>/domain
  root,      \* ca/root.crt, and the domain it covers
  roots,     \* root CAs created so far
  resolver,  \* the domains that have a file in /etc/resolver
  trusted,   \* the root CAs with trust settings
  keychain,  \* the root CAs in the System keychain
  plist,     \* the LaunchDaemon's plist exists
  loaded,    \* launchd runs the service
  op,        \* the command under way
  removed,   \* the last uninstall reported that everything was removed
  orphans,   \* resolver files left by an uninstall that could not read the
             \* record
  misread,   \* launchctl failed on a running service with the input/output
             \* error that is taken for its absence
  strays     \* root CAs whose file an uninstall removed although they were
             \* still in the system: it had taken an error of security for
             \* their absence

state  == <<stateDir, record, root>>
system == <<resolver, trusted, keychain, plist, loaded>>
report == <<removed, orphans, misread, strays>>
vars   == <<state, roots, system, op, report>>

None   == "none"
Torn   == "torn"     \* truncated and not yet written, or not valid
NoRoot == [id |-> 0]
Idle   == [kind |-> "idle"]
Ids    == 1..MaxRoots

\* The steps in their order; a command is at the step it takes next.
InstallSteps ==
  {"stateDir", "root", "truncate", "record", "trust", "resolver", "plist",
   "bootout", "bootstrap"}
UninstallSteps ==
  {"bootout", "plist", "resolver", "settings", "keychain", "state"}

Init ==
  /\ stateDir = FALSE /\ record = None /\ root = NoRoot /\ roots = 0
  /\ resolver = {} /\ trusted = {} /\ keychain = {}
  /\ plist = FALSE /\ loaded = FALSE
  /\ op = Idle /\ removed = FALSE
  /\ orphans = {} /\ misread = FALSE /\ strays = {}

At(kind, step) == op.kind = kind /\ op.step = step

GoTo(step) == op' = [op EXCEPT !.step = step]

(***************************************************************************)
(* install.                                                                *)
(***************************************************************************)

\* The domain, from --domain or the environment, is valid and not reserved.
Install(d) ==
  /\ op = Idle
  /\ op' = [kind |-> "install", step |-> "stateDir", domain |-> d]
  /\ removed' = FALSE
  /\ UNCHANGED <<state, roots, system, orphans, misread, strays>>

\* MkdirAll, and the owner's record.
MakeStateDir ==
  /\ At("install", "stateDir")
  /\ stateDir' = TRUE
  /\ GoTo("root")
  /\ UNCHANGED <<record, root, roots, system, report>>

\* LoadOrCreate: a root of another domain is refused (Cut).
LoadOrCreateRoot ==
  /\ At("install", "root")
  /\ \/ root # NoRoot /\ root.domain = op.domain /\ UNCHANGED <<root, roots>>
     \/ /\ root = NoRoot /\ roots < MaxRoots
        /\ roots' = roots + 1
        /\ root' = [id |-> roots', domain |-> op.domain]
  /\ GoTo("truncate")
  /\ UNCHANGED <<stateDir, record, system, report>>

\* writeDomainRecord is os.WriteFile: truncate, then write.
TruncateRecord ==
  /\ At("install", "truncate")
  /\ record' = Torn
  /\ GoTo("record")
  /\ UNCHANGED <<stateDir, root, roots, system, report>>

WriteRecord ==
  /\ At("install", "record")
  /\ record' = op.domain
  /\ GoTo("trust")
  /\ UNCHANGED <<stateDir, root, roots, system, report>>

\* security add-trusted-cert of the certificate at the root's path.
InstallTrust ==
  /\ At("install", "trust")
  /\ root # NoRoot
  /\ trusted' = trusted \cup {root.id} /\ keychain' = keychain \cup {root.id}
  /\ GoTo("resolver")
  /\ UNCHANGED <<state, roots, resolver, plist, loaded, report>>

InstallResolver ==
  /\ At("install", "resolver")
  /\ resolver' = resolver \cup {op.domain} /\ orphans' = orphans \ {op.domain}
  /\ GoTo("plist")
  /\ UNCHANGED <<state, roots, trusted, keychain, plist, loaded, removed, misread,
                 strays>>

\* InstallService, in three steps: write the plist, boot an earlier service
\* out, whatever comes of it, and bootstrap, which fails on one that is there.
WritePlist ==
  /\ At("install", "plist")
  /\ plist' = TRUE
  /\ GoTo("bootout")
  /\ UNCHANGED <<state, roots, resolver, trusted, keychain, loaded, report>>

BootEarlierOut ==
  /\ At("install", "bootout")
  /\ loaded' \in {FALSE, loaded}
  /\ GoTo("bootstrap")
  /\ UNCHANGED <<state, roots, resolver, trusted, keychain, plist, report>>

Bootstrap ==
  /\ At("install", "bootstrap")
  /\ ~loaded
  /\ loaded' = TRUE /\ misread' = FALSE
  /\ op' = Idle
  /\ UNCHANGED <<state, roots, resolver, trusted, keychain, plist, removed, orphans,
                 strays>>

(***************************************************************************)
(* uninstall.                                                              *)
(***************************************************************************)

Begin(d) ==
  /\ op = Idle
  /\ op' = [kind |-> "uninstall", step |-> "bootout", failed |-> FALSE,
            missed |-> FALSE, domain |-> d, guessed |-> record = Torn]
  /\ removed' = FALSE
  /\ UNCHANGED <<state, roots, system, orphans, misread, strays>>

\* Mutant: the environment's domain wins.
UninstallOfEnvironment(env) == Begin(env)

\* The recorded domain wins over the environment's, if it can be read.
Uninstall(env) == Begin(IF record \in Domains THEN record ELSE env)

\* launchctl bootout: it works, or says that there is no service, or says
\* what is taken for that.  Any other error ends the command (Cut).
Bootout ==
  /\ At("uninstall", "bootout")
  /\ \/ loaded' = FALSE /\ UNCHANGED misread
     \/ loaded /\ misread' = TRUE /\ UNCHANGED loaded
  /\ GoTo("plist")
  /\ UNCHANGED <<state, roots, resolver, trusted, keychain, plist, removed, orphans,
                 strays>>

RemovePlist ==
  /\ At("uninstall", "plist")
  /\ plist' = FALSE
  /\ GoTo("resolver")
  /\ UNCHANGED <<state, roots, resolver, trusted, keychain, loaded, report>>

\* The steps for the resolver and the trust are independent: one that fails
\* is remembered, and the other is taken all the same.
Failed(next) == op' = [op EXCEPT !.failed = TRUE, !.step = next]

UninstallResolver ==
  /\ At("uninstall", "resolver")
  /\ \/ resolver' = resolver \ {op.domain} /\ GoTo("settings")
     \/ Failed("settings") /\ UNCHANGED resolver
  /\ UNCHANGED <<state, roots, trusted, keychain, plist, loaded, report>>

\* An error of security that reads as if the target were absent counts as
\* success; the target is still there.
Missed(next) == op' = [op EXCEPT !.missed = TRUE, !.step = next]

\* UninstallTrust, in two steps, of the certificate on disk; no certificate,
\* nothing to remove.  Settings or a certificate that are not there are no
\* failure, and what is taken for that is none either.
RemoveSettings ==
  /\ At("uninstall", "settings")
  /\ \/ root = NoRoot /\ GoTo("state") /\ UNCHANGED trusted
     \/ root # NoRoot /\ trusted' = trusted \ {root.id} /\ GoTo("keychain")
     \/ root # NoRoot /\ root.id \in trusted /\ Missed("keychain") /\ UNCHANGED trusted
     \/ root # NoRoot /\ Failed("state") /\ UNCHANGED trusted
  /\ UNCHANGED <<state, roots, resolver, keychain, plist, loaded, report>>

DeleteCertificate ==
  /\ At("uninstall", "keychain")
  /\ \/ keychain' = keychain \ {root.id} /\ GoTo("state")
     \/ root.id \in keychain /\ Missed("state") /\ UNCHANGED keychain
     \/ Failed("state") /\ UNCHANGED keychain
  /\ UNCHANGED <<state, roots, resolver, trusted, plist, loaded, report>>

\* What goes with the state directory: with the record, the resolvers that it
\* did not name; with the root's file, a root that is still in the system.
Forget ==
  /\ orphans' = IF op.guessed THEN resolver ELSE orphans
  /\ strays' = IF op.missed /\ root' = NoRoot THEN trusted \cup keychain ELSE strays

\* All of the state directory goes.
Removed ==
  /\ stateDir' = FALSE /\ record' = None /\ root' = NoRoot
  /\ removed' = TRUE
  /\ Forget

\* Mutant: the state goes even if a step failed.
RemoveStateAnyway ==
  /\ At("uninstall", "state")
  /\ Removed
  /\ op' = Idle
  /\ UNCHANGED <<roots, system, misread>>

\* RemoveAll, if nothing failed; when it fails, or is cut off, some of the
\* state directory goes.
RemoveState ==
  /\ At("uninstall", "state")
  /\ \/ op.failed /\ UNCHANGED <<state, removed, orphans, strays>>
     \/ ~op.failed /\ Removed
     \/ /\ ~op.failed
        /\ record' \in {record, None} /\ root' \in {root, NoRoot}
        /\ Forget
        /\ UNCHANGED <<stateDir, removed>>
  /\ op' = Idle
  /\ UNCHANGED <<roots, system, misread>>

\* An error that ends the command, or a crash, between any two steps.
Cut ==
  /\ op # Idle
  /\ op' = Idle
  /\ UNCHANGED <<state, roots, system, report>>

Next ==
  \/ \E d \in Domains : Install(d) \/ Uninstall(d)
  \/ MakeStateDir \/ LoadOrCreateRoot \/ TruncateRecord \/ WriteRecord
  \/ InstallTrust \/ InstallResolver \/ WritePlist \/ BootEarlierOut \/ Bootstrap
  \/ Bootout \/ RemovePlist \/ UninstallResolver \/ RemoveSettings
  \/ DeleteCertificate \/ RemoveState \/ Cut

Spec == Init /\ [][Next]_vars

(***************************************************************************)
(* Properties.                                                             *)
(***************************************************************************)

\* The shape of the state.
TypeOK ==
  /\ stateDir \in BOOLEAN /\ record \in Domains \cup {None, Torn}
  /\ root \in {NoRoot} \cup [id : Ids, domain : Domains] /\ roots \in 0..MaxRoots
  /\ resolver \subseteq Domains /\ trusted \subseteq Ids /\ keychain \subseteq Ids
  /\ plist \in BOOLEAN /\ loaded \in BOOLEAN
  /\ op \in {Idle} \cup
       [kind : {"install"}, step : InstallSteps, domain : Domains] \cup
       [kind : {"uninstall"}, step : UninstallSteps, failed : BOOLEAN,
        missed : BOOLEAN, domain : Domains, guessed : BOOLEAN]
  /\ removed \in BOOLEAN /\ orphans \subseteq Domains /\ misread \in BOOLEAN
  /\ strays \subseteq Ids

\* Whatever an installation or a removal that was cut off or failed has left
\* in the system, the state directory still has what the next uninstall needs
\* to find it: the record of the one domain that has a resolver (unless the
\* record itself was cut short), and the one root that is trusted or in the
\* keychain (unless an uninstall was told, wrongly, that it is not).
Recoverable ==
  /\ resolver \ orphans # {} => record = Torn \/ resolver \ orphans = {record}
  /\ (trusted \cup keychain) \ strays # {} =>
       root # NoRoot /\ (trusted \cup keychain) \ strays = {root.id}

\* When uninstall says that everything was removed, nothing is left: no state,
\* no plist, no resolver unless a record could not be read, no trust and no
\* certificate unless an error of security was misread, and no service unless
\* one of launchctl was.
NothingLeftBehind ==
  removed =>
    /\ ~stateDir /\ record = None /\ root = NoRoot
    /\ trusted \cup keychain \subseteq strays /\ resolver \subseteq orphans
    /\ ~plist /\ (loaded => misread)

=============================================================================
