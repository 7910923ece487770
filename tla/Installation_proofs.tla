------------------------- MODULE Installation_proofs -------------------------
(***************************************************************************)
(* Proofs about Installation, for any set of domains and any number of     *)
(* root CAs.                                                               *)
(*                                                                         *)
(* Recoverable and NothingLeftBehind say nothing of a command that is      *)
(* under way.  The inductive invariant adds what each step leaves to the   *)
(* ones after it: that the root, then the record, are those of the domain  *)
(* before an installation touches the system, and that an uninstall that   *)
(* has not failed so far, and misread no error, has removed what its steps *)
(* were for.                                                               *)
(***************************************************************************)
EXTENDS Installation, TLAPS

InstallOps == [kind : {"install"}, step : InstallSteps, domain : Domains]
UninstallOps ==
  [kind : {"uninstall"}, step : UninstallSteps, failed : BOOLEAN,
   missed : BOOLEAN, domain : Domains, guessed : BOOLEAN]

\* A resolver is that of the root's domain, which the record names or will.
ResolverInv ==
  \A d \in resolver \ orphans :
    root # NoRoot /\ root.domain = d /\ record \in {Torn, d}

\* What is trusted is the root on disk, or was lost by an uninstall that took
\* it for removed.
TrustInv ==
  \A i \in (trusted \cup keychain) \ strays : root # NoRoot /\ root.id = i

\* What the steps of an installation that are done have left.
InstallInv ==
  op.kind = "install" =>
    /\ op.step \notin {"stateDir", "root"} => root # NoRoot /\ root.domain = op.domain
    /\ op.step \notin {"stateDir", "root", "truncate", "record"} => record = op.domain

\* What the steps of an uninstall that are done have removed.
UninstallInv ==
  op.kind = "uninstall" =>
    /\ op.guessed <=> record = Torn
    /\ record \in Domains => op.domain = record
    /\ op.step # "bootout" => (loaded => misread)
    /\ op.step \notin {"bootout", "plist"} => ~plist
    /\ op.step \in {"settings", "keychain", "state"} /\ ~op.failed /\ ~op.guessed =>
         resolver \subseteq orphans
    /\ op.step = "keychain" => root # NoRoot
    /\ op.step = "keychain" /\ ~op.missed => root.id \notin trusted
    /\ op.step = "state" /\ ~op.failed /\ ~op.missed =>
         trusted \cup keychain \subseteq strays

\* A success is reported by an uninstall that is over.
ReportInv == NothingLeftBehind /\ (removed => op = Idle)

IInv ==
  /\ TypeOK /\ ResolverInv /\ TrustInv /\ InstallInv /\ UninstallInv /\ ReportInv

\* The initial state is one that nothing was installed on.
LEMMA InitInv == Init => IInv
<1> SUFFICES ASSUME Init PROVE IInv
  OBVIOUS
<1>1. TypeOK
  <2>1. /\ roots \in 0..MaxRoots /\ op = Idle
        /\ record = None /\ root = NoRoot /\ resolver = {} /\ orphans = {}
        /\ strays = {} /\ trusted = {} /\ keychain = {}
    BY InstallationAssumption DEF Init
  <2>2. /\ stateDir \in BOOLEAN /\ plist \in BOOLEAN /\ loaded \in BOOLEAN
        /\ removed \in BOOLEAN /\ misread \in BOOLEAN
    BY DEF Init
  <2>3. QED
    BY <2>1, <2>2 DEF TypeOK
<1>2. ResolverInv /\ TrustInv
  BY DEF Init, ResolverInv, TrustInv
<1>3. InstallInv /\ UninstallInv
  BY DEF Init, InstallInv, UninstallInv, Idle
<1>4. ReportInv
  BY DEF Init, ReportInv, NothingLeftBehind
<1>5. QED
  BY <1>1, <1>2, <1>3, <1>4 DEF IInv

\* Every step keeps the types.
LEMMA TypeStep == TypeOK /\ [Next]_vars => TypeOK'
<1> SUFFICES ASSUME TypeOK, [Next]_vars PROVE TypeOK'
  OBVIOUS
<1> USE InstallationAssumption
<1>1. CASE UNCHANGED vars
  BY <1>1 DEF vars, state, system, report, TypeOK, Idle, Ids, InstallSteps,
    UninstallSteps, NoRoot
<1>2. ASSUME NEW d \in Domains, Install(d) PROVE TypeOK'
  BY <1>2 DEF Install, Idle, state, system, TypeOK, Ids, InstallSteps,
    UninstallSteps, NoRoot
<1>3. ASSUME NEW d \in Domains, Uninstall(d) PROVE TypeOK'
  BY <1>3 DEF Uninstall, Begin, Idle, state, system, TypeOK, Ids, InstallSteps,
    UninstallSteps, NoRoot
<1>4. CASE MakeStateDir
  BY <1>4 DEF MakeStateDir, At, GoTo, system, report, TypeOK, Idle, Ids,
    InstallSteps, UninstallSteps, NoRoot
<1>5. CASE LoadOrCreateRoot
  BY <1>5 DEF LoadOrCreateRoot, At, GoTo, system, report, NoRoot, TypeOK, Idle, Ids,
    InstallSteps, UninstallSteps
<1>6. CASE TruncateRecord
  BY <1>6 DEF TruncateRecord, At, GoTo, system, report, TypeOK, Idle, Ids,
    InstallSteps, UninstallSteps, NoRoot
<1>7. CASE WriteRecord
  BY <1>7 DEF WriteRecord, At, GoTo, system, report, TypeOK, Idle, Ids,
    InstallSteps, UninstallSteps, NoRoot
<1>8. CASE InstallTrust
  BY <1>8 DEF InstallTrust, At, GoTo, state, report, NoRoot, TypeOK, Idle, Ids,
    InstallSteps, UninstallSteps
<1>9. CASE InstallResolver
  BY <1>9 DEF InstallResolver, At, GoTo, state, TypeOK, Idle, Ids, InstallSteps,
    UninstallSteps, NoRoot
<1>10. CASE WritePlist
  BY <1>10 DEF WritePlist, At, GoTo, state, report, TypeOK, Idle, Ids, InstallSteps,
    UninstallSteps, NoRoot
<1>11. CASE BootEarlierOut
  BY <1>11 DEF BootEarlierOut, At, GoTo, state, report, TypeOK, Idle, Ids,
    InstallSteps, UninstallSteps, NoRoot
<1>12. CASE Bootstrap
  BY <1>12 DEF Bootstrap, At, Idle, state, TypeOK, Ids, InstallSteps, UninstallSteps,
    NoRoot
<1>13. CASE Bootout
  BY <1>13 DEF Bootout, At, GoTo, state, TypeOK, Idle, Ids, InstallSteps,
    UninstallSteps, NoRoot
<1>14. CASE RemovePlist
  BY <1>14 DEF RemovePlist, At, GoTo, state, report, TypeOK, Idle, Ids, InstallSteps,
    UninstallSteps, NoRoot
<1>15. CASE UninstallResolver
  BY <1>15 DEF UninstallResolver, At, GoTo, Failed, state, report, TypeOK, Idle, Ids,
    InstallSteps, UninstallSteps, NoRoot
<1>16. CASE RemoveSettings
  BY <1>16 DEF RemoveSettings, At, GoTo, Failed, Missed, state, report, NoRoot,
    TypeOK, Idle, Ids, InstallSteps, UninstallSteps
<1>17. CASE DeleteCertificate
  BY <1>17 DEF DeleteCertificate, At, GoTo, Failed, Missed, state, report, TypeOK, Idle, Ids,
    InstallSteps, UninstallSteps, NoRoot
<1>18. CASE RemoveState
  BY <1>18 DEF RemoveState, At, Removed, Forget, Idle, state, system, NoRoot, TypeOK, Ids,
    InstallSteps, UninstallSteps
<1>19. CASE Cut
  BY <1>19 DEF Cut, Idle, state, system, report, TypeOK, Ids, InstallSteps,
    UninstallSteps, NoRoot
<1>20. QED
  BY <1>1, <1>2, <1>3, <1>4, <1>5, <1>6, <1>7, <1>8, <1>9, <1>10, <1>11,
    <1>12, <1>13, <1>14, <1>15, <1>16, <1>17, <1>18, <1>19 DEF Next

\* Every step keeps a resolver's domain that of the root, and of the record.
LEMMA ResolverStep == IInv /\ [Next]_vars => ResolverInv'
<1> SUFFICES ASSUME TypeOK, ResolverInv, InstallInv, UninstallInv, [Next]_vars
             PROVE  ResolverInv'
  BY DEF IInv
<1> USE InstallationAssumption
<1>1. CASE UNCHANGED vars
  BY <1>1 DEF vars, state, system, report, TypeOK, Idle, Ids, InstallSteps,
    UninstallSteps, NoRoot, ResolverInv, InstallInv, UninstallInv
<1>2. ASSUME NEW d \in Domains, Install(d) PROVE ResolverInv'
  BY <1>2 DEF Install, Idle, state, system, TypeOK, Ids, InstallSteps,
    UninstallSteps, NoRoot, ResolverInv, InstallInv, UninstallInv
<1>3. ASSUME NEW d \in Domains, Uninstall(d) PROVE ResolverInv'
  BY <1>3 DEF Uninstall, Begin, Idle, state, system, TypeOK, Ids, InstallSteps,
    UninstallSteps, NoRoot, ResolverInv, InstallInv, UninstallInv
<1>4. CASE MakeStateDir
  BY <1>4 DEF MakeStateDir, At, GoTo, system, report, TypeOK, Idle, Ids,
    InstallSteps, UninstallSteps, NoRoot, ResolverInv, InstallInv,
    UninstallInv
<1>5. CASE LoadOrCreateRoot
  BY <1>5 DEF LoadOrCreateRoot, At, GoTo, system, report, NoRoot, TypeOK, Idle, Ids,
    InstallSteps, UninstallSteps, ResolverInv, InstallInv, UninstallInv
<1>6. CASE TruncateRecord
  BY <1>6 DEF TruncateRecord, At, GoTo, system, report, TypeOK, Idle, Ids,
    InstallSteps, UninstallSteps, NoRoot, ResolverInv, InstallInv,
    UninstallInv
<1>7. CASE WriteRecord
  BY <1>7 DEF WriteRecord, At, GoTo, system, report, TypeOK, Idle, Ids,
    InstallSteps, UninstallSteps, NoRoot, ResolverInv, InstallInv,
    UninstallInv
<1>8. CASE InstallTrust
  BY <1>8 DEF InstallTrust, At, GoTo, state, report, NoRoot, TypeOK, Idle, Ids,
    InstallSteps, UninstallSteps, ResolverInv, InstallInv, UninstallInv
<1>9. CASE InstallResolver
  BY <1>9 DEF InstallResolver, At, GoTo, state, TypeOK, Idle, Ids, InstallSteps,
    UninstallSteps, NoRoot, ResolverInv, InstallInv, UninstallInv
<1>10. CASE WritePlist
  BY <1>10 DEF WritePlist, At, GoTo, state, report, TypeOK, Idle, Ids, InstallSteps,
    UninstallSteps, NoRoot, ResolverInv, InstallInv, UninstallInv
<1>11. CASE BootEarlierOut
  BY <1>11 DEF BootEarlierOut, At, GoTo, state, report, TypeOK, Idle, Ids,
    InstallSteps, UninstallSteps, NoRoot, ResolverInv, InstallInv,
    UninstallInv
<1>12. CASE Bootstrap
  BY <1>12 DEF Bootstrap, At, Idle, state, TypeOK, Ids, InstallSteps, UninstallSteps,
    NoRoot, ResolverInv, InstallInv, UninstallInv
<1>13. CASE Bootout
  BY <1>13 DEF Bootout, At, GoTo, state, TypeOK, Idle, Ids, InstallSteps,
    UninstallSteps, NoRoot, ResolverInv, InstallInv, UninstallInv
<1>14. CASE RemovePlist
  BY <1>14 DEF RemovePlist, At, GoTo, state, report, TypeOK, Idle, Ids, InstallSteps,
    UninstallSteps, NoRoot, ResolverInv, InstallInv, UninstallInv
<1>15. CASE UninstallResolver
  BY <1>15 DEF UninstallResolver, At, GoTo, Failed, state, report, TypeOK, Idle, Ids,
    InstallSteps, UninstallSteps, NoRoot, ResolverInv, InstallInv,
    UninstallInv
<1>16. CASE RemoveSettings
  BY <1>16 DEF RemoveSettings, At, GoTo, Failed, Missed, state, report, NoRoot,
    TypeOK, Idle, Ids, InstallSteps, UninstallSteps, ResolverInv, InstallInv,
    UninstallInv
<1>17. CASE DeleteCertificate
  BY <1>17 DEF DeleteCertificate, At, GoTo, Failed, Missed, state, report, TypeOK, Idle, Ids,
    InstallSteps, UninstallSteps, NoRoot, ResolverInv, InstallInv,
    UninstallInv
<1>18. CASE RemoveState
  BY <1>18 DEF RemoveState, At, Removed, Forget, Idle, state, system, NoRoot, TypeOK, Ids,
    InstallSteps, UninstallSteps, ResolverInv, InstallInv, UninstallInv
<1>19. CASE Cut
  BY <1>19 DEF Cut, Idle, state, system, report, TypeOK, Ids, InstallSteps,
    UninstallSteps, NoRoot, ResolverInv, InstallInv, UninstallInv
<1>20. QED
  BY <1>1, <1>2, <1>3, <1>4, <1>5, <1>6, <1>7, <1>8, <1>9, <1>10, <1>11,
    <1>12, <1>13, <1>14, <1>15, <1>16, <1>17, <1>18, <1>19 DEF Next

\* Every step keeps what is trusted on disk.
LEMMA TrustStep == IInv /\ [Next]_vars => TrustInv'
<1> SUFFICES ASSUME TypeOK, TrustInv, UninstallInv, [Next]_vars PROVE TrustInv'
  BY DEF IInv
<1> USE InstallationAssumption
<1>1. CASE UNCHANGED vars
  BY <1>1 DEF vars, state, system, report, TypeOK, Idle, Ids, InstallSteps,
    UninstallSteps, NoRoot, TrustInv, UninstallInv
<1>2. ASSUME NEW d \in Domains, Install(d) PROVE TrustInv'
  BY <1>2 DEF Install, Idle, state, system, TypeOK, Ids, InstallSteps,
    UninstallSteps, NoRoot, TrustInv, UninstallInv
<1>3. ASSUME NEW d \in Domains, Uninstall(d) PROVE TrustInv'
  BY <1>3 DEF Uninstall, Begin, Idle, state, system, TypeOK, Ids, InstallSteps,
    UninstallSteps, NoRoot, TrustInv, UninstallInv
<1>4. CASE MakeStateDir
  BY <1>4 DEF MakeStateDir, At, GoTo, system, report, TypeOK, Idle, Ids,
    InstallSteps, UninstallSteps, NoRoot, TrustInv, UninstallInv
<1>5. CASE LoadOrCreateRoot
  BY <1>5 DEF LoadOrCreateRoot, At, GoTo, system, report, NoRoot, TypeOK, Idle, Ids,
    InstallSteps, UninstallSteps, TrustInv, UninstallInv
<1>6. CASE TruncateRecord
  BY <1>6 DEF TruncateRecord, At, GoTo, system, report, TypeOK, Idle, Ids,
    InstallSteps, UninstallSteps, NoRoot, TrustInv, UninstallInv
<1>7. CASE WriteRecord
  BY <1>7 DEF WriteRecord, At, GoTo, system, report, TypeOK, Idle, Ids,
    InstallSteps, UninstallSteps, NoRoot, TrustInv, UninstallInv
<1>8. CASE InstallTrust
  BY <1>8 DEF InstallTrust, At, GoTo, state, report, NoRoot, TypeOK, Idle, Ids,
    InstallSteps, UninstallSteps, TrustInv, UninstallInv
<1>9. CASE InstallResolver
  BY <1>9 DEF InstallResolver, At, GoTo, state, TypeOK, Idle, Ids, InstallSteps,
    UninstallSteps, NoRoot, TrustInv, UninstallInv
<1>10. CASE WritePlist
  BY <1>10 DEF WritePlist, At, GoTo, state, report, TypeOK, Idle, Ids, InstallSteps,
    UninstallSteps, NoRoot, TrustInv, UninstallInv
<1>11. CASE BootEarlierOut
  BY <1>11 DEF BootEarlierOut, At, GoTo, state, report, TypeOK, Idle, Ids,
    InstallSteps, UninstallSteps, NoRoot, TrustInv, UninstallInv
<1>12. CASE Bootstrap
  BY <1>12 DEF Bootstrap, At, Idle, state, TypeOK, Ids, InstallSteps, UninstallSteps,
    NoRoot, TrustInv, UninstallInv
<1>13. CASE Bootout
  BY <1>13 DEF Bootout, At, GoTo, state, TypeOK, Idle, Ids, InstallSteps,
    UninstallSteps, NoRoot, TrustInv, UninstallInv
<1>14. CASE RemovePlist
  BY <1>14 DEF RemovePlist, At, GoTo, state, report, TypeOK, Idle, Ids, InstallSteps,
    UninstallSteps, NoRoot, TrustInv, UninstallInv
<1>15. CASE UninstallResolver
  BY <1>15 DEF UninstallResolver, At, GoTo, Failed, state, report, TypeOK, Idle, Ids,
    InstallSteps, UninstallSteps, NoRoot, TrustInv, UninstallInv
<1>16. CASE RemoveSettings
  BY <1>16 DEF RemoveSettings, At, GoTo, Failed, Missed, state, report, NoRoot,
    TypeOK, Idle, Ids, InstallSteps, UninstallSteps, TrustInv, UninstallInv
<1>17. CASE DeleteCertificate
  BY <1>17 DEF DeleteCertificate, At, GoTo, Failed, Missed, state, report, TypeOK, Idle, Ids,
    InstallSteps, UninstallSteps, NoRoot, TrustInv, UninstallInv
<1>18. CASE RemoveState
  BY <1>18 DEF RemoveState, At, Removed, Forget, Idle, state, system, NoRoot, TypeOK, Ids,
    InstallSteps, UninstallSteps, TrustInv, UninstallInv
<1>19. CASE Cut
  BY <1>19 DEF Cut, Idle, state, system, report, TypeOK, Ids, InstallSteps,
    UninstallSteps, NoRoot, TrustInv, UninstallInv
<1>20. QED
  BY <1>1, <1>2, <1>3, <1>4, <1>5, <1>6, <1>7, <1>8, <1>9, <1>10, <1>11,
    <1>12, <1>13, <1>14, <1>15, <1>16, <1>17, <1>18, <1>19 DEF Next

\* Every step of an installation leaves what the next ones rely on.
LEMMA InstallStep == IInv /\ [Next]_vars => InstallInv'
<1> SUFFICES ASSUME TypeOK, InstallInv, [Next]_vars PROVE InstallInv'
  BY DEF IInv
<1> USE InstallationAssumption
<1>1. CASE UNCHANGED vars
  BY <1>1 DEF vars, state, system, report, TypeOK, Idle, Ids, InstallSteps,
    UninstallSteps, NoRoot, InstallInv
<1>2. ASSUME NEW d \in Domains, Install(d) PROVE InstallInv'
  BY <1>2 DEF Install, Idle, state, system, TypeOK, Ids, InstallSteps,
    UninstallSteps, NoRoot, InstallInv
<1>3. ASSUME NEW d \in Domains, Uninstall(d) PROVE InstallInv'
  BY <1>3 DEF Uninstall, Begin, Idle, state, system, TypeOK, Ids, InstallSteps,
    UninstallSteps, NoRoot, InstallInv
<1>4. CASE MakeStateDir
  BY <1>4 DEF MakeStateDir, At, GoTo, system, report, TypeOK, Idle, Ids,
    InstallSteps, UninstallSteps, NoRoot, InstallInv
<1>5. CASE LoadOrCreateRoot
  BY <1>5 DEF LoadOrCreateRoot, At, GoTo, system, report, NoRoot, TypeOK, Idle, Ids,
    InstallSteps, UninstallSteps, InstallInv
<1>6. CASE TruncateRecord
  BY <1>6 DEF TruncateRecord, At, GoTo, system, report, TypeOK, Idle, Ids,
    InstallSteps, UninstallSteps, NoRoot, InstallInv
<1>7. CASE WriteRecord
  BY <1>7 DEF WriteRecord, At, GoTo, system, report, TypeOK, Idle, Ids,
    InstallSteps, UninstallSteps, NoRoot, InstallInv
<1>8. CASE InstallTrust
  BY <1>8 DEF InstallTrust, At, GoTo, state, report, NoRoot, TypeOK, Idle, Ids,
    InstallSteps, UninstallSteps, InstallInv
<1>9. CASE InstallResolver
  BY <1>9 DEF InstallResolver, At, GoTo, state, TypeOK, Idle, Ids, InstallSteps,
    UninstallSteps, NoRoot, InstallInv
<1>10. CASE WritePlist
  BY <1>10 DEF WritePlist, At, GoTo, state, report, TypeOK, Idle, Ids, InstallSteps,
    UninstallSteps, NoRoot, InstallInv
<1>11. CASE BootEarlierOut
  BY <1>11 DEF BootEarlierOut, At, GoTo, state, report, TypeOK, Idle, Ids,
    InstallSteps, UninstallSteps, NoRoot, InstallInv
<1>12. CASE Bootstrap
  BY <1>12 DEF Bootstrap, At, Idle, state, TypeOK, Ids, InstallSteps, UninstallSteps,
    NoRoot, InstallInv
<1>13. CASE Bootout
  BY <1>13 DEF Bootout, At, GoTo, state, TypeOK, Idle, Ids, InstallSteps,
    UninstallSteps, NoRoot, InstallInv
<1>14. CASE RemovePlist
  BY <1>14 DEF RemovePlist, At, GoTo, state, report, TypeOK, Idle, Ids, InstallSteps,
    UninstallSteps, NoRoot, InstallInv
<1>15. CASE UninstallResolver
  BY <1>15 DEF UninstallResolver, At, GoTo, Failed, state, report, TypeOK, Idle, Ids,
    InstallSteps, UninstallSteps, NoRoot, InstallInv
<1>16. CASE RemoveSettings
  BY <1>16 DEF RemoveSettings, At, GoTo, Failed, Missed, state, report, NoRoot,
    TypeOK, Idle, Ids, InstallSteps, UninstallSteps, InstallInv
<1>17. CASE DeleteCertificate
  BY <1>17 DEF DeleteCertificate, At, GoTo, Failed, Missed, state, report, TypeOK, Idle, Ids,
    InstallSteps, UninstallSteps, NoRoot, InstallInv
<1>18. CASE RemoveState
  BY <1>18 DEF RemoveState, At, Removed, Forget, Idle, state, system, NoRoot, TypeOK, Ids,
    InstallSteps, UninstallSteps, InstallInv
<1>19. CASE Cut
  BY <1>19 DEF Cut, Idle, state, system, report, TypeOK, Ids, InstallSteps,
    UninstallSteps, NoRoot, InstallInv
<1>20. QED
  BY <1>1, <1>2, <1>3, <1>4, <1>5, <1>6, <1>7, <1>8, <1>9, <1>10, <1>11,
    <1>12, <1>13, <1>14, <1>15, <1>16, <1>17, <1>18, <1>19 DEF Next

\* Every step of an uninstall leaves what the next ones rely on.
LEMMA UninstallStep == IInv /\ [Next]_vars => UninstallInv'
<1> SUFFICES ASSUME TypeOK, ResolverInv, TrustInv, UninstallInv, [Next]_vars
             PROVE  UninstallInv'
  BY DEF IInv
<1> USE InstallationAssumption
<1>1. CASE UNCHANGED vars
  BY <1>1 DEF vars, state, system, report, TypeOK, Idle, Ids, InstallSteps,
    UninstallSteps, NoRoot, ResolverInv, TrustInv, UninstallInv
<1>2. ASSUME NEW d \in Domains, Install(d) PROVE UninstallInv'
  BY <1>2 DEF Install, Idle, state, system, TypeOK, Ids, InstallSteps,
    UninstallSteps, NoRoot, ResolverInv, TrustInv, UninstallInv
<1>3. ASSUME NEW d \in Domains, Uninstall(d) PROVE UninstallInv'
  BY <1>3 DEF Uninstall, Begin, Idle, state, system, TypeOK, Ids, InstallSteps,
    UninstallSteps, NoRoot, ResolverInv, TrustInv, UninstallInv
<1>4. CASE MakeStateDir
  BY <1>4 DEF MakeStateDir, At, GoTo, system, report, TypeOK, Idle, Ids,
    InstallSteps, UninstallSteps, NoRoot, ResolverInv, TrustInv,
    UninstallInv
<1>5. CASE LoadOrCreateRoot
  BY <1>5 DEF LoadOrCreateRoot, At, GoTo, system, report, NoRoot, TypeOK, Idle, Ids,
    InstallSteps, UninstallSteps, ResolverInv, TrustInv, UninstallInv
<1>6. CASE TruncateRecord
  BY <1>6 DEF TruncateRecord, At, GoTo, system, report, TypeOK, Idle, Ids,
    InstallSteps, UninstallSteps, NoRoot, ResolverInv, TrustInv,
    UninstallInv
<1>7. CASE WriteRecord
  BY <1>7 DEF WriteRecord, At, GoTo, system, report, TypeOK, Idle, Ids,
    InstallSteps, UninstallSteps, NoRoot, ResolverInv, TrustInv,
    UninstallInv
<1>8. CASE InstallTrust
  BY <1>8 DEF InstallTrust, At, GoTo, state, report, NoRoot, TypeOK, Idle, Ids,
    InstallSteps, UninstallSteps, ResolverInv, TrustInv, UninstallInv
<1>9. CASE InstallResolver
  BY <1>9 DEF InstallResolver, At, GoTo, state, TypeOK, Idle, Ids, InstallSteps,
    UninstallSteps, NoRoot, ResolverInv, TrustInv, UninstallInv
<1>10. CASE WritePlist
  BY <1>10 DEF WritePlist, At, GoTo, state, report, TypeOK, Idle, Ids, InstallSteps,
    UninstallSteps, NoRoot, ResolverInv, TrustInv, UninstallInv
<1>11. CASE BootEarlierOut
  BY <1>11 DEF BootEarlierOut, At, GoTo, state, report, TypeOK, Idle, Ids,
    InstallSteps, UninstallSteps, NoRoot, ResolverInv, TrustInv,
    UninstallInv
<1>12. CASE Bootstrap
  BY <1>12 DEF Bootstrap, At, Idle, state, TypeOK, Ids, InstallSteps, UninstallSteps,
    NoRoot, ResolverInv, TrustInv, UninstallInv
<1>13. CASE Bootout
  BY <1>13 DEF Bootout, At, GoTo, state, TypeOK, Idle, Ids, InstallSteps,
    UninstallSteps, NoRoot, ResolverInv, TrustInv, UninstallInv
<1>14. CASE RemovePlist
  BY <1>14 DEF RemovePlist, At, GoTo, state, report, TypeOK, Idle, Ids, InstallSteps,
    UninstallSteps, NoRoot, ResolverInv, TrustInv, UninstallInv
<1>15. CASE UninstallResolver
  <2> USE DEF TypeOK, Idle, Ids, InstallSteps, UninstallSteps
  <2>1. op \in UninstallOps /\ op.step = "resolver" /\ op.kind = "uninstall"
    BY <1>15 DEF UninstallResolver, At, UninstallOps
  <2>2. UNCHANGED <<record, plist, loaded, orphans, misread>>
    BY <1>15 DEF UninstallResolver, state, report
  <2>3. /\ op.guessed <=> record = Torn
        /\ record \in Domains => op.domain = record
        /\ loaded => misread
        /\ ~plist
    BY <2>1 DEF UninstallInv
  <2>4. CASE resolver' = resolver \ {op.domain} /\ GoTo("settings")
    <3>1. op' = [op EXCEPT !.step = "settings"]
      BY <2>4 DEF GoTo
    <3>2. ~op.guessed => resolver' \subseteq orphans
      BY <2>3, <2>4 DEF ResolverInv
    <3>3. QED
      BY <2>1, <2>2, <2>3, <3>1, <3>2 DEF UninstallInv, UninstallOps
  <2>5. CASE Failed("settings")
    <3>1. op' = [op EXCEPT !.failed = TRUE, !.step = "settings"]
      BY <2>5 DEF Failed
    <3>2. QED
      BY <2>1, <2>2, <2>3, <3>1 DEF UninstallInv, UninstallOps
  <2>6. QED
    BY <1>15, <2>4, <2>5 DEF UninstallResolver
<1>16. CASE RemoveSettings
  <2> USE DEF TypeOK, Idle, Ids, InstallSteps, UninstallSteps
  <2>1. op \in UninstallOps /\ op.step = "settings" /\ op.kind = "uninstall"
    BY <1>16 DEF RemoveSettings, At, UninstallOps
  <2>2. UNCHANGED <<stateDir, record, root, resolver, keychain, plist, loaded,
                    orphans, misread, strays>>
    BY <1>16 DEF RemoveSettings, state, report
  <2>3. /\ op.guessed <=> record = Torn
        /\ record \in Domains => op.domain = record
        /\ loaded => misread
        /\ ~plist
        /\ ~op.failed /\ ~op.guessed => resolver \subseteq orphans
    BY <2>1 DEF UninstallInv
  <2>4. CASE root = NoRoot /\ GoTo("state") /\ UNCHANGED trusted
    <3>1. op' = [op EXCEPT !.step = "state"]
      BY <2>4 DEF GoTo
    <3>2. trusted \cup keychain \subseteq strays
      BY <2>4 DEF TrustInv
    <3>3. QED
      BY <2>1, <2>2, <2>3, <2>4, <3>1, <3>2 DEF UninstallInv, UninstallOps
  <2>5. CASE root # NoRoot /\ trusted' = trusted \ {root.id} /\ GoTo("keychain")
    <3>1. op' = [op EXCEPT !.step = "keychain"]
      BY <2>5 DEF GoTo
    <3>2. QED
      BY <2>1, <2>2, <2>3, <2>5, <3>1 DEF UninstallInv, UninstallOps
  <2>6. CASE root # NoRoot /\ Failed("state") /\ UNCHANGED trusted
    <3>1. op' = [op EXCEPT !.failed = TRUE, !.step = "state"]
      BY <2>6 DEF Failed
    <3>2. QED
      BY <2>1, <2>2, <2>3, <2>6, <3>1 DEF UninstallInv, UninstallOps
  <2>7. CASE root # NoRoot /\ Missed("keychain") /\ UNCHANGED trusted
    <3>1. op' = [op EXCEPT !.missed = TRUE, !.step = "keychain"]
      BY <2>7 DEF Missed
    <3>2. QED
      BY <2>1, <2>2, <2>3, <2>7, <3>1 DEF UninstallInv, UninstallOps
  <2>8. QED
    BY <1>16, <2>4, <2>5, <2>6, <2>7 DEF RemoveSettings
<1>17. CASE DeleteCertificate
  <2> USE DEF TypeOK, Idle, Ids, InstallSteps, UninstallSteps
  <2>1. op \in UninstallOps /\ op.step = "keychain" /\ op.kind = "uninstall"
    BY <1>17 DEF DeleteCertificate, At, UninstallOps
  <2>2. UNCHANGED <<record, root, resolver, trusted, plist, loaded, orphans, misread,
                    strays>>
    BY <1>17 DEF DeleteCertificate, state, report
  <2>3. /\ op.guessed <=> record = Torn
        /\ record \in Domains => op.domain = record
        /\ loaded => misread
        /\ ~plist
        /\ ~op.failed /\ ~op.guessed => resolver \subseteq orphans
        /\ root # NoRoot
        /\ ~op.missed => root.id \notin trusted
    BY <2>1 DEF UninstallInv
  <2>4. CASE keychain' = keychain \ {root.id} /\ GoTo("state")
    <3>1. op' = [op EXCEPT !.step = "state"]
      BY <2>4 DEF GoTo
    <3>2. ~op.missed => trusted \cup keychain' \subseteq strays
      BY <2>3, <2>4 DEF TrustInv
    <3>3. QED
      BY <2>1, <2>2, <2>3, <3>1, <3>2 DEF UninstallInv, UninstallOps
  <2>5. CASE Missed("state")
    <3>1. op' = [op EXCEPT !.missed = TRUE, !.step = "state"]
      BY <2>5 DEF Missed
    <3>2. QED
      BY <2>1, <2>2, <2>3, <3>1 DEF UninstallInv, UninstallOps
  <2>6. CASE Failed("state")
    <3>1. op' = [op EXCEPT !.failed = TRUE, !.step = "state"]
      BY <2>6 DEF Failed
    <3>2. QED
      BY <2>1, <2>2, <2>3, <3>1 DEF UninstallInv, UninstallOps
  <2>7. QED
    BY <1>17, <2>4, <2>5, <2>6 DEF DeleteCertificate
<1>18. CASE RemoveState
  BY <1>18 DEF RemoveState, At, Removed, Forget, Idle, state, system, NoRoot, TypeOK, Ids,
    InstallSteps, UninstallSteps, ResolverInv, TrustInv, UninstallInv
<1>19. CASE Cut
  BY <1>19 DEF Cut, Idle, state, system, report, TypeOK, Ids, InstallSteps,
    UninstallSteps, NoRoot, ResolverInv, TrustInv, UninstallInv
<1>20. QED
  BY <1>1, <1>2, <1>3, <1>4, <1>5, <1>6, <1>7, <1>8, <1>9, <1>10, <1>11,
    <1>12, <1>13, <1>14, <1>15, <1>16, <1>17, <1>18, <1>19 DEF Next

\* Every step keeps the report of a success true.
LEMMA ReportStep == IInv /\ [Next]_vars => ReportInv'
<1> SUFFICES ASSUME TypeOK, UninstallInv, ReportInv, [Next]_vars PROVE ReportInv'
  BY DEF IInv
<1> USE InstallationAssumption
<1>1. CASE UNCHANGED vars
  BY <1>1 DEF vars, state, system, report, TypeOK, Idle, Ids, InstallSteps,
    UninstallSteps, NoRoot, UninstallInv, ReportInv, NothingLeftBehind
<1>2. ASSUME NEW d \in Domains, Install(d) PROVE ReportInv'
  BY <1>2 DEF Install, Idle, state, system, TypeOK, Ids, InstallSteps,
    UninstallSteps, NoRoot, UninstallInv, ReportInv, NothingLeftBehind
<1>3. ASSUME NEW d \in Domains, Uninstall(d) PROVE ReportInv'
  BY <1>3 DEF Uninstall, Begin, Idle, state, system, TypeOK, Ids, InstallSteps,
    UninstallSteps, NoRoot, UninstallInv, ReportInv, NothingLeftBehind
<1>4. CASE MakeStateDir
  BY <1>4 DEF MakeStateDir, At, GoTo, system, report, TypeOK, Idle, Ids,
    InstallSteps, UninstallSteps, NoRoot, UninstallInv, ReportInv,
    NothingLeftBehind
<1>5. CASE LoadOrCreateRoot
  BY <1>5 DEF LoadOrCreateRoot, At, GoTo, system, report, NoRoot, TypeOK, Idle, Ids,
    InstallSteps, UninstallSteps, UninstallInv, ReportInv,
    NothingLeftBehind
<1>6. CASE TruncateRecord
  BY <1>6 DEF TruncateRecord, At, GoTo, system, report, TypeOK, Idle, Ids,
    InstallSteps, UninstallSteps, NoRoot, UninstallInv, ReportInv,
    NothingLeftBehind
<1>7. CASE WriteRecord
  BY <1>7 DEF WriteRecord, At, GoTo, system, report, TypeOK, Idle, Ids,
    InstallSteps, UninstallSteps, NoRoot, UninstallInv, ReportInv,
    NothingLeftBehind
<1>8. CASE InstallTrust
  BY <1>8 DEF InstallTrust, At, GoTo, state, report, NoRoot, TypeOK, Idle, Ids,
    InstallSteps, UninstallSteps, UninstallInv, ReportInv,
    NothingLeftBehind
<1>9. CASE InstallResolver
  BY <1>9 DEF InstallResolver, At, GoTo, state, TypeOK, Idle, Ids, InstallSteps,
    UninstallSteps, NoRoot, UninstallInv, ReportInv, NothingLeftBehind
<1>10. CASE WritePlist
  BY <1>10 DEF WritePlist, At, GoTo, state, report, TypeOK, Idle, Ids, InstallSteps,
    UninstallSteps, NoRoot, UninstallInv, ReportInv, NothingLeftBehind
<1>11. CASE BootEarlierOut
  BY <1>11 DEF BootEarlierOut, At, GoTo, state, report, TypeOK, Idle, Ids,
    InstallSteps, UninstallSteps, NoRoot, UninstallInv, ReportInv,
    NothingLeftBehind
<1>12. CASE Bootstrap
  BY <1>12 DEF Bootstrap, At, Idle, state, TypeOK, Ids, InstallSteps, UninstallSteps,
    NoRoot, UninstallInv, ReportInv, NothingLeftBehind
<1>13. CASE Bootout
  BY <1>13 DEF Bootout, At, GoTo, state, TypeOK, Idle, Ids, InstallSteps,
    UninstallSteps, NoRoot, UninstallInv, ReportInv, NothingLeftBehind
<1>14. CASE RemovePlist
  BY <1>14 DEF RemovePlist, At, GoTo, state, report, TypeOK, Idle, Ids, InstallSteps,
    UninstallSteps, NoRoot, UninstallInv, ReportInv, NothingLeftBehind
<1>15. CASE UninstallResolver
  BY <1>15 DEF UninstallResolver, At, GoTo, Failed, state, report, TypeOK, Idle, Ids,
    InstallSteps, UninstallSteps, NoRoot, UninstallInv, ReportInv,
    NothingLeftBehind
<1>16. CASE RemoveSettings
  BY <1>16 DEF RemoveSettings, At, GoTo, Failed, Missed, state, report, NoRoot,
    TypeOK, Idle, Ids, InstallSteps, UninstallSteps, UninstallInv, ReportInv,
    NothingLeftBehind
<1>17. CASE DeleteCertificate
  BY <1>17 DEF DeleteCertificate, At, GoTo, Failed, Missed, state, report, TypeOK, Idle, Ids,
    InstallSteps, UninstallSteps, NoRoot, UninstallInv, ReportInv,
    NothingLeftBehind
<1>18. CASE RemoveState
  BY <1>18 DEF RemoveState, At, Removed, Forget, Idle, state, system, NoRoot, TypeOK, Ids,
    InstallSteps, UninstallSteps, UninstallInv, ReportInv,
    NothingLeftBehind
<1>19. CASE Cut
  BY <1>19 DEF Cut, Idle, state, system, report, TypeOK, Ids, InstallSteps,
    UninstallSteps, NoRoot, UninstallInv, ReportInv, NothingLeftBehind
<1>20. QED
  BY <1>1, <1>2, <1>3, <1>4, <1>5, <1>6, <1>7, <1>8, <1>9, <1>10, <1>11,
    <1>12, <1>13, <1>14, <1>15, <1>16, <1>17, <1>18, <1>19 DEF Next

\* The inductive invariant holds in every reachable state.
THEOREM Inductive == Spec => []IInv
<1>1. IInv /\ [Next]_vars => IInv'
  BY TypeStep, ResolverStep, TrustStep, InstallStep, UninstallStep, ReportStep
  DEF IInv
<1>2. QED
  BY InitInv, <1>1, PTL DEF Spec

\* Every variable has its type.
THEOREM TypeCorrect == Spec => []TypeOK
<1>1. IInv => TypeOK
  BY DEF IInv
<1>2. QED
  BY Inductive, <1>1, PTL

\* Whatever was cut off or failed, the record and the root on disk are those
\* that the next uninstall needs for what is configured in the system, save
\* what an earlier one could not name, or was told is not there.
THEOREM AlwaysRecoverable == Spec => []Recoverable
<1>1. IInv => Recoverable
  <2> SUFFICES ASSUME ResolverInv, TrustInv PROVE Recoverable
    BY DEF IInv
  <2>1. ASSUME resolver \ orphans # {}, record # Torn
        PROVE  resolver \ orphans = {record}
    BY <2>1 DEF ResolverInv
  <2>2. ASSUME (trusted \cup keychain) \ strays # {}
        PROVE  root # NoRoot /\ (trusted \cup keychain) \ strays = {root.id}
    BY <2>2 DEF TrustInv
  <2>3. QED
    BY <2>1, <2>2 DEF Recoverable
<1>2. QED
  BY Inductive, <1>1, PTL

\* An uninstall that reports success has left nothing behind, save the
\* resolver of a record that it could not read, and the service and the roots
\* whose removal failed with an error that is taken for absence.
THEOREM SuccessIsClean == Spec => []NothingLeftBehind
<1>1. IInv => NothingLeftBehind
  BY DEF IInv, ReportInv
<1>2. QED
  BY Inductive, <1>1, PTL

=============================================================================
