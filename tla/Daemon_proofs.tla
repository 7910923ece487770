---------------------------- MODULE Daemon_proofs ----------------------------
(***************************************************************************)
(* Proofs about Daemon, for any number of daemons, ports, registrations,   *)
(* starts and faults.                                                      *)
(*                                                                         *)
(* What a daemon holds is known from where it is (Listeners).  As long as  *)
(* no two have met, one at most runs; its memory is the file, and what is  *)
(* at the path is known from where it is too (Alone).                      *)
(***************************************************************************)
EXTENDS Daemon, TLAPS

Listeners ==
  \A d \in Daemons :
    /\ sock[d] => pc[d] \in {"chmod", "ports", "serving", "stopping"}
    /\ pc[d] \in {"chmod", "ports", "serving"} => sock[d]
    /\ pc[d] = "serving" => Held(d) = PortSet

Alone ==
  ~overlapped =>
    /\ \A d, e \in Daemons : pc[d] # "off" /\ pc[e] # "off" => d = e
    /\ \A d \in Daemons :
         /\ pc[d] # "off" => memory[d] = file
         /\ pc[d] \in {"dial", "remove"} => path # "none"
         /\ pc[d] = "listen" => path = "none"
         /\ pc[d] \in {"chmod", "ports", "serving"} => path = d
    /\ acked \subseteq file

IInv == TypeOK /\ Listeners /\ Alone

LEMMA InitIInv == Init => IInv
<1> SUFFICES ASSUME Init PROVE IInv
  OBVIOUS
<1> USE DaemonAssumption DEF Init
<1>1. TypeOK
  <2>1. /\ sock \in [Daemons -> BOOLEAN] /\ overlapped \in BOOLEAN
        /\ file \subseteq Updates /\ acked \subseteq Updates
        /\ path \in Daemons \cup {"none"}
    BY Zenon
  <2>2. /\ starts \in 0..MaxStarts /\ faults \in 0..MaxFaults
    OBVIOUS
  <2>3. /\ pc \in [Daemons -> {"off", "stat", "dial", "remove", "listen", "chmod",
                              "ports", "serving", "stopping"}]
        /\ memory \in [Daemons -> SUBSET Updates]
        /\ pending \in [Daemons -> SUBSET Updates]
        /\ streams \in [Daemons -> SUBSET Streaming]
        /\ returned \in [Daemons -> SUBSET Servers]
        /\ \A d \in Daemons : returned[d] # {} => pc[d] = "stopping"
    OBVIOUS
  <2>4. holder \in [PortSet -> Daemons \cup {"free", "other"}]
    OBVIOUS
  <2> QED BY <2>1, <2>2, <2>3, <2>4 DEF TypeOK
<1>2. Listeners
  BY DEF Listeners
<1>3. Alone
  BY DEF Alone
<1> QED BY <1>1, <1>2, <1>3 DEF IInv

(***************************************************************************)
(* Types.                                                                  *)
(***************************************************************************)

LEMMA EndsTypes ==
  ASSUME TypeOK, NEW d \in Daemons, Ends(d),
         path' \in Daemons \cup {"none"}, faults' \in 0..MaxFaults
  PROVE  TypeOK'
<1>1. holder' \in [PortSet -> Daemons \cup {"free", "other"}]
  BY DEF TypeOK, Ends
<1>2. /\ pc' \in [Daemons -> {"off", "stat", "dial", "remove", "listen", "chmod",
                             "ports", "serving", "stopping"}]
      /\ sock' \in [Daemons -> BOOLEAN]
      /\ memory' \in [Daemons -> SUBSET Updates]
      /\ pending' \in [Daemons -> SUBSET Updates]
      /\ streams' \in [Daemons -> SUBSET Streaming]
      /\ returned' \in [Daemons -> SUBSET Servers]
  BY DEF TypeOK, Ends
<1>3. \A e \in Daemons : returned'[e] # {} => pc'[e] = "stopping"
  BY DEF TypeOK, Ends
<1> QED BY <1>1, <1>2, <1>3 DEF TypeOK, Ends

LEMMA ClosedTypes ==
  ASSUME TypeOK, NEW d \in Daemons, NEW s \in Servers, CloseListener(d, s)
  PROVE  /\ path' \in Daemons \cup {"none"}
         /\ sock' \in [Daemons -> BOOLEAN]
         /\ holder' \in [PortSet -> Daemons \cup {"free", "other"}]
<1>1. CASE s = "control"
  BY <1>1 DEF TypeOK, CloseListener
<1>2. CASE s # "control"
  BY <1>2 DEF TypeOK, CloseListener
<1> QED BY <1>1, <1>2

LEMMA TypeStep == TypeOK /\ [Next]_vars => TypeOK'
<1> SUFFICES ASSUME TypeOK, [Next]_vars PROVE TypeOK'
  OBVIOUS
<1> USE DaemonAssumption DEF TypeOK, listeners, requests, process, counters
<1>1. ASSUME NEW d \in Daemons, Start(d) PROVE TypeOK'
  BY <1>1 DEF Start
<1>2. ASSUME NEW d \in Daemons, StatSocket(d) PROVE TypeOK'
  BY <1>2 DEF StatSocket, Goto
<1>3. ASSUME NEW d \in Daemons, DialRefused(d) PROVE TypeOK'
  BY <1>3, EndsTypes DEF DialRefused
<1>4. ASSUME NEW d \in Daemons, DialFails(d) PROVE TypeOK'
  BY <1>4 DEF DialFails, Goto
<1>5. ASSUME NEW d \in Daemons, RemoveStale(d) PROVE TypeOK'
  <2>1. CASE path = "none"
    BY <1>5, <2>1, EndsTypes DEF RemoveStale
  <2>2. CASE ~(path = "none")
    BY <1>5, <2>2 DEF RemoveStale, Goto
  <2> QED BY <2>1, <2>2
<1>6. ASSUME NEW d \in Daemons, Bind(d) PROVE TypeOK'
  <2>1. CASE path # "none"
    BY <1>6, <2>1, EndsTypes DEF Bind
  <2>2. CASE ~(path # "none")
    BY <1>6, <2>2 DEF Bind, Goto
  <2> QED BY <2>1, <2>2
<1>7. ASSUME NEW d \in Daemons, Chmod(d) PROVE TypeOK'
  <2>1. CASE path = "none"
    BY <1>7, <2>1, EndsTypes DEF Chmod
  <2>2. CASE ~(path = "none")
    BY <1>7, <2>2 DEF Chmod, Goto
  <2> QED BY <2>1, <2>2
<1>8. ASSUME NEW d \in Daemons, OpenPort(d) PROVE TypeOK'
  <2> DEFINE p == NextPort(d)
  <2>1. CASE holder[p] = "free"
    <3>1. /\ holder' = [holder EXCEPT ![p] = d]
          /\ \E l \in {"serving", "ports"} : Goto(d, l)
          /\ pc[d] = "ports"
          /\ UNCHANGED <<file, path, sock, requests, acked, counters>>
      BY <1>8, <2>1 DEF OpenPort
    <3> HIDE DEF p
    <3>2. holder' \in [PortSet -> Daemons \cup {"free", "other"}]
      BY <3>1
    <3> QED BY <3>1, <3>2 DEF Goto
  <2>2. CASE holder[p] # "free"
    <3>1. path' = "none" /\ Ends(d) /\ faults' = faults
      BY <1>8, <2>2 DEF OpenPort
    <3> QED BY <3>1, EndsTypes
  <2> QED BY <2>1, <2>2
<1>9. ASSUME NEW d \in Daemons, NEW u \in Updates, Request(d, u) PROVE TypeOK'
  BY <1>9 DEF Request
<1>10. ASSUME NEW d \in Daemons, NEW u \in Updates, Answer(d, u) PROVE TypeOK'
  BY <1>10 DEF Answer
<1>11. ASSUME NEW d \in Daemons, NEW s \in Streaming, OpenStream(d, s) PROVE TypeOK'
  BY <1>11 DEF OpenStream
<1>12. ASSUME NEW d \in Daemons, NEW s \in Streaming, CloseStream(d, s) PROVE TypeOK'
  BY <1>12 DEF CloseStream
<1>13. ASSUME NEW d \in Daemons, Signal(d) PROVE TypeOK'
  BY <1>13 DEF Signal, Goto
<1>14. ASSUME NEW d \in Daemons, NEW s \in Servers, ListenerDies(d, s) PROVE TypeOK'
  <2>1. /\ path' \in Daemons \cup {"none"}
        /\ sock' \in [Daemons -> BOOLEAN]
        /\ holder' \in [PortSet -> Daemons \cup {"free", "other"}]
    BY <1>14, ClosedTypes DEF ListenerDies
  <2>2. faults' \in 0..MaxFaults
    BY <1>14 DEF ListenerDies
  <2>3. /\ returned' = [returned EXCEPT ![d] = @ \cup {s}]
        /\ pc' = [pc EXCEPT ![d] = "stopping"]
        /\ UNCHANGED <<file, memory, requests, acked, overlapped, starts>>
    BY <1>14 DEF ListenerDies
  <2>4. \A e \in Daemons : returned'[e] # {} => pc'[e] = "stopping"
    BY <2>3
  <2>5. /\ pc' \in [Daemons -> {"off", "stat", "dial", "remove", "listen", "chmod",
                               "ports", "serving", "stopping"}]
        /\ returned' \in [Daemons -> SUBSET Servers]
    BY <2>3
  <2> QED BY <2>1, <2>2, <2>3, <2>4, <2>5
<1>15. ASSUME NEW d \in Daemons, NEW s \in Servers, Shutdown(d, s) PROVE TypeOK'
  <2>1. /\ path' \in Daemons \cup {"none"}
        /\ sock' \in [Daemons -> BOOLEAN]
        /\ holder' \in [PortSet -> Daemons \cup {"free", "other"}]
    BY <1>15, ClosedTypes DEF Shutdown
  <2>2. pending' \in [Daemons -> SUBSET Updates]
    BY <1>15 DEF Shutdown
  <2>3. UNCHANGED <<file, process, streams, acked, counters>>
    BY <1>15 DEF Shutdown
  <2> QED BY <2>1, <2>2, <2>3
<1>16. ASSUME NEW d \in Daemons, NEW s \in Servers, Drained(d, s) PROVE TypeOK'
  BY <1>16 DEF Drained, Waiting
<1>17. ASSUME NEW d \in Daemons, Cancelled(d) PROVE TypeOK'
  BY <1>17 DEF Cancelled
<1>18. ASSUME NEW d \in Daemons, TimedOut(d) PROVE TypeOK'
  BY <1>18 DEF TimedOut, Waiting, Servers
<1>19. ASSUME NEW d \in Daemons, Exit(d) PROVE TypeOK'
  BY <1>19, EndsTypes DEF Exit
<1>20. ASSUME NEW d \in Daemons, Crash(d) PROVE TypeOK'
  <2>1. faults' \in 0..MaxFaults /\ path' = path /\ Ends(d)
    BY <1>20 DEF Crash
  <2> QED BY <2>1, EndsTypes
<1>21. CASE UNCHANGED vars
  BY <1>21 DEF vars
<1> QED
  BY <1>1, <1>2, <1>3, <1>4, <1>5, <1>6, <1>7, <1>8, <1>9, <1>10, <1>11, <1>12, <1>13,
     <1>14, <1>15, <1>16, <1>17, <1>18, <1>19, <1>20, <1>21
  DEF Next, StartUp, Serve, Stop

(***************************************************************************)
(* What a daemon holds.                                                    *)
(***************************************************************************)

LEMMA EndsListeners ==
  ASSUME TypeOK, Listeners, NEW d \in Daemons, Ends(d)
  PROVE  Listeners'
<1> SUFFICES ASSUME NEW e \in Daemons
             PROVE  /\ sock'[e] => pc'[e] \in {"chmod", "ports", "serving", "stopping"}
                    /\ pc'[e] \in {"chmod", "ports", "serving"} => sock'[e]
                    /\ pc'[e] = "serving" => Held(e)' = PortSet
  BY DEF Listeners
<1>1. CASE e = d
  BY <1>1 DEF TypeOK, Ends
<1>2. CASE e # d
  <2>1. pc'[e] = pc[e] /\ sock'[e] = sock[e]
    BY <1>2 DEF TypeOK, Ends
  <2>2. Held(e)' = Held(e)
    BY <1>2, DaemonAssumption DEF Ends, Held
  <2> QED BY <2>1, <2>2 DEF Listeners
<1> QED BY <1>1, <1>2

LEMMA ClosedListeners ==
  ASSUME TypeOK, Listeners, NEW d \in Daemons, NEW s \in Servers,
         Listening(d, s), CloseListener(d, s),
         pc' = [pc EXCEPT ![d] = "stopping"]
  PROVE  Listeners'
<1> SUFFICES ASSUME NEW e \in Daemons
             PROVE  /\ sock'[e] => pc'[e] \in {"chmod", "ports", "serving", "stopping"}
                    /\ pc'[e] \in {"chmod", "ports", "serving"} => sock'[e]
                    /\ pc'[e] = "serving" => Held(e)' = PortSet
  BY DEF Listeners
<1>1. CASE e = d
  BY <1>1 DEF TypeOK
<1>2. CASE e # d
  <2>1. pc'[e] = pc[e]
    BY <1>2 DEF TypeOK
  <2>2. sock'[e] = sock[e]
    BY <1>2 DEF TypeOK, CloseListener
  <2>3. Held(e)' = Held(e)
    <3>1. CASE s = "control"
      BY <3>1 DEF CloseListener, Held
    <3>2. CASE s # "control"
      <4>1. holder[s] = d /\ holder' = [holder EXCEPT ![s] = "free"]
        BY <3>2 DEF CloseListener, Listening
      <4> QED BY <4>1, <1>2, DaemonAssumption DEF TypeOK, Held
    <3> QED BY <3>1, <3>2
  <2> QED BY <2>1, <2>2, <2>3 DEF Listeners
<1> QED BY <1>1, <1>2

LEMMA ListenersStep == TypeOK /\ Listeners /\ [Next]_vars => Listeners'
<1> SUFFICES ASSUME TypeOK, Listeners, [Next]_vars PROVE Listeners'
  OBVIOUS
<1>1. ASSUME NEW d \in Daemons, NEW l, Goto(d, l), UNCHANGED listeners,
             \/ pc[d] \in {"off", "stat", "dial", "remove", "listen"}
                /\ l \in {"stat", "dial", "remove", "listen"}
             \/ pc[d] = "chmod" /\ l = "ports"
             \/ pc[d] = "serving" /\ l = "stopping"
      PROVE  Listeners'
  BY <1>1 DEF Goto, TypeOK, Listeners, listeners, Held
<1>2. ASSUME UNCHANGED <<pc, listeners>> PROVE Listeners'
  BY <1>2 DEF Listeners, listeners, Held
<1>3. ASSUME NEW d \in Daemons, Start(d) PROVE Listeners'
  BY <1>3 DEF Start, TypeOK, Listeners, listeners, Held
<1>4. ASSUME NEW d \in Daemons, StatSocket(d) PROVE Listeners'
  BY <1>4, <1>1 DEF StatSocket
<1>5. ASSUME NEW d \in Daemons, DialFails(d) PROVE Listeners'
  BY <1>5, <1>1 DEF DialFails
<1>6. ASSUME NEW d \in Daemons, RemoveStale(d), ~Ends(d) PROVE Listeners'
  BY <1>6 DEF RemoveStale, Goto, TypeOK, Listeners, Held
<1>7. ASSUME NEW d \in Daemons, Bind(d), ~Ends(d) PROVE Listeners'
  BY <1>7 DEF Bind, Goto, TypeOK, Listeners, Held
<1>8. ASSUME NEW d \in Daemons, Chmod(d), ~Ends(d) PROVE Listeners'
  BY <1>8, <1>1 DEF Chmod
<1>9. ASSUME NEW d \in Daemons, OpenPort(d), ~Ends(d) PROVE Listeners'
  <2> DEFINE p == NextPort(d)
             l == IF Held(d) \cup {p} = PortSet THEN "serving" ELSE "ports"
  <2>1. /\ pc[d] = "ports" /\ holder[p] = "free"
        /\ holder' = [holder EXCEPT ![p] = d]
        /\ pc' = [pc EXCEPT ![d] = l]
        /\ UNCHANGED sock
    BY <1>9 DEF OpenPort, Goto
  <2>2. l \in {"serving", "ports"} /\ (l = "serving" => Held(d) \cup {p} = PortSet)
    OBVIOUS
  <2> HIDE DEF p, l
  <2> SUFFICES ASSUME NEW e \in Daemons
               PROVE  /\ sock'[e] => pc'[e] \in {"chmod", "ports", "serving", "stopping"}
                      /\ pc'[e] \in {"chmod", "ports", "serving"} => sock'[e]
                      /\ pc'[e] = "serving" => Held(e)' = PortSet
    BY DEF Listeners
  <2>3. CASE e = d
    <3>1. pc'[e] = l /\ sock'[e]
      BY <2>1, <2>3 DEF TypeOK, Listeners
    <3>2. l = "serving" => Held(d)' = PortSet
      BY <2>1, <2>2 DEF TypeOK, Held
    <3> QED BY <2>2, <2>3, <3>1, <3>2
  <2>4. CASE e # d
    <3>1. pc'[e] = pc[e] /\ sock'[e] = sock[e]
      BY <2>1, <2>4 DEF TypeOK
    <3>2. Held(e)' = Held(e)
      BY <2>1, <2>4, DaemonAssumption DEF TypeOK, Held
    <3> QED BY <3>1, <3>2 DEF Listeners
  <2> QED BY <2>3, <2>4
<1>10. ASSUME NEW d \in Daemons, Signal(d) PROVE Listeners'
  BY <1>10, <1>1 DEF Signal
<1>11. ASSUME NEW d \in Daemons, NEW s \in Servers, ListenerDies(d, s) PROVE Listeners'
  BY <1>11, ClosedListeners DEF ListenerDies
<1>12. ASSUME NEW d \in Daemons, NEW s \in Servers, Shutdown(d, s) PROVE Listeners'
  <2>1. pc' = [pc EXCEPT ![d] = "stopping"]
    BY <1>12 DEF Shutdown, process, TypeOK
  <2> QED BY <1>12, <2>1, ClosedListeners DEF Shutdown
<1>13. ASSUME NEW d \in Daemons, Serve(d) PROVE Listeners'
  BY <1>13, <1>2 DEF Serve, Request, Answer, OpenStream, CloseStream, process
<1>14. ASSUME NEW d \in Daemons, NEW s \in Servers,
              Drained(d, s) \/ Cancelled(d) \/ TimedOut(d)
       PROVE  Listeners'
  BY <1>14, <1>2 DEF Drained, Cancelled, TimedOut, process
<1>15. CASE UNCHANGED vars
  BY <1>15, <1>2 DEF vars, process
<1>16. ASSUME NEW d \in Daemons, DialRefused(d) \/ Exit(d) \/ Crash(d) PROVE Ends(d)
  BY <1>16 DEF DialRefused, Exit, Crash
<1>17. "control" \in Servers
  BY DEF Servers
<1> QED
  BY <1>3, <1>4, <1>5, <1>6, <1>7, <1>8, <1>9, <1>10, <1>11, <1>12, <1>13, <1>14,
     <1>15, <1>16, <1>17, EndsListeners
  DEF Next, StartUp, Stop

(***************************************************************************)
(* One daemon at a time.                                                   *)
(***************************************************************************)

\* A daemon that runs alone may leave anything behind at the path.
LEMMA LastOneAlone ==
  ASSUME TypeOK, Alone, NEW d \in Daemons, pc[d] # "off", NEW l \in {"off", "stopping"},
         pc' = [pc EXCEPT ![d] = l],
         l = "stopping" => UNCHANGED memory,
         UNCHANGED <<file, acked, overlapped>>
  PROVE  Alone'
<1> SUFFICES ASSUME ~overlapped PROVE Alone'
  BY DEF Alone
<1>1. \A e \in Daemons : pc'[e] # "off" => e = d /\ l = "stopping"
  BY DEF TypeOK, Alone
<1>2. pc'[d] = l /\ (l = "stopping" => memory'[d] = file')
  BY DEF TypeOK, Alone
<1> QED BY <1>1, <1>2 DEF Alone

LEMMA AloneStep == TypeOK /\ Alone /\ [Next]_vars => Alone'
<1> SUFFICES ASSUME TypeOK, Alone, [Next]_vars PROVE Alone'
  OBVIOUS
<1>1. ASSUME UNCHANGED <<file, path, process, acked, overlapped>> PROVE Alone'
  BY <1>1 DEF Alone, process
<1>2. ASSUME NEW d \in Daemons, pc[d] # "off", Ends(d) PROVE Alone'
  BY <1>2, LastOneAlone DEF Ends
<1>3. ASSUME NEW d \in Daemons, NEW l, Goto(d, l), pc[d] # "off",
             UNCHANGED <<file, acked, overlapped>>,
             /\ l \in {"dial", "remove"} => path' # "none"
             /\ l = "listen" => path' = "none"
             /\ l \in {"chmod", "ports", "serving"} => path' = d
      PROVE  Alone'
  BY <1>3 DEF Goto, TypeOK, Alone
<1>4. ASSUME NEW d \in Daemons, Start(d) PROVE Alone'
  <2>1. CASE overlapped'
    BY <2>1 DEF Alone
  <2>2. CASE ~overlapped'
    <3>1. ~overlapped /\ \A e \in Daemons : pc[e] = "off"
      BY <1>4, <2>2 DEF Start
    <3> QED BY <1>4, <3>1 DEF Start, TypeOK, Alone
  <2> QED BY <2>1, <2>2
<1>5. ASSUME NEW d \in Daemons, StatSocket(d) PROVE Alone'
  BY <1>5, <1>3 DEF StatSocket, listeners, counters
<1>6. ASSUME NEW d \in Daemons, DialRefused(d) \/ Exit(d) \/ Crash(d) PROVE Alone'
  BY <1>6, <1>2 DEF DialRefused, Exit, Crash
<1>7. ASSUME NEW d \in Daemons, DialFails(d) PROVE Alone'
  <2>1. CASE overlapped
    BY <1>7, <2>1 DEF DialFails, counters, Alone
  <2>2. CASE ~overlapped
    BY <1>7, <2>2, <1>3 DEF DialFails, listeners, counters, Alone
  <2> QED BY <2>1, <2>2
<1>8. ASSUME NEW d \in Daemons, RemoveStale(d) PROVE Alone'
  BY <1>8, <1>2, <1>3 DEF RemoveStale, counters
<1>9. ASSUME NEW d \in Daemons, Bind(d) PROVE Alone'
  BY <1>9, <1>2, <1>3 DEF Bind, counters
<1>10. ASSUME NEW d \in Daemons, Chmod(d) PROVE Alone'
  <2>1. CASE Ends(d)
    BY <1>10, <2>1, <1>2 DEF Chmod
  <2>2. CASE ~Ends(d) /\ overlapped
    BY <1>10, <2>2 DEF Chmod, counters, Alone
  <2>3. CASE ~Ends(d) /\ ~overlapped
    BY <1>10, <2>3, <1>3 DEF Chmod, listeners, counters, Alone
  <2> QED BY <2>1, <2>2, <2>3
<1>11. ASSUME NEW d \in Daemons, OpenPort(d) PROVE Alone'
  <2>1. CASE Ends(d)
    BY <1>11, <2>1, <1>2 DEF OpenPort
  <2>2. CASE ~Ends(d)
    <3>1. /\ pc[d] = "ports"
          /\ Goto(d, IF Held(d) \cup {NextPort(d)} = PortSet THEN "serving" ELSE "ports")
          /\ UNCHANGED <<file, path, acked, counters>>
      BY <1>11, <2>2 DEF OpenPort
    <3>2. CASE overlapped
      BY <3>1, <3>2 DEF counters, Alone
    <3>3. CASE ~overlapped
      <4>1. path' = d
        BY <3>1, <3>3 DEF Alone
      <4> QED BY <3>1, <4>1, <1>3 DEF counters
    <3> QED BY <3>2, <3>3
  <2> QED BY <2>1, <2>2
<1>12. ASSUME NEW d \in Daemons, NEW u \in Updates, Request(d, u) PROVE Alone'
  BY <1>12, <1>1 DEF Request, listeners, counters
<1>13. ASSUME NEW d \in Daemons, NEW u \in Updates, Answer(d, u) PROVE Alone'
  <2> SUFFICES ASSUME ~overlapped PROVE Alone'
    BY <1>13 DEF Answer, counters, Alone
  <2>1. /\ pc[d] # "off" /\ memory[d] = file
        /\ UNCHANGED <<pc, path, overlapped>>
    BY <1>13 DEF Answer, Running, listeners, counters, Alone
  <2>2. /\ memory' = [memory EXCEPT ![d] = @ \cup {u}]
        /\ file' = memory[d] \cup {u} /\ acked' = acked \cup {u}
    BY <1>13 DEF Answer
  <2>3. \A e \in Daemons : pc[e] # "off" => e = d
    BY <2>1 DEF Alone
  <2>4. memory'[d] = file' /\ acked' \subseteq file'
    BY <2>1, <2>2 DEF TypeOK, Alone
  <2> QED BY <2>1, <2>3, <2>4 DEF Alone
<1>14. ASSUME NEW d \in Daemons, NEW s \in Streaming, OpenStream(d, s) \/ CloseStream(d, s)
       PROVE  Alone'
  BY <1>14, <1>1 DEF OpenStream, CloseStream, listeners, counters
<1>15. ASSUME NEW d \in Daemons, Signal(d) PROVE Alone'
  BY <1>15, <1>3 DEF Signal, counters
<1>16. ASSUME NEW d \in Daemons, NEW s \in Servers, ListenerDies(d, s) PROVE Alone'
  BY <1>16, LastOneAlone DEF ListenerDies
<1>17. ASSUME NEW d \in Daemons, NEW s \in Servers, Shutdown(d, s) PROVE Alone'
  <2>1. /\ pc[d] = "stopping" /\ UNCHANGED <<file, process, acked, counters>>
    BY <1>17 DEF Shutdown
  <2>2. pc' = [pc EXCEPT ![d] = "stopping"]
    BY <2>1 DEF process, TypeOK
  <2> QED BY <2>1, <2>2, LastOneAlone DEF process, counters
<1>18. ASSUME NEW d \in Daemons, NEW s \in Servers,
              Drained(d, s) \/ Cancelled(d) \/ TimedOut(d)
       PROVE  Alone'
  <2>1. UNCHANGED <<file, path, pc, memory, acked, overlapped>>
    BY <1>18 DEF Drained, Cancelled, TimedOut, listeners, process, counters
  <2> QED BY <2>1 DEF Alone
<1>19. CASE UNCHANGED vars
  BY <1>19, <1>1 DEF vars, listeners, counters
<1>20. "control" \in Servers
  BY DEF Servers
<1> QED
  BY <1>4, <1>5, <1>6, <1>7, <1>8, <1>9, <1>10, <1>11, <1>12, <1>13, <1>14, <1>15,
     <1>16, <1>17, <1>18, <1>19, <1>20
  DEF Next, StartUp, Serve, Stop

(***************************************************************************)
(* The theorems.                                                           *)
(***************************************************************************)

\* The strengthening that every theorem below rests on.
THEOREM Inductive == Spec => []IInv
<1>1. IInv /\ [Next]_vars => IInv'
  BY TypeStep, ListenersStep, AloneStep DEF IInv
<1> QED BY InitIInv, <1>1, PTL DEF Spec

\* The state keeps its types, and only a daemon that stops has servers that
\* returned.
THEOREM TypeCorrect == Spec => []TypeOK
<1>1. IInv => TypeOK
  BY DEF IInv
<1> QED BY Inductive, <1>1, PTL

\* However many daemons fight for the ports and the socket, one that serves
\* has its own listener of every kind.
THEOREM AllOrNone == Spec => []WholeOrNothing
<1>1. IInv => WholeOrNothing
  BY DEF IInv, Listeners, WholeOrNothing
<1> QED BY Inductive, <1>1, PTL

\* As long as daemons do not run side by side, an answered registration is in
\* the file, wherever the last daemon was stopped or crashed.
THEOREM AnswersSurvive == Spec => []AnsweredIsKept
<1>1. IInv => AnsweredIsKept
  BY DEF IInv, Alone, AnsweredIsKept
<1> QED BY Inductive, <1>1, PTL

LEMMA StaleStep ==
  ASSUME IInv, IInv', [Next]_vars, ~overlapped', NEW d \in Daemons
  PROVE  /\ pc[d] \notin {"off", "ports", "stopping"} /\ pc'[d] = "off" => faults' # faults
         /\ pc'[d] = "serving" => path' = d
<1>1. pc'[d] = "serving" => path' = d
  BY DEF IInv, Alone
<1>2. ASSUME pc[d] \notin {"off", "ports", "stopping"}, pc'[d] = "off"
      PROVE  faults' # faults
  <2> USE <1>2 DEF IInv
  <2>1. ~overlapped /\ pc # pc'
    <3>1. overlapped => overlapped'
      BY DEF Next, StartUp, Serve, Stop, Start, StatSocket, DialRefused, DialFails,
        RemoveStale, Bind, Chmod, OpenPort, Request, Answer, OpenStream, CloseStream,
        Signal, ListenerDies, Shutdown, Drained, Cancelled, TimedOut, Exit, Crash,
        Ends, counters, vars
    <3> QED BY <3>1
  <2>2. PICK e \in Daemons : StartUp(e) \/ Serve(e) \/ Stop(e)
    BY <2>1 DEF Next, vars, process
  <2>3. ASSUME NEW l, NEW f \in Daemons, Goto(f, l), l # "off" PROVE FALSE
    BY <2>3 DEF Goto, TypeOK
  <2>4. ASSUME NEW f \in Daemons, Ends(f) PROVE f = d
    BY <2>4 DEF Ends, TypeOK
  <2>5. ~Start(e) /\ ~StatSocket(e) /\ ~DialFails(e) /\ ~Signal(e)
    BY <2>3 DEF Start, StatSocket, DialFails, Signal, TypeOK
  <2>6. ~DialRefused(e)
    BY <2>1, <2>4 DEF DialRefused, Accepts, Alone, Listeners, TypeOK
  <2>7. ~RemoveStale(e)
    BY <2>1, <2>3, <2>4 DEF RemoveStale, Alone
  <2>8. ~Bind(e)
    BY <2>1, <2>3, <2>4 DEF Bind, Alone
  <2>9. ~Chmod(e)
    BY <2>1, <2>3, <2>4, DaemonAssumption DEF Chmod, Alone
  <2>10. ~OpenPort(e)
    BY <2>3, <2>4 DEF OpenPort
  <2>11. ~Serve(e)
    BY <2>1 DEF Serve, Request, Answer, OpenStream, CloseStream, process
  <2>12. ASSUME NEW s \in Servers
         PROVE  ~ListenerDies(e, s) /\ ~Shutdown(e, s) /\ ~Drained(e, s)
    BY <2>1 DEF ListenerDies, Shutdown, Drained, process, TypeOK
  <2>13. ~Cancelled(e) /\ ~TimedOut(e)
    BY <2>1 DEF Cancelled, TimedOut, process
  <2>14. ~Exit(e)
    BY <2>4 DEF Exit
  <2>15. Crash(e)
    BY <2>2, <2>5, <2>6, <2>7, <2>8, <2>9, <2>10, <2>11, <2>12, <2>13, <2>14
    DEF StartUp, Stop
  <2> QED BY <2>15 DEF Crash, TypeOK
<1> QED BY <1>1, <1>2

\* A daemon that meets no other gives up only if a port is taken or it
\* crashes, and the socket file is its own when it serves, whatever was left.
THEOREM StaleIsReclaimed == Spec => StaleSocketHarmless
<1>1. IInv /\ IInv' /\ [Next]_vars
        => [\A d \in Daemons : ~overlapped' =>
              /\ pc[d] \notin {"off", "ports", "stopping"} /\ pc'[d] = "off" => faults' # faults
              /\ pc'[d] = "serving" => path' = d]_vars
  BY StaleStep
<1> QED BY Inductive, <1>1, PTL DEF Spec, StaleSocketHarmless

\* No two daemons serve: each would hold the HTTPS port.
LEMMA OneServes ==
  ASSUME TypeOK, Listeners, NEW d \in Daemons, NEW e \in Daemons,
         pc[d] = "serving", pc[e] = "serving"
  PROVE  d = e
BY DaemonAssumption DEF Listeners, Held

LEMMA SecondStep ==
  ASSUME IInv, [Next]_vars, NEW d \in Daemons, Settled(d), pc'[d] = "serving"
  PROVE  Settled(d)'
<1>1. /\ pc[d] = "serving" /\ path = d /\ sock[d] /\ path # "none"
      /\ \A e \in Daemons \ {d} : pc[e] \notin {"remove", "chmod", "ports", "stopping", "serving"}
  BY OneServes, DaemonAssumption DEF Settled, IInv, Listeners
<1>2. ASSUME path' = path, NEW e \in Daemons, NEW l,
             l \in {"off", "stat", "dial", "listen", "serving"},
             pc' = [pc EXCEPT ![e] = l]
      PROVE  Settled(d)'
  BY <1>1, <1>2 DEF Settled, IInv, TypeOK
<1>3. ASSUME UNCHANGED <<path, pc>> PROVE Settled(d)'
  BY <1>3 DEF Settled
<1>4. ASSUME NEW e \in Daemons, Ends(e), path' = path PROVE Settled(d)'
  BY <1>4, <1>2 DEF Ends
<1>5. ASSUME NEW e \in Daemons, StartUp(e) PROVE Settled(d)'
  <2>1. ~DialFails(e) /\ ~RemoveStale(e) /\ ~Chmod(e) /\ ~OpenPort(e)
    BY <1>1 DEF DialFails, Accepts, RemoveStale, Chmod, OpenPort
  <2>2. CASE Start(e)
    BY <2>2, <1>2 DEF Start, listeners
  <2>3. CASE StatSocket(e)
    BY <2>3, <1>1, <1>2 DEF StatSocket, Goto, listeners
  <2>4. CASE DialRefused(e)
    BY <2>4, <1>4 DEF DialRefused
  <2>5. CASE Bind(e)
    BY <2>5, <1>1, <1>4 DEF Bind
  <2> QED BY <1>5, <2>1, <2>2, <2>3, <2>4, <2>5 DEF StartUp
<1>6. ASSUME NEW e \in Daemons, Serve(e) PROVE Settled(d)'
  BY <1>6, <1>3 DEF Serve, Request, Answer, OpenStream, CloseStream, listeners, process
<1>7. ASSUME NEW e \in Daemons, Stop(e) PROVE Settled(d)'
  <2>1. CASE Crash(e)
    BY <2>1, <1>4 DEF Crash
  <2>2. ~Crash(e) => e = d
    BY <1>1, <1>7 DEF Stop, Signal, ListenerDies, Shutdown, Drained, Waiting, Cancelled,
      TimedOut, Exit
  <2>3. ASSUME NEW s \in Servers
        PROVE  ~Signal(d) /\ ~ListenerDies(d, s)
    BY DEF Signal, Goto, ListenerDies, IInv, TypeOK
  <2>4. ASSUME NEW s \in Servers
        PROVE  ~Shutdown(d, s) /\ ~Drained(d, s) /\ ~Cancelled(d) /\ ~TimedOut(d) /\ ~Exit(d)
    BY <1>1 DEF Shutdown, Drained, Waiting, Cancelled, TimedOut, Exit
  <2>5. "control" \in Servers
    BY DEF Servers
  <2> QED BY <1>7, <2>1, <2>2, <2>3, <2>4, <2>5 DEF Stop
<1>8. CASE UNCHANGED vars
  BY <1>8, <1>3 DEF vars, listeners, process
<1> QED BY <1>5, <1>6, <1>7, <1>8 DEF Next

\* A daemon that is started over the same state directory leaves the socket of
\* one that serves alone, unless it was past the dial or on its way out already.
THEOREM SecondDoesNoHarm == Spec => SecondIsHarmless
<1>1. IInv /\ [Next]_vars
        => [\A d \in Daemons : Settled(d) /\ pc'[d] = "serving" => Settled(d)']_vars
  BY SecondStep
<1> QED BY Inductive, <1>1, PTL DEF Spec, SecondIsHarmless

=============================================================================
