------------------------ MODULE LocalService_proofs -------------------------
(***************************************************************************)
(* For any clients and servers: the state is well formed; a server that    *)
(* ended in order left no registration; the service lock excludes when no  *)
(* holder dies or is slow; and when the servers are quick too, none is     *)
(* lost and a stop tells the truth.                                        *)
(***************************************************************************)
EXTENDS LocalService, TLAPS

\* Without deaths and delays nobody is dead, no lock is old, nothing is stolen.
Calm == /\ \A c \in Clients : client[c] \notin {"dead", "steal"}
        /\ ~lock.old

\* Whoever is inside holds the lock, alone.
LockInv == /\ Calm
           /\ \A c \in Inside : lock.held
           /\ OneHolder

PCs == {"idle", "own", "dead"} \cup Waiting \cup UnderLock

(***************************************************************************)
(* A registration names a server that published it and has not ended in    *)
(* order: the servers that have not come that far are part of the          *)
(* invariant, since one that finds another's registration exits at once.   *)
(***************************************************************************)
PublishedInv ==
    /\ server \in [Servers -> ServerStates]
    /\ \A s \in Servers : server[s] \in {"none", "starting", "exited"} => registration # s

LEMMA NextPublishedInv == PublishedInv /\ [Next]_vars => PublishedInv'
<1> SUFFICES ASSUME PublishedInv, [Next]_vars PROVE PublishedInv'
  OBVIOUS
<1> USE Distinct DEF PublishedInv, ServerStates, Alive, Bound, Becomes, clients
<1>1. ASSUME UNCHANGED <<server, registration>> PROVE PublishedInv'
  BY <1>1
<1>2. ASSUME registration' = None, UNCHANGED server PROVE PublishedInv'
  BY <1>2
<1>3. ASSUME NEW c \in Clients, RequestShutdown(c) PROVE PublishedInv'
  BY <1>3 DEF RequestShutdown, MayBeHealthy
<1>4. ASSUME NEW c \in Clients, Spawn(c) PROVE PublishedInv'
  BY <1>4 DEF Spawn
<1>5. ASSUME NEW c \in Clients, StartFails(c) PROVE PublishedInv'
  BY <1>5 DEF StartFails
<1>6. ASSUME NEW s \in Servers, ServerNext(s) PROVE PublishedInv'
  <2>1. CASE Publish(s)
    BY <2>1 DEF Publish
  <2>2. CASE Bind(s)
    BY <2>2 DEF Bind
  <2>3. CASE StopListening(s)
    BY <2>3 DEF StopListening
  <2>4. CASE CleanUp(s)
    BY <2>4 DEF CleanUp
  <2>5. CASE CleanUnlink(s)
    BY <2>5 DEF CleanUnlink
  <2> QED BY <1>6, <2>1, <2>2, <2>3, <2>4, <2>5 DEF ServerNext
<1>7. ASSUME NEW s \in Servers, Terminate(s) PROVE PublishedInv'
  BY <1>7 DEF Terminate
<1>8. ASSUME NEW s \in Servers, ServerDies(s) PROVE PublishedInv'
  BY <1>8 DEF ServerDies
<1>9. CASE UNCHANGED vars
  BY <1>9, <1>1 DEF vars
<1>10. ASSUME NEW c \in Clients, TakeLock(c) \/ GiveUp(c) \/ Release(c) PROVE PublishedInv'
  BY <1>10, <1>1
     DEF TakeLock, Mkdir, WriteOwner, CheckOwner, CheckAge, Steal, GiveUp, Release
<1>11. ASSUME NEW c \in Clients,
              ReadRegistration(c) \/ CheckHealth(c) \/ WaitForExit(c) \/ Clear(c)
                \/ SpawnFails(c) \/ PollRegistration(c) \/ PollHealth(c)
       PROVE PublishedInv'
  BY <1>11, <1>1
     DEF ReadRegistration, CheckHealth, WaitForExit, Clear, SpawnFails,
         PollRegistration, PollHealth
<1>12. ASSUME NEW c \in Clients, Unlink(c) PROVE PublishedInv'
  BY <1>12, <1>2 DEF Unlink
<1>13. ASSUME NEW c \in Clients, ClientDies(c) \/ \E o \in Ops : Ask(c, o)
       PROVE PublishedInv'
  BY <1>13, <1>1 DEF ClientDies, Ask
<1>14. CASE LockAges
  BY <1>14, <1>1 DEF LockAges
<1> QED
  BY <1>3, <1>4, <1>5, <1>6, <1>7, <1>8, <1>9, <1>10, <1>11, <1>12, <1>13, <1>14
     DEF Next, StopServer, StartServer

(* A server that ended in order is registered nowhere, whoever died or     *)
(* hurried meanwhile: the clean-up covers every way out after the link.    *)
THEOREM NothingLeftBehind == Spec => []ExitedIsUnregistered
<1>1. Init => PublishedInv
  BY Distinct DEF Init, PublishedInv, ServerStates, Alive, Bound
<1>2. PublishedInv => ExitedIsUnregistered
  BY DEF PublishedInv, ExitedIsUnregistered
<1> QED BY <1>1, <1>2, NextPublishedInv, PTL DEF Spec

-----------------------------------------------------------------------------
LockTypeOK ==
    /\ client \in [Clients -> PCs]
    /\ lock \in [owner : Clients \cup {None}, old : BOOLEAN, held : BOOLEAN]

LEMMA NextLockInv ==
    ASSUME ~MayCrash, ~MayAge
    PROVE  LockTypeOK /\ LockInv /\ [Next]_vars => LockTypeOK' /\ LockInv'
<1> SUFFICES ASSUME LockTypeOK, LockInv, [Next]_vars PROVE LockTypeOK' /\ LockInv'
  OBVIOUS
<1> USE Distinct
        DEF LockInv, LockTypeOK, Calm, OneHolder, Inside, PCs, Waiting, UnderLock, Goto,
            Returns, NoLock, clients
<1>1. ASSUME UNCHANGED <<lock, client>> PROVE LockTypeOK' /\ LockInv'
  BY <1>1
\* A client inside goes on inside, and leaves the lock as it is.
<1>2. ASSUME NEW c \in Inside, NEW pc \in UnderLock,
             lock' = lock, client' = [client EXCEPT ![c] = pc]
      PROVE  LockTypeOK' /\ LockInv'
  BY <1>2
<1>3. ASSUME NEW c \in Clients, NEW o \in Ops, Ask(c, o) PROVE LockTypeOK' /\ LockInv'
  BY <1>3 DEF Ask
<1>4. ASSUME NEW c \in Clients, TakeLock(c) PROVE LockTypeOK' /\ LockInv'
  <2>1. CASE Mkdir(c)
    <3>1. CASE lock.held
      BY <2>1, <3>1 DEF Mkdir
    <3>2. CASE ~lock.held
      <4>1. /\ lock' = [owner |-> None, old |-> FALSE, held |-> TRUE]
            /\ client' = [client EXCEPT ![c] = "own"]
        BY <2>1, <3>2 DEF Mkdir
      <4>2. \A d \in Clients : client[d] \notin {"own"} \cup UnderLock
        BY <3>2
      <4>3. LockTypeOK' /\ Calm'
        BY <4>1
      <4>4. Inside' = {c}
        BY <4>1, <4>2
      <4> QED BY <4>1, <4>3, <4>4
    <3> QED BY <3>1, <3>2
  <2>2. CASE WriteOwner(c)
    <3>1. c \in Inside /\ lock.held
      BY <2>2 DEF WriteOwner
    <3>2. /\ lock' = [held |-> TRUE, owner |-> c, old |-> lock.old /\ lock.owner # None]
          /\ client' = [client EXCEPT ![c] = "read"]
      BY <2>2, <3>1 DEF WriteOwner
    <3>3. LockTypeOK'
      BY <3>2
    <3>4. Calm' /\ lock'.held
      BY <3>2
    <3>5. Inside' = Inside
      BY <3>1, <3>2
    <3> QED BY <3>3, <3>4, <3>5
  <2>3. CASE CheckOwner(c)
    <3>1. client' = [client EXCEPT ![c] = "checkAge"] /\ lock' = lock
      BY <2>3 DEF CheckOwner
    <3>2. client[c] = "checkOwner"
      BY <2>3 DEF CheckOwner
    <3> QED BY <3>1, <3>2
  <2>4. CASE CheckAge(c)
    BY <2>4 DEF CheckAge
  <2>5. CASE Steal(c)
    BY <2>5 DEF Steal
  <2> QED BY <1>4, <2>1, <2>2, <2>3, <2>4, <2>5 DEF TakeLock
<1>5. ASSUME NEW c \in Clients, GiveUp(c) PROVE LockTypeOK' /\ LockInv'
  BY <1>5 DEF GiveUp
<1>6. ASSUME NEW c \in Clients, Release(c) PROVE LockTypeOK' /\ LockInv'
  BY <1>6 DEF Release
<1>7. ASSUME NEW c \in Clients, ReadRegistration(c) \/ CheckHealth(c)
      PROVE  LockTypeOK' /\ LockInv'
  <2>1. /\ c \in Inside /\ lock' = lock
        /\ \E pc \in UnderLock : client' = [client EXCEPT ![c] = pc]
    BY <1>7 DEF ReadRegistration, CheckHealth
  <2> QED BY <2>1, <1>2, ZenonT(40)
<1>8. ASSUME NEW c \in Clients, StopServer(c) PROVE LockTypeOK' /\ LockInv'
  <2>1. /\ c \in Inside /\ lock' = lock
        /\ \E pc \in UnderLock : client' = [client EXCEPT ![c] = pc]
    BY <1>8 DEF StopServer, RequestShutdown, WaitForExit, Clear, Unlink, AfterClear
  <2> QED BY <2>1, <1>2, ZenonT(40)
<1>9. ASSUME NEW c \in Clients, StartServer(c) PROVE LockTypeOK' /\ LockInv'
  <2>1. /\ c \in Inside /\ lock' = lock
        /\ \E pc \in UnderLock : client' = [client EXCEPT ![c] = pc]
    BY <1>9 DEF StartServer, Spawn, SpawnFails, PollRegistration, PollHealth, StartFails
  <2> QED BY <2>1, <1>2, ZenonT(40)
<1>10. ASSUME NEW c \in Clients, ClientDies(c) PROVE FALSE
  BY <1>10 DEF ClientDies
<1>11. ASSUME NEW s \in Servers, ServerNext(s) \/ Terminate(s) \/ ServerDies(s)
       PROVE  LockTypeOK' /\ LockInv'
  <2>1. UNCHANGED <<lock, client>>
    BY <1>11
       DEF ServerNext, Publish, Bind, StopListening, CleanUp, CleanUnlink, Terminate,
           ServerDies
  <2> QED BY <2>1, <1>1
<1>12. CASE LockAges
  BY <1>12 DEF LockAges
<1>13. CASE UNCHANGED vars
  BY <1>13, <1>1 DEF vars
<1> QED
  BY <1>3, <1>4, <1>5, <1>6, <1>7, <1>8, <1>9, <1>10, <1>11, <1>12, <1>13 DEF Next

(* As long as no client dies inside and none holds the lock too long, two  *)
(* operations never overlap, however slow the servers are.                 *)
THEOREM LockExcludes ==
    ASSUME ~MayCrash, ~MayAge
    PROVE  Spec => []OneHolder
<1>1. Init => LockTypeOK /\ LockInv
  BY Distinct
     DEF Init, LockTypeOK, LockInv, Calm, OneHolder, Inside, NoLock, PCs, Waiting,
         UnderLock
<1>2. LockInv => OneHolder
  BY DEF LockInv
<1>3. LockTypeOK /\ LockInv /\ [Next]_vars => LockTypeOK' /\ LockInv'
  BY NextLockInv
<1> QED BY <1>1, <1>2, <1>3, PTL DEF Spec

(* As long as no client dies and no lock ages, lock and registry hold.     *)
THEOREM LockAndRegistry ==
    ASSUME ~MayCrash, ~MayAge
    PROVE  Spec => []LockAndRegistryHold
BY NothingLeftBehind, LockExcludes, PTL DEF LockAndRegistryHold

-----------------------------------------------------------------------------
(***************************************************************************)
(* No server is lost, when nobody dies or is slow and no client runs a     *)
(* server in its foreground (run leaves a child behind that it gave up     *)
(* on, and a later client may clear that child's registration before it    *)
(* binds the port).  A server that has not bound yet has a client that     *)
(* waits for it (ComingInv), which is alone under the lock; so whoever     *)
(* clears a registration or reports that nothing runs finds the port free  *)
(* (HolderInv).                                                            *)
(***************************************************************************)
Coming == {"starting", "registered"}

BoundInv ==
    \A s \in Servers : server[s] \in {"registered"} \cup Bound => registration = s

ComingInv ==
    \A s \in Servers : server[s] \in Coming =>
        \E c \in Clients : client[c] \in {"wait", "waitHealth"} /\ child[c] = s

WaitInv ==
    \A c \in Clients : client[c] \in {"wait", "waitHealth"} =>
        \A s \in Servers : server[s] \in Coming \cup Bound => s = child[c]

HolderInv ==
    \A c \in Clients :
        /\ client[c] \in {"health", "shutdown", "waitExit", "clear", "unlink"} =>
               registration \in {seen[c], None}
        /\ client[c] \in {"clear", "unlink", "spawn"} => port = None
        /\ client[c] = "release" /\ answer[c] \in {"notRunning", "stopped"} => port = None

RegistryOK == BoundInv /\ ComingInv /\ WaitInv /\ HolderInv
RegistryInv == ~wrongClear => RegistryOK

\* Only an ensure starts a server.
OpInv ==
    \A c \in Clients :
        /\ client[c] # "idle" => op[c] \in {"ensure", "stop"}
        /\ client[c] \in {"spawn", "wait", "waitHealth"} => op[c] = "ensure"

Quietly == ~MayCrash /\ ~MayAge /\ ~MaySlow /\ "run" \notin Ops

LEMMA InitTypeOK == Init => TypeOK
<1> SUFFICES ASSUME Init PROVE TypeOK
  OBVIOUS
<1> USE DEF Init
<1>1. /\ lock \in [owner : Clients \cup {None}, old : BOOLEAN, held : BOOLEAN]
      /\ ~lock.held => lock = NoLock
  BY DEF NoLock
<1> DEFINE ServersOK ==
               /\ registration \in Servers \cup {None} /\ port \in Servers \cup {None}
               /\ server \in [Servers -> ServerStates]
               /\ \A s \in Servers : server[s] \in Bound <=> port = s
<1>2. ServersOK
  <2>1. CASE port = None /\ registration = None /\ server = [s \in Servers |-> "none"]
    BY <2>1, Distinct DEF ServerStates, Bound
  <2>2. ASSUME NEW o \in Outdated, port = o, registration = o,
               server = [s \in Servers |-> IF s = o THEN "serving" ELSE "none"]
        PROVE  ServersOK
    BY <2>2, OutdatedServers DEF ServerStates, Bound, Alive
  <2> QED BY <2>1, <2>2
<1>3. /\ client \in [Clients -> {"idle", "own", "dead"} \cup Waiting \cup UnderLock]
      /\ op \in [Clients -> Ops \cup {None}]
      /\ seen \in [Clients -> Servers \cup {None}]
      /\ child \in [Clients -> Servers \cup {None}]
      /\ answer \in [Clients -> Answers]
      /\ wrongClear \in BOOLEAN
      /\ \A c \in Clients : client[c] = "idle"
  BY DEF Answers
<1> QED BY <1>1, <1>2, <1>3 DEF TypeOK

LEMMA NextTypeOK == TypeOK /\ [Next]_vars => TypeOK'
<1> SUFFICES ASSUME TypeOK, [Next]_vars PROVE TypeOK'
  OBVIOUS
<1> USE Distinct DEF Goto, Reads, Reply, Becomes, Returns, clients, Bound
<1>1. ASSUME NEW c \in Clients, NEW o \in Ops, Ask(c, o) PROVE TypeOK'
  BY <1>1 DEF Ask, TypeOK, Waiting, UnderLock
<1>2. ASSUME NEW c \in Clients, TakeLock(c) \/ GiveUp(c) \/ Release(c) PROVE TypeOK'
  <2>1. CASE Mkdir(c)
    <3>1. /\ lock' \in [owner : Clients \cup {None}, old : BOOLEAN, held : BOOLEAN]
          /\ ~lock'.held => lock' = NoLock
      BY <2>1, ZenonT(40) DEF Mkdir, NoLock, TypeOK
    <3>2. /\ client' \in [Clients -> {"idle", "own", "dead"} \cup Waiting \cup UnderLock]
          /\ \A d \in Clients \ {c} : client'[d] = client[d]
          /\ client'[c] \in {"own", "checkOwner"}
      BY <2>1 DEF Mkdir, TypeOK, Waiting
    <3> HIDE DEF Goto
    <3> QED BY <2>1, <3>1, <3>2 DEF Mkdir, TypeOK
  <2>2. CASE WriteOwner(c)
    <3>1. /\ lock' \in [owner : Clients \cup {None}, old : BOOLEAN, held : BOOLEAN]
          /\ ~lock'.held => lock' = NoLock
      <4>1. CASE lock.held
        <5> DEFINE aged == lock.old /\ lock.owner # None
        <5>1. lock' = [held |-> TRUE, owner |-> c, old |-> aged]
          BY <2>2, <4>1 DEF WriteOwner
        <5>2. aged \in BOOLEAN
          OBVIOUS
        <5> HIDE DEF aged
        <5> QED BY <5>1, <5>2
      <4>2. CASE ~lock.held
        BY <2>2, <4>2 DEF WriteOwner, TypeOK
      <4> QED BY <4>1, <4>2
    <3>2. /\ client' \in [Clients -> {"idle", "own", "dead"} \cup Waiting \cup UnderLock]
          /\ \A d \in Clients \ {c} : client'[d] = client[d]
          /\ client'[c] \in {"read", "idle"}
      BY <2>2 DEF WriteOwner, TypeOK, UnderLock
    <3>3. /\ op' \in [Clients -> Ops \cup {None}]
          /\ seen' \in [Clients -> Servers \cup {None}]
          /\ child' \in [Clients -> Servers \cup {None}]
          /\ \A d \in Clients \ {c} : seen'[d] = seen[d] /\ child'[d] = child[d]
      BY <2>2 DEF WriteOwner, TypeOK
    <3>4. answer' \in [Clients -> Answers]
      BY <2>2 DEF WriteOwner, TypeOK, Answers
    <3>5. UNCHANGED <<registration, port, server, wrongClear>>
      BY <2>2 DEF WriteOwner
    <3> QED BY <3>1, <3>2, <3>3, <3>4, <3>5 DEF TypeOK
  <2>3. CASE CheckOwner(c) \/ CheckAge(c)
    BY <2>3 DEF CheckOwner, CheckAge, TypeOK, Waiting, UnderLock
  <2>4. CASE Steal(c)
    BY <2>4 DEF Steal, NoLock, TypeOK, Waiting, UnderLock
  <2>5. CASE GiveUp(c)
    BY <2>5 DEF GiveUp, TypeOK, Waiting, UnderLock, Answers
  <2>6. CASE Release(c)
    BY <2>6 DEF Release, NoLock, TypeOK, Waiting, UnderLock, Answers
  <2> QED BY <1>2, <2>1, <2>2, <2>3, <2>4, <2>5, <2>6 DEF TakeLock
<1>3. ASSUME NEW c \in Clients, ReadRegistration(c) \/ CheckHealth(c) PROVE TypeOK'
  <2>1. CASE ReadRegistration(c)
    BY <2>1 DEF ReadRegistration, TypeOK, Waiting, UnderLock, Answers
  <2>2. CASE CheckHealth(c)
    BY <2>2 DEF CheckHealth, TypeOK, Waiting, UnderLock, Answers
  <2> QED BY <1>3, <2>1, <2>2
<1>4. ASSUME NEW c \in Clients, StopServer(c) PROVE TypeOK'
  <2>1. CASE RequestShutdown(c)
    BY <2>1 DEF RequestShutdown, MayBeHealthy, TypeOK, Waiting, UnderLock, Answers, ServerStates,
                Alive
  <2>2. CASE WaitForExit(c)
    BY <2>2 DEF WaitForExit, TypeOK, Waiting, UnderLock, Answers
  <2>3. AfterClear(c) \in {"release", "spawn"}
    BY DEF AfterClear
  <2>4. CASE Clear(c)
    <3>1. /\ client' \in [Clients -> {"idle", "own", "dead"} \cup Waiting \cup UnderLock]
          /\ \A d \in Clients \ {c} : client'[d] = client[d]
          /\ client[c] = "clear" /\ client'[c] \in {"unlink", "release", "spawn"}
      BY <2>4, <2>3 DEF Clear, TypeOK, UnderLock
    <3>2. UNCHANGED <<lock, registration, port, server, op, seen, child, answer, wrongClear>>
      BY <2>4 DEF Clear
    <3> QED BY <3>1, <3>2 DEF TypeOK
  <2>5. CASE Unlink(c)
    <3>1. /\ client' \in [Clients -> {"idle", "own", "dead"} \cup Waiting \cup UnderLock]
          /\ \A d \in Clients \ {c} : client'[d] = client[d]
          /\ client'[c] \in {"release", "spawn"}
      BY <2>5, <2>3 DEF Unlink, TypeOK, UnderLock
    <3>2. registration' = None /\ wrongClear' \in BOOLEAN
      BY <2>5 DEF Unlink, TypeOK
    <3>3. UNCHANGED <<lock, port, server, op, seen, child, answer>>
      BY <2>5 DEF Unlink
    <3> QED BY <3>1, <3>2, <3>3 DEF TypeOK
  <2> QED BY <1>4, <2>1, <2>2, <2>4, <2>5 DEF StopServer
<1>5. ASSUME NEW c \in Clients, StartServer(c) PROVE TypeOK'
  <2>1. CASE Spawn(c)
    BY <2>1 DEF Spawn, TypeOK, Waiting, UnderLock, ServerStates, Alive
  <2>2. CASE SpawnFails(c)
    BY <2>2 DEF SpawnFails, TypeOK, Waiting, UnderLock, Answers
  <2>3. CASE PollRegistration(c)
    BY <2>3 DEF PollRegistration, TypeOK, Waiting, UnderLock
  <2>4. CASE PollHealth(c)
    BY <2>4 DEF PollHealth, TypeOK, Waiting, UnderLock, Answers
  <2>5. CASE StartFails(c)
    BY <2>5 DEF StartFails, TypeOK, Waiting, UnderLock, Answers, ServerStates, Alive
  <2> QED BY <1>5, <2>1, <2>2, <2>3, <2>4, <2>5 DEF StartServer
<1>6. ASSUME NEW c \in Clients, ClientDies(c) PROVE TypeOK'
  BY <1>6 DEF ClientDies, TypeOK, Waiting, UnderLock
<1>7. ASSUME NEW s \in Servers, ServerNext(s) \/ Terminate(s) \/ ServerDies(s) PROVE TypeOK'
  <2>1. CASE Publish(s)
    BY <2>1 DEF Publish, TypeOK, ServerStates, Alive
  <2>2. CASE Bind(s)
    BY <2>2 DEF Bind, TypeOK, ServerStates, Alive
  <2>3. CASE StopListening(s) \/ Terminate(s)
    BY <2>3 DEF StopListening, Terminate, TypeOK, ServerStates, Alive
  <2>4. CASE CleanUp(s)
    <3>1. /\ server' \in [Servers -> ServerStates]
          /\ \A r \in Servers : server'[r] \in Bound <=> server[r] \in Bound
      BY <2>4 DEF CleanUp, TypeOK, ServerStates, Alive
    <3> QED BY <2>4, <3>1 DEF CleanUp, TypeOK
  <2>5. CASE CleanUnlink(s)
    <3>1. /\ server' \in [Servers -> ServerStates]
          /\ \A r \in Servers : server'[r] \in Bound <=> server[r] \in Bound
      BY <2>5 DEF CleanUnlink, TypeOK, ServerStates, Alive
    <3>2. registration' = None /\ wrongClear' \in BOOLEAN
      BY <2>5 DEF CleanUnlink, TypeOK
    <3> QED BY <2>5, <3>1, <3>2 DEF CleanUnlink, TypeOK
  <2>6. CASE ServerDies(s)
    BY <2>6 DEF ServerDies, TypeOK, ServerStates, Alive
  <2> QED BY <1>7, <2>1, <2>2, <2>3, <2>4, <2>5, <2>6 DEF ServerNext
<1>8. CASE LockAges
  BY <1>8 DEF LockAges, TypeOK, NoLock
<1>9. CASE UNCHANGED vars
  BY <1>9 DEF vars, TypeOK
<1> QED BY <1>1, <1>2, <1>3, <1>4, <1>5, <1>6, <1>7, <1>8, <1>9 DEF Next

LEMMA NextOpInv ==
    ASSUME Quietly
    PROVE  TypeOK /\ OpInv /\ [Next]_vars => OpInv'
<1> SUFFICES ASSUME Quietly, TypeOK, OpInv, [Next]_vars PROVE OpInv'
  OBVIOUS
<1> USE DEF OpInv
<1>1. /\ client \in [Clients -> {"idle", "own", "dead"} \cup Waiting \cup UnderLock]
      /\ op \in [Clients -> Ops \cup {None}]
  BY DEF TypeOK
\* Who goes on with its operation, and does not start a server but for ensure.
<1>2. ASSUME NEW c \in Clients, NEW pc, client[c] # "idle", op' = op,
             client' = [client EXCEPT ![c] = pc],
             pc \in {"spawn", "wait", "waitHealth"} => op[c] = "ensure"
      PROVE  OpInv'
  BY <1>1, <1>2
<1>3. ASSUME NEW c \in Clients, Returns(c) PROVE OpInv'
  BY <1>1, <1>3 DEF Returns, Goto
<1>4. ASSUME NEW c \in Clients, NEW o \in Ops, Ask(c, o) PROVE OpInv'
  BY <1>1, <1>4, OpsAssumption DEF Ask, Goto, Quietly
<1>5. ASSUME NEW c \in Clients, TakeLock(c) \/ GiveUp(c) \/ Release(c) PROVE OpInv'
  <2>1. CASE Mkdir(c)
    BY <2>1, <1>2 DEF Mkdir, Goto
  <2>2. CASE WriteOwner(c)
    BY <2>2, <1>2, <1>3 DEF WriteOwner, Goto
  <2>3. CASE CheckOwner(c)
    BY <2>3, <1>2 DEF CheckOwner, Goto
  <2>4. CASE CheckAge(c)
    BY <2>4, <1>2 DEF CheckAge, Goto
  <2>5. CASE Steal(c)
    BY <2>5, <1>2 DEF Steal, Goto
  <2>6. CASE GiveUp(c) \/ Release(c)
    BY <2>6, <1>3 DEF GiveUp, Release
  <2> QED BY <1>5, <2>1, <2>2, <2>3, <2>4, <2>5, <2>6 DEF TakeLock
<1>6. ASSUME NEW c \in Clients, ReadRegistration(c) \/ CheckHealth(c) PROVE OpInv'
  <2>1. CASE ReadRegistration(c)
    BY <2>1, <1>2 DEF ReadRegistration, Goto
  <2>2. CASE CheckHealth(c)
    BY <2>2, <1>2 DEF CheckHealth, Goto
  <2> QED BY <1>6, <2>1, <2>2
<1>7. ASSUME NEW c \in Clients, StopServer(c) PROVE OpInv'
  <2>1. CASE RequestShutdown(c)
    BY <2>1, <1>2 DEF RequestShutdown, Goto
  <2>2. CASE WaitForExit(c)
    BY <2>2, <1>2 DEF WaitForExit, Goto
  <2>3. AfterClear(c) = "spawn" => op[c] # "stop"
    BY DEF AfterClear
  <2>4. AfterClear(c) \in {"spawn", "release"}
    BY DEF AfterClear
  <2>5. CASE Clear(c)
    BY <2>3, <2>4, <2>5, <1>2 DEF Clear, Goto
  <2>6. CASE Unlink(c)
    BY <2>3, <2>4, <2>6, <1>2 DEF Unlink, Goto
  <2> QED BY <1>7, <2>1, <2>2, <2>5, <2>6 DEF StopServer
<1>8. ASSUME NEW c \in Clients, StartServer(c) PROVE OpInv'
  <2>1. CASE Spawn(c) \/ SpawnFails(c)
    BY <2>1, <1>2 DEF Spawn, SpawnFails, Goto
  <2>2. CASE PollRegistration(c) \/ PollHealth(c)
    BY <2>2, <1>2 DEF PollRegistration, PollHealth, Goto
  <2>3. CASE StartFails(c)
    BY <2>3, <1>2 DEF StartFails, Goto
  <2> QED BY <1>8, <2>1, <2>2, <2>3 DEF StartServer
<1>9. ASSUME NEW c \in Clients, ClientDies(c) PROVE OpInv'
  BY <1>9 DEF ClientDies, Quietly
<1>10. ASSUME UNCHANGED <<client, op>> PROVE OpInv'
  BY <1>10
<1>11. ASSUME NEW s \in Servers, ServerNext(s) \/ Terminate(s) \/ ServerDies(s) PROVE OpInv'
  BY <1>11, <1>10
     DEF ServerNext, Publish, Bind, StopListening, CleanUp, CleanUnlink, Terminate,
         ServerDies, clients
<1>12. CASE LockAges \/ UNCHANGED vars
  BY <1>12, <1>10 DEF LockAges, vars, clients
<1> QED BY <1>4, <1>5, <1>6, <1>7, <1>8, <1>9, <1>11, <1>12 DEF Next

\* Nothing is bound where no registration is left, and the port is free.
LEMMA NothingBound ==
    ASSUME TypeOK, NEW r, registration \in {r, None}, r \notin Servers \/ server[r] \notin Bound,
           BoundInv
    PROVE  port = None
<1>1. ASSUME NEW s \in Servers, server[s] \in Bound PROVE FALSE
  BY <1>1, Distinct DEF BoundInv
<1> QED BY <1>1 DEF TypeOK

LEMMA NextRegistryOK ==
    ASSUME Quietly, TypeOK, LockInv, OpInv, RegistryOK, Next, ~wrongClear'
    PROVE  RegistryOK'
<1> DEFINE W == {"wait", "waitHealth"}
           Chk == {"health", "shutdown", "waitExit", "clear", "unlink"}
           Free == {"clear", "unlink", "spawn"}
           Told == {"notRunning", "stopped"}
<1>t. /\ client \in [Clients -> {"idle", "own", "dead"} \cup Waiting \cup UnderLock]
      /\ server \in [Servers -> ServerStates]
      /\ seen \in [Clients -> Servers \cup {None}]
      /\ child \in [Clients -> Servers \cup {None}]
      /\ answer \in [Clients -> Answers]
      /\ registration \in Servers \cup {None} /\ port \in Servers \cup {None}
      /\ \A s \in Servers : server[s] \in Bound <=> port = s
  BY DEF TypeOK
\* Who waits for a server is the only client under the lock.
<1>w. ASSUME NEW s \in Servers, server[s] \in Coming,
             NEW c \in Clients, client[c] \in {"own"} \cup UnderLock
      PROVE  client[c] \in W /\ child[c] = s
  <2>1. PICK d \in Clients : client[d] \in W /\ child[d] = s
    BY <1>w DEF RegistryOK, ComingInv
  <2>2. c = d
    BY <1>w, <2>1 DEF LockInv, OneHolder, Inside, UnderLock
  <2> QED BY <2>1, <2>2
\* A step of a client that neither starts nor stops to wait for a server.
<1>q. ASSUME NEW c \in Clients, NEW pc,
             client' = [client EXCEPT ![c] = pc], client[c] \notin W, pc \notin W,
             UNCHANGED <<registration, port>>,
             \A r \in Servers : server'[r] \in Bound <=> server[r] \in Bound,
             \A r \in Servers, x \in Coming : server'[r] = x <=> server[r] = x,
             \A d \in Clients \ {c} :
                 child'[d] = child[d] /\ seen'[d] = seen[d] /\ answer'[d] = answer[d],
             pc \in Chk => registration \in {seen'[c], None},
             pc \in Free => port = None,
             pc = "release" /\ answer'[c] \in Told => port = None
      PROVE  RegistryOK'
  <2>1. BoundInv'
    BY <1>q DEF RegistryOK, BoundInv, Coming
  <2>2. ComingInv'
    <3> SUFFICES ASSUME NEW s \in Servers, server'[s] \in Coming
                 PROVE  \E d \in Clients : client'[d] \in W /\ child'[d] = s
      BY DEF ComingInv
    <3>1. server[s] \in Coming
      BY <1>q
    <3>2. PICK d \in Clients : client[d] \in W /\ child[d] = s
      BY <3>1 DEF RegistryOK, ComingInv
    <3>3. d # c
      BY <1>q, <3>2
    <3> QED BY <1>q, <1>t, <3>2, <3>3
  <2>3. WaitInv'
    <3> SUFFICES ASSUME NEW d \in Clients, client'[d] \in W, NEW s \in Servers,
                        server'[s] \in Coming \cup Bound
                 PROVE  s = child'[d]
      BY DEF WaitInv
    <3>1. d # c
      BY <1>q, <1>t
    <3>2. client[d] \in W /\ child'[d] = child[d]
      BY <1>q, <1>t, <3>1
    <3>3. server[s] \in Coming \cup Bound
      BY <1>q
    <3> QED BY <3>2, <3>3 DEF RegistryOK, WaitInv
  <2>4. HolderInv'
    <3> SUFFICES ASSUME NEW d \in Clients
                 PROVE  /\ client'[d] \in Chk => registration' \in {seen'[d], None}
                        /\ client'[d] \in Free => port' = None
                        /\ client'[d] = "release" /\ answer'[d] \in Told => port' = None
      BY DEF HolderInv
    <3>1. CASE d = c
      BY <1>q, <1>t, <3>1
    <3>2. CASE d # c
      BY <1>q, <1>t, <3>2 DEF RegistryOK, HolderInv
    <3> QED BY <3>1, <3>2
  <2> QED BY <2>1, <2>2, <2>3, <2>4 DEF RegistryOK
<1> HIDE DEF W, Chk, Free, Told
<1> USE DEF clients
\* A step of a server that leaves the clients alone.
<1>s. ASSUME UNCHANGED <<client, seen, child, answer>>,
             \A r \in Servers : server'[r] \in Bound \cup {"registered"} => registration' = r,
             \A r \in Servers : server'[r] \in Coming => server[r] \in Coming,
             \A r \in Servers : server'[r] \in Coming \cup Bound => server[r] \in Coming \cup Bound,
             registration' \in {registration, None}
               \/ \A c \in Clients : client[c] \notin Chk,
             port' \in {port, None} \/ \A c \in Clients : client[c] \notin Free \cup {"release"}
      PROVE  RegistryOK'
  <2>1. BoundInv' /\ ComingInv' /\ WaitInv'
    BY <1>s DEF RegistryOK, BoundInv, ComingInv, WaitInv
  <2>2. HolderInv'
    BY <1>s DEF RegistryOK, HolderInv, Chk, Free, Told
  <2> QED BY <2>1, <2>2 DEF RegistryOK
<1>1. ASSUME NEW c \in Clients, NEW o \in Ops, Ask(c, o) PROVE RegistryOK'
  BY <1>1, <1>q DEF Ask, Goto, W, Chk, Free
<1>2. ASSUME NEW c \in Clients, TakeLock(c) \/ GiveUp(c) \/ Release(c) PROVE RegistryOK'
  <2>1. ASSUME Returns(c), client[c] \notin W, UNCHANGED <<registration, port, server>>
        PROVE  RegistryOK'
    <3>1. client' = [client EXCEPT ![c] = "idle"]
      BY <2>1 DEF Returns, Goto
    <3>2. \A d \in Clients \ {c} :
              child'[d] = child[d] /\ seen'[d] = seen[d] /\ answer'[d] = answer[d]
      BY <1>t, <2>1 DEF Returns, Reply
    <3> QED BY <2>1, <3>1, <3>2, <1>q DEF W, Chk, Free
  <2>2. CASE Mkdir(c)
    BY <2>2, <1>q DEF Mkdir, Goto, W, Chk, Free
  <2>3. CASE WriteOwner(c)
    BY <2>3, <1>q, <2>1 DEF WriteOwner, Goto, W, Chk, Free
  <2>4. CASE CheckOwner(c)
    <3>1. \E pc \in {"steal", "checkAge"} : client' = [client EXCEPT ![c] = pc]
      BY <2>4 DEF CheckOwner, Goto
    <3> QED BY <2>4, <3>1, <1>q DEF CheckOwner, W, Chk, Free
  <2>5. CASE CheckAge(c)
    BY <2>5, <1>q, ZenonT(40) DEF CheckAge, Goto, W, Chk, Free
  <2>6. CASE Steal(c)
    BY <2>6 DEF Steal, LockInv, Calm
  <2>7. CASE GiveUp(c) \/ Release(c)
    BY <2>1, <2>7 DEF GiveUp, Release, W
  <2> QED BY <1>2, <2>2, <2>3, <2>4, <2>5, <2>6, <2>7 DEF TakeLock
\* Without a registration nothing is bound; a server that was read and is not
\* bound leaves nothing bound either.
<1>3. registration = None => port = None
  BY NothingBound, Distinct DEF RegistryOK
<1>4. ASSUME NEW c \in Clients, client[c] \in Chk, MayBeUnhealthy(seen[c]) PROVE port = None
  <2>1. registration \in {seen[c], None}
    BY <1>4 DEF RegistryOK, HolderInv, Chk
  <2>2. seen[c] \notin Servers \/ server[seen[c]] \notin Bound
    BY <1>4 DEF MayBeUnhealthy, Quietly
  <2> QED BY <2>1, <2>2, NothingBound DEF RegistryOK
<1>5. ASSUME NEW c \in Clients, ReadRegistration(c) PROVE RegistryOK'
  <2>1. CASE registration # None
    BY <1>5, <2>1, <1>q, <1>t DEF ReadRegistration, Goto, Reads, W, Chk, Free
  <2>2. CASE registration = None
    BY <1>5, <2>2, <1>q, <1>t, <1>3 DEF ReadRegistration, Goto, Reads, Reply, W, Chk, Free
  <2> QED BY <2>1, <2>2
<1>6. ASSUME NEW c \in Clients, CheckHealth(c) PROVE RegistryOK'
  <2>1. client[c] \in Chk /\ client[c] \notin W /\ seen[c] \in Servers
    BY <1>6, <1>t DEF CheckHealth, Chk, W, TypeOK
  <2>2. registration \in {seen[c], None}
    BY <2>1 DEF RegistryOK, HolderInv, Chk
  <2>3. CASE client' = [client EXCEPT ![c] = "release"] /\ answer' = [answer EXCEPT ![c] = seen[c]]
    <3>1. answer'[c] \notin Told
      BY <2>1, <2>3, <1>t, AnswersApart DEF Told
    <3>2. UNCHANGED <<registration, port, server, seen, child>>
      BY <1>6 DEF CheckHealth
    <3> QED BY <2>1, <2>3, <3>1, <3>2, <1>q, <1>t DEF W, Chk, Free
  <2>4. CASE client' = [client EXCEPT ![c] = "shutdown"] /\ answer' = answer
    BY <1>6, <2>1, <2>2, <2>4, <1>q DEF CheckHealth, W, Chk, Free
  <2>5. CASE MayBeUnhealthy(seen[c]) /\ client' = [client EXCEPT ![c] = "clear"]
               /\ \A d \in Clients \ {c} : answer'[d] = answer[d]
    BY <1>6, <2>1, <2>2, <2>5, <1>4, <1>q DEF CheckHealth, W, Chk, Free
  <2> QED BY <1>6, <2>3, <2>4, <2>5, <1>t DEF CheckHealth, Goto, Reply
<1>7. ASSUME NEW c \in Clients, StopServer(c) PROVE RegistryOK'
  <2>1. client[c] \in Chk /\ client[c] \notin W /\ registration \in {seen[c], None}
    BY <1>7 DEF StopServer, RequestShutdown, WaitForExit, Clear, Unlink, Chk, W,
                RegistryOK, HolderInv
  <2>2. CASE RequestShutdown(c)
    <3>1. /\ \A r \in Servers : server'[r] \in Bound <=> server[r] \in Bound
          /\ \A r \in Servers, x \in Coming : server'[r] = x <=> server[r] = x
      BY <2>2, <1>t DEF RequestShutdown, MayBeHealthy, Becomes, Bound, Coming
    <3>2. CASE client' = [client EXCEPT ![c] = "waitExit"] /\ answer' = answer
      <4>1. UNCHANGED <<registration, port, seen, child>>
        BY <2>2 DEF RequestShutdown
      <4>2. \A d \in Clients \ {c} :
                child'[d] = child[d] /\ seen'[d] = seen[d] /\ answer'[d] = answer[d]
        BY <3>2, <4>1
      <4>3. "waitExit" \notin W \cup Free \cup {"release"} /\ registration \in {seen'[c], None}
        BY <2>1, <4>1 DEF W, Free
      <4> QED BY <2>1, <3>1, <3>2, <4>1, <4>2, <4>3, <1>q
    <3>3. CASE client' = [client EXCEPT ![c] = "release"] /\ Reply(c, "failed")
      BY <2>1, <2>2, <3>1, <3>3, <1>q, <1>t DEF RequestShutdown, Reply, W, Chk, Free, Told
    <3> QED BY <2>2, <3>2, <3>3 DEF RequestShutdown, Goto
  <2>3. CASE WaitForExit(c)
    <3>1. CASE /\ client' = [client EXCEPT ![c] = "clear"] /\ MayBeUnhealthy(seen[c])
               /\ \A d \in Clients \ {c} : answer'[d] = answer[d]
      BY <2>1, <2>3, <3>1, <1>4, <1>q DEF WaitForExit, W, Chk, Free
    <3>2. CASE client' = [client EXCEPT ![c] = "release"] /\ Reply(c, "failed")
      BY <2>1, <2>3, <3>2, <1>q, <1>t DEF WaitForExit, Reply, W, Chk, Free, Told
    <3> QED BY <2>3, <3>1, <3>2, <1>t DEF WaitForExit, Goto, Reply
  <2>4. AfterClear(c) \in {"release", "spawn"}
    BY DEF AfterClear
  <2>5. client[c] \in {"clear", "unlink"} => port = None
    BY DEF RegistryOK, HolderInv
  <2>6. CASE Clear(c)
    <3>1. \E pc \in {"unlink", "release", "spawn"} : client' = [client EXCEPT ![c] = pc]
      BY <2>4, <2>6 DEF Clear, Goto
    <3> QED BY <2>1, <2>5, <2>6, <3>1, <1>q DEF Clear, W, Chk, Free
  <2>7. CASE Unlink(c)
    <3>1. /\ client[c] = "unlink" /\ port = None /\ registration' = None
          /\ UNCHANGED <<port, server, seen, child, answer>>
      BY <2>5, <2>7 DEF Unlink
    <3>2. PICK pc \in {"release", "spawn"} : client' = [client EXCEPT ![c] = pc]
      BY <2>4, <2>7 DEF Unlink, Goto
    <3>3. \A r \in Servers : server[r] \notin Bound \cup Coming
      BY <3>1, <1>t, <1>w, Distinct DEF UnderLock, W
    <3>4. BoundInv' /\ ComingInv' /\ WaitInv'
      BY <3>1, <3>3 DEF BoundInv, ComingInv, WaitInv, Coming
    <3>5. HolderInv'
      BY <3>1, Distinct DEF HolderInv
    <3> QED BY <3>4, <3>5 DEF RegistryOK
  <2> QED BY <1>7, <2>2, <2>3, <2>6, <2>7 DEF StopServer
<1>8. ASSUME NEW c \in Clients, StartServer(c) PROVE RegistryOK'
  <2>1. CASE Spawn(c)
    <3>1. PICK s \in Servers : /\ server[s] = "none"
                               /\ server' = [server EXCEPT ![s] = "starting"]
                               /\ child' = [child EXCEPT ![c] = s]
      BY <2>1 DEF Spawn, Becomes
    <3>2. /\ client[c] = "spawn" /\ client' = [client EXCEPT ![c] = "wait"]
          /\ UNCHANGED <<registration, port, seen, answer>>
      BY <2>1 DEF Spawn, Goto
    <3>3. port = None
      BY <3>2 DEF RegistryOK, HolderInv
    <3>4. \A r \in Servers : server[r] \notin Bound \cup Coming
      BY <3>2, <3>3, <1>t, <1>w, Distinct DEF UnderLock, W
    <3>5. \A r \in Servers : server'[r] \in Bound \cup Coming => r = s /\ server'[r] = "starting"
      BY <3>1, <3>4, <1>t
    <3>6. \A d \in Clients : client[d] \notin W
      BY <3>2 DEF LockInv, OneHolder, Inside, UnderLock, W
    <3>7. BoundInv'
      BY <3>5 DEF BoundInv, Coming, Bound
    <3>8. ComingInv' /\ WaitInv'
      BY <3>1, <3>2, <3>5, <3>6, <1>t DEF ComingInv, WaitInv, W
    <3>9. HolderInv'
      BY <3>2, <3>3, <1>t DEF RegistryOK, HolderInv
    <3> QED BY <3>7, <3>8, <3>9 DEF RegistryOK
  <2>2. CASE SpawnFails(c)
    <3>1. /\ client[c] = "spawn" /\ client' = [client EXCEPT ![c] = "release"]
          /\ UNCHANGED <<registration, port, server, seen, child>>
      BY <2>2 DEF SpawnFails, Goto
    <3>2. answer'[c] \notin Told /\ \A d \in Clients \ {c} : answer'[d] = answer[d]
      BY <2>2, <1>t DEF SpawnFails, Reply, Told
    <3> QED BY <3>1, <3>2, <1>q DEF W, Chk, Free
  <2>3. ASSUME client[c] \in W, NEW pc \in W, client' = [client EXCEPT ![c] = pc],
               UNCHANGED <<registration, port, server, child, answer>>,
               \A d \in Clients \ {c} : seen'[d] = seen[d]
        PROVE  RegistryOK'
    <3>1. BoundInv' /\ ComingInv' /\ WaitInv'
      BY <2>3, <1>t DEF RegistryOK, BoundInv, ComingInv, WaitInv, W
    <3>2. HolderInv'
      BY <2>3, <1>t DEF RegistryOK, HolderInv, W
    <3> QED BY <3>1, <3>2 DEF RegistryOK
  \* The end of the wait: nothing is left to come, unless it was the child.
  <2>4. ASSUME client[c] \in W, client' = [client EXCEPT ![c] = "release"], answer'[c] \notin Told,
               UNCHANGED <<registration, seen, child>>, port' \in {port, None},
               \A d \in Clients \ {c} : answer'[d] = answer[d],
               \A r \in Servers : server'[r] \in Coming \cup Bound => server'[r] = server[r],
               \A r \in Servers : r = child[c] => server'[r] \notin Coming
        PROVE  RegistryOK'
    <3>1. BoundInv' /\ WaitInv'
      BY <2>4, <1>t DEF RegistryOK, BoundInv, WaitInv, Coming
    <3>2. ComingInv'
      BY <2>4, <1>t DEF RegistryOK, ComingInv
    <3>3. HolderInv'
      BY <2>4, <1>t DEF RegistryOK, HolderInv, Told
    <3> QED BY <3>1, <3>2, <3>3 DEF RegistryOK
  <2>5. CASE PollRegistration(c)
    BY <2>3, <2>5, <1>t DEF PollRegistration, Goto, Reads, W
  <2>6. CASE PollHealth(c)
    <3>1. CASE /\ MayBeHealthy(seen[c]) /\ client' = [client EXCEPT ![c] = "release"]
               /\ Reply(c, seen[c])
      <4>1. client[c] \in W /\ seen[c] \in Servers
        BY <2>6, <1>t DEF PollHealth, TypeOK, W
      <4>2. answer'[c] \notin Told /\ \A d \in Clients \ {c} : answer'[d] = answer[d]
        BY <3>1, <4>1, <1>t, AnswersApart DEF Reply, Told
      <4>3. seen[c] = child[c] /\ server[seen[c]] \in Bound
        BY <3>1, <4>1 DEF RegistryOK, WaitInv, MayBeHealthy, W
      <4>4. \A r \in Servers : r = child[c] => server[r] \notin Coming
        BY <4>3 DEF Coming, Bound
      <4> QED BY <2>4, <2>6, <3>1, <4>1, <4>2, <4>4 DEF PollHealth
    <3>2. CASE client' = [client EXCEPT ![c] = "wait"] /\ answer' = answer
      BY <2>3, <2>6, <3>2 DEF PollHealth, W
    <3> QED BY <2>6, <3>1, <3>2 DEF PollHealth, Goto
  <2>7. CASE StartFails(c)
    <3>1. client[c] \in W /\ child[c] \in Servers /\ op[c] = "ensure"
      BY <2>7, <1>t DEF StartFails, W, OpInv, TypeOK
    <3>2. \A r \in Servers : server'[r] \in Coming \cup Bound => server'[r] = server[r]
      BY <2>7, <3>1, <1>t DEF StartFails, Coming, Bound
    <3>3. server'[child[c]] \notin Coming
      BY <2>7, <3>1, <1>t DEF StartFails, Coming, Alive
    <3>4. port' \in {port, None}
      BY <2>7 DEF StartFails
    <3>5. answer'[c] \notin Told /\ \A d \in Clients \ {c} : answer'[d] = answer[d]
      BY <2>7, <1>t DEF StartFails, Reply, Told
    <3> QED BY <2>4, <2>7, <3>1, <3>2, <3>3, <3>4, <3>5 DEF StartFails, Goto
  <2> QED BY <1>8, <2>1, <2>2, <2>5, <2>6, <2>7 DEF StartServer
<1>9. ASSUME NEW c \in Clients, ClientDies(c) PROVE FALSE
  BY <1>9 DEF ClientDies, Quietly
<1>10. ASSUME NEW s \in Servers, ServerNext(s) \/ Terminate(s) \/ ServerDies(s) PROVE RegistryOK'
  <2>1. CASE Publish(s)
    <3>1. CASE registration = None /\ registration' = s /\ Becomes(s, "registered")
      <4>1. \A c \in Clients : client[c] \notin Chk
        BY <2>1, <1>w DEF Publish, Coming, Chk, W, UnderLock
      <4>2. \A r \in Servers : server[r] \notin Bound \cup {"registered"}
        BY <3>1, Distinct DEF RegistryOK, BoundInv
      <4> QED BY <2>1, <3>1, <4>1, <4>2, <1>s, <1>t DEF Publish, Becomes, Coming
    <3>2. CASE Becomes(s, "exited") /\ UNCHANGED registration
      BY <2>1, <3>2, <1>s, <1>t DEF Publish, Becomes, Coming, Bound, RegistryOK, BoundInv
    <3> QED BY <2>1, <3>1, <3>2 DEF Publish
  <2>2. CASE Bind(s)
    <3>1. server[s] = "registered" /\ registration = s
      BY <2>2 DEF Bind, RegistryOK, BoundInv
    <3>2. CASE port' = s /\ Becomes(s, "serving")
      <4>1. \A c \in Clients : client[c] \notin Free \cup {"release"}
        BY <3>1, <1>w DEF Coming, Free, W, UnderLock
      <4> QED BY <2>2, <3>1, <3>2, <4>1, <1>s, <1>t
              DEF Bind, Becomes, Coming, Bound, RegistryOK, BoundInv
    <3>3. CASE Becomes(s, "cleaning") /\ UNCHANGED port
      BY <2>2, <3>3, <1>s, <1>t DEF Bind, Becomes, Coming, Bound, RegistryOK, BoundInv
    <3> QED BY <2>2, <3>2, <3>3 DEF Bind
  <2>3. CASE StopListening(s)
    BY <2>3, <1>s, <1>t DEF StopListening, Becomes, Coming, Bound, RegistryOK, BoundInv
  <2>4. CASE Terminate(s)
    BY <2>4, <1>s, <1>t DEF Terminate, Becomes, Coming, Bound, RegistryOK, BoundInv
  <2>5. CASE CleanUp(s)
    <3>1. \A r \in Servers : server'[r] \in Coming \cup Bound => server'[r] = server[r]
      BY <2>5, <1>t DEF CleanUp, Becomes, Coming, Bound
    <3> QED BY <2>5, <3>1, <1>s DEF CleanUp, Coming, Bound, RegistryOK, BoundInv
  <2>6. CASE CleanUnlink(s)
    <3>1. registration \in {s, None}
      BY <2>6 DEF CleanUnlink
    <3>2. \A r \in Servers : server[r] \notin Bound \cup {"registered"}
      BY <2>6, <3>1, Distinct DEF CleanUnlink, RegistryOK, BoundInv, Bound
    <3>3. \A r \in Servers : server'[r] \in Coming \cup Bound => server'[r] = server[r]
      BY <2>6, <1>t DEF CleanUnlink, Becomes, Coming, Bound
    <3> QED BY <2>6, <3>2, <3>3, <1>s DEF CleanUnlink, Coming, Bound
  <2>7. CASE ServerDies(s)
    BY <2>7 DEF ServerDies, Quietly
  <2> QED BY <1>10, <2>1, <2>2, <2>3, <2>4, <2>5, <2>6, <2>7 DEF ServerNext
<1>11. CASE LockAges
  BY <1>11 DEF LockAges, Quietly
<1> QED BY <1>1, <1>2, <1>5, <1>6, <1>7, <1>8, <1>9, <1>10, <1>11 DEF Next
(* As long as nobody dies or is slow, and no client runs a server in its   *)
(* foreground, a server that is up can be found by its registration, and   *)
(* a stop that says there is none tells the truth.                         *)
THEOREM ServersAreFound ==
    ASSUME ~MayCrash, ~MayAge, ~MaySlow, "run" \notin Ops
    PROVE  Spec => []ServersAreAccounted
<1> DEFINE IInv == TypeOK /\ LockTypeOK /\ LockInv /\ OpInv /\ RegistryInv
<1>1. Init => IInv
  <2> SUFFICES ASSUME Init PROVE IInv
    OBVIOUS
  <2>1. \A c \in Clients : client[c] = "idle"
    BY DEF Init
  <2>2. TypeOK
    BY InitTypeOK
  <2>3. LockTypeOK /\ LockInv /\ OpInv
    BY <2>1, <2>2
       DEF Init, TypeOK, LockTypeOK, LockInv, Calm, OneHolder, Inside, NoLock, PCs, UnderLock,
           OpInv
  <2>4. WaitInv /\ HolderInv
    BY <2>1 DEF WaitInv, HolderInv
  <2>5. BoundInv /\ ComingInv
    BY OutdatedServers DEF Init, BoundInv, ComingInv, Coming, Bound
  <2> QED BY <2>2, <2>3, <2>4, <2>5 DEF RegistryInv, RegistryOK
<1>2. IInv /\ [Next]_vars => IInv'
  <2> SUFFICES ASSUME IInv, [Next]_vars PROVE IInv'
    OBVIOUS
  <2>1. TypeOK' /\ LockTypeOK' /\ LockInv'
    BY NextTypeOK, NextLockInv
  <2>2. OpInv'
    BY NextOpInv DEF Quietly
  <2>3. ~wrongClear' => ~wrongClear
    BY DEF Next, Ask, TakeLock, Mkdir, WriteOwner, CheckOwner, CheckAge, Steal, GiveUp, Release,
           ReadRegistration, CheckHealth, StopServer, RequestShutdown, WaitForExit, Clear, Unlink,
           StartServer, Spawn, SpawnFails, PollRegistration, PollHealth, StartFails, ClientDies,
           ServerNext, Publish, Bind, StopListening, CleanUp, CleanUnlink, Terminate, ServerDies,
           LockAges, vars
  <2>4. ASSUME UNCHANGED vars PROVE RegistryInv'
    <3>1. UNCHANGED <<registration, port, server, client, op, seen, child, answer, wrongClear>>
      BY <2>4 DEF vars, clients
    <3>2. BoundInv' = BoundInv /\ WaitInv' = WaitInv
      BY <3>1 DEF BoundInv, WaitInv
    <3>3. ComingInv' = ComingInv /\ HolderInv' = HolderInv
      BY <3>1 DEF ComingInv, HolderInv
    <3> QED BY <3>1, <3>2, <3>3 DEF RegistryInv, RegistryOK
  <2>5. ASSUME Next PROVE RegistryInv'
    <3> SUFFICES ASSUME ~wrongClear' PROVE RegistryOK'
      BY DEF RegistryInv
    <3>1. RegistryOK
      BY <2>3 DEF RegistryInv
    <3>2. TypeOK /\ LockInv /\ OpInv
      OBVIOUS
    <3>3. Quietly
      BY DEF Quietly
    <3> QED BY <2>5, <3>1, <3>2, <3>3, NextRegistryOK
  <2> QED BY <2>1, <2>2, <2>4, <2>5 DEF RegistryInv
<1>3. IInv => ServersAreAccounted
  BY DEF ServersAreAccounted, ServingIsRegistered, StopIsTrue, RegistryInv, RegistryOK, BoundInv,
         HolderInv, Bound
<1> QED BY <1>1, <1>2, <1>3, PTL DEF Spec

=============================================================================
