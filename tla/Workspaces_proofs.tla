-------------------------- MODULE Workspaces_proofs --------------------------
(***************************************************************************)
(* Theorems about Workspaces, for any number of requests and starts.       *)
(***************************************************************************)
EXTENDS Workspaces, TLAPS

(***************************************************************************)
(* The start that the map records is the only one that is not finished.    *)
(* It is taken out of the map by a request that has seen it finish, which  *)
(* is what AwaitInv adds.                                                  *)
(***************************************************************************)
MapsOK ==
    /\ task \in [Tasks -> TaskStates]
    /\ request \in [Requests -> RequestStates]
    /\ waitsFor \in [Requests -> Tasks \cup {None}]
    /\ installed \in Tasks \cup {None} /\ start \in Tasks \cup {None}

StartInv ==
    \A t \in Tasks : task[t] \in {"lookup", "install"} => start = t /\ installed = None

AwaitInv ==
    \A r \in Requests :
        /\ request[r] \in {"await", "getDone"} => waitsFor[r] \in Tasks
        /\ request[r] = "getDone" => task[waitsFor[r]] = "done"

StartsInv == MapsOK /\ StartInv /\ AwaitInv

LEMMA InitStartsInv == Init => StartsInv
BY DEF Init, StartsInv, MapsOK, StartInv, AwaitInv, TaskStates, RequestStates

LEMMA NextStartsInv == StartsInv /\ [Next]_vars => StartsInv'
<1> SUFFICES ASSUME StartsInv, [Next]_vars PROVE StartsInv'
  OBVIOUS
<1> USE ActorsApart
        DEF StartsInv, MapsOK, StartInv, AwaitInv, TaskStates, RequestStates, Goto,
            requests
<1>1. ASSUME NEW r \in Requests, Get(r) PROVE StartsInv'
  BY <1>1 DEF Get
<1>2. ASSUME NEW r \in Requests, GetLocked(r) PROVE StartsInv'
  <2>1. CASE UNCHANGED <<start, task, waitsFor>>
    BY <1>2, <2>1 DEF GetLocked
  <2>2. CASE start # None
    BY <1>2, <2>2 DEF GetLocked
  <2>3. CASE installed = None /\ start = None /\ ~ UNCHANGED <<start, task, waitsFor>>
    <3>1. PICK t \in Tasks :
              /\ task[t] = "none"
              /\ task' = [task EXCEPT ![t] = "lookup"] /\ start' = t
              /\ waitsFor' = [waitsFor EXCEPT ![r] = t]
      BY <1>2, <2>3 DEF GetLocked
    <3>2. request' = [request EXCEPT ![r] = "await"] /\ installed' = installed
      BY <1>2, <2>3 DEF GetLocked
    <3> QED BY <2>3, <3>1, <3>2
  <2> QED BY <1>2, <2>1, <2>2, <2>3 DEF GetLocked
<1>3. ASSUME NEW r \in Requests, GetGivesUp(r) PROVE StartsInv'
  BY <1>3 DEF GetGivesUp
<1>4. ASSUME NEW r \in Requests, GetAwoken(r) PROVE StartsInv'
  BY <1>4 DEF GetAwoken
<1>5. ASSUME NEW r \in Requests, GetDone(r) PROVE StartsInv'
  <2>1. waitsFor[r] \in Tasks /\ task[waitsFor[r]] = "done"
    BY <1>5 DEF GetDone
  <2>2. MapsOK'
    BY <1>5 DEF GetDone
  <2>3. StartInv'
    BY <1>5, <2>1 DEF GetDone
  <2>4. AwaitInv'
    BY <1>5 DEF GetDone
  <2> QED BY <2>2, <2>3, <2>4
<1>6. ASSUME NEW r \in Requests, Respond(r) PROVE StartsInv'
  BY <1>6 DEF Respond
<1>7. ASSUME NEW r \in Requests, RemoveCheck(r) PROVE StartsInv'
  BY <1>7 DEF RemoveCheck
<1>8. ASSUME NEW r \in Requests, Evict(r) PROVE StartsInv'
  BY <1>8 DEF Evict
<1>9. ASSUME NEW r \in Requests, EvictClose(r) PROVE StartsInv'
  BY <1>9 DEF EvictClose
<1>10. ASSUME NEW r \in Requests, Unregister(r) PROVE StartsInv'
  BY <1>10 DEF Unregister
<1>11. ASSUME NEW r \in Requests, Register(r) PROVE StartsInv'
  BY <1>11 DEF Register
<1>12. ASSUME NEW t \in Tasks, Lookup(t) PROVE StartsInv'
  BY <1>12 DEF Lookup
<1>13. ASSUME NEW t \in Tasks, Install(t) PROVE StartsInv'
  BY <1>13 DEF Install
<1>14. CASE Shutdown
  BY <1>14 DEF Shutdown
<1>15. CASE UNCHANGED vars
  BY <1>15 DEF vars
<1> QED
  BY <1>1, <1>2, <1>3, <1>4, <1>5, <1>6, <1>7, <1>8, <1>9, <1>10, <1>11, <1>12,
     <1>13, <1>14, <1>15
     DEF Next, GetNext, RemoveNext, TaskNext

(* Concurrent requests never have two starts of one project in flight.     *)
THEOREM SingleStart == Spec => []OneStartAtATime
<1>1. StartsInv => OneStartAtATime
  BY DEF StartsInv, StartInv, OneStartAtATime, Starting
<1> QED BY <1>1, InitStartsInv, NextStartsInv, PTL DEF Spec

(* No runtime is built only to be discarded.                               *)
THEOREM NoBuildInVain == Spec => []NothingBuiltInVain
<1>1. StartsInv => NothingBuiltInVain
  BY DEF StartsInv, StartInv, NothingBuiltInVain
<1> QED BY <1>1, InitStartsInv, NextStartsInv, PTL DEF Spec

(* Requests share one start, and it is never repeated in vain.             *)
THEOREM SharedStarts == Spec => []StartsAreShared
BY SingleStart, NoBuildInVain, PTL DEF StartsAreShared

-----------------------------------------------------------------------------
(***************************************************************************)
(* Nothing leaks.  Each part says of one holder of an open runtime that it *)
(* will hand it on or close it.  AwaitedInv is why close() need not look   *)
(* at the starts: while one is in flight a request waits for it, and a     *)
(* shutdown begins when no request is left.                                *)
(***************************************************************************)
BuiltInv ==
    \A t \in Tasks :
        /\ task[t] = "install" => runtime[t] = "open"
        /\ task[t] \in {"none", "lookup"} => runtime[t] = "none"

AwaitedInv ==
    \A t \in Tasks : task[t] \in {"lookup", "install"} =>
        \E r \in Requests : request[r] = "await" /\ waitsFor[r] = t

InstalledInv == installed # None => task[installed] = "done" /\ runtime[installed] = "open"

VictimInv ==
    \A r \in Requests : request[r] = "closing" =>
        victim[r] \in Tasks /\ task[victim[r]] = "done" /\ victim[r] # installed

DownInv == ~up => installed = None /\ \A r \in Requests : request[r] = "idle"

RuntimesInv ==
    TypeOK /\ StartsInv /\ BuiltInv /\ AwaitedInv /\ InstalledInv /\ VictimInv
    /\ DownInv /\ OpenIsAccounted

LEMMA InitRuntimesInv == Init => RuntimesInv
<1> SUFFICES ASSUME Init PROVE RuntimesInv
  OBVIOUS
<1>1. TypeOK
  BY ActorsApart DEF Init, TypeOK, TaskStates, RequestStates
<1>2. StartsInv
  BY InitStartsInv
<1> QED
  BY <1>1, <1>2 DEF Init, RuntimesInv, BuiltInv, AwaitedInv, InstalledInv, VictimInv, DownInv,
                    OpenIsAccounted

LEMMA HeadLeaves ==
    ASSUME NEW S, NEW q \in Seq(S), q # <<>>
    PROVE  Tail(q) \in Seq(S)
OBVIOUS

LEMMA ActorWaits ==
    ASSUME lockQueue \in Seq(Requests \cup Tasks), NEW a \in Requests \cup Tasks
    PROVE  Append(lockQueue, a) \in Seq(Requests \cup Tasks)
OBVIOUS

LEMMA NextRuntimesInv == RuntimesInv /\ [Next]_vars => RuntimesInv'
<1> SUFFICES ASSUME RuntimesInv, [Next]_vars PROVE RuntimesInv'
  OBVIOUS
<1>0. /\ TypeOK /\ StartsInv /\ BuiltInv /\ AwaitedInv /\ InstalledInv /\ VictimInv
      /\ DownInv /\ OpenIsAccounted
  BY DEF RuntimesInv
<1>s. StartsInv'
  BY <1>0, NextStartsInv
<1>n. None \notin Tasks
  BY ActorsApart
<1> USE <1>0, <1>n
        DEF TaskStates, RequestStates, Goto, Uses, requests, HasLock
<1> DEFINE Parts == /\ TypeOK /\ BuiltInv /\ AwaitedInv /\ InstalledInv /\ VictimInv
                    /\ DownInv /\ OpenIsAccounted
<1>1. ASSUME NEW r \in Requests, Get(r) PROVE Parts'
  <2>1. TypeOK'
    <3>1. lockQueue' \in Seq(Requests \cup Tasks)
      <4>1. lockQueue \in Seq(Requests \cup Tasks)
        BY DEF TypeOK
      <4>2. Append(lockQueue, r) \in Seq(Requests \cup Tasks)
        BY <4>1, ActorWaits
      <4>3. lockQueue' = lockQueue \/ lockQueue' = Append(lockQueue, r)
        BY <1>1 DEF Get
      <4> QED BY <4>1, <4>2, <4>3
    <3>2. request' \in [Requests -> RequestStates] /\ handle' \in [Requests -> Tasks \cup {None}]
      BY <1>1 DEF Get, TypeOK
    <3>3. \A q \in Requests : /\ request'[q] = "using" => handle'[q] # None
                              /\ request'[q] = "closing" => request[q] = "closing"
      BY <1>1 DEF Get, TypeOK
    <3>4. UNCHANGED <<registered, installed, start, task, result, runtime, waitsFor, victim, up>>
      BY <1>1 DEF Get
    <3> QED BY <3>1, <3>2, <3>3, <3>4 DEF TypeOK
  <2>2. BuiltInv' /\ InstalledInv'
    BY <1>1 DEF Get, BuiltInv, InstalledInv
  <2>3. AwaitedInv' /\ VictimInv' /\ DownInv' /\ OpenIsAccounted'
    BY <1>1 DEF Get, TypeOK, AwaitedInv, VictimInv, DownInv, OpenIsAccounted
  <2> QED BY <2>1, <2>2, <2>3
<1>2. ASSUME NEW r \in Requests, GetLocked(r) PROVE Parts'
  <2>1. lockQueue' \in Seq(Requests \cup Tasks)
    BY <1>2, HeadLeaves DEF GetLocked, TypeOK
  <2>2. /\ request[r] = "getLock"
        /\ UNCHANGED <<registered, installed, result, runtime, victim, up>>
    BY <1>2 DEF GetLocked
  <2>3. ASSUME NEW state \in {"using", "await"},
               request' = [request EXCEPT ![r] = state],
               handle' \in [Requests -> Tasks \cup {None}],
               \A q \in Requests : request'[q] = "using" => handle'[q] # None,
               waitsFor' \in [Requests -> Tasks \cup {None}],
               task' \in [Tasks -> TaskStates], start' \in Tasks \cup {None},
               \A q \in Requests : q # r => waitsFor'[q] = waitsFor[q],
               \A t \in Tasks : task'[t] = task[t] \/
                   (task[t] = "none" /\ task'[t] = "lookup" /\ state = "await"
                    /\ waitsFor'[r] = t)
        PROVE  Parts'
    <3>1. TypeOK'
      BY <2>1, <2>2, <2>3 DEF TypeOK
    <3>2. BuiltInv'
      BY <2>2, <2>3 DEF BuiltInv
    <3>3. AwaitedInv'
      BY <2>2, <2>3 DEF AwaitedInv, TypeOK
    <3>4. InstalledInv' /\ VictimInv'
      BY <2>2, <2>3 DEF InstalledInv, VictimInv, TypeOK
    <3>5. DownInv'
      BY <2>2, <2>3 DEF DownInv
    <3>6. \A q \in Requests : request[q] = "closing" => request'[q] = "closing"
      BY <2>2, <2>3 DEF TypeOK
    <3>7. \A t \in Tasks : task[t] = "install" => task'[t] = "install"
      BY <2>3
    <3>8. OpenIsAccounted'
      BY <2>2, <3>6, <3>7 DEF OpenIsAccounted
    <3> QED BY <3>1, <3>2, <3>3, <3>4, <3>5, <3>8
  <2>4. CASE installed # None /\ Goto(r, "using") /\ Uses(r, installed)
             /\ UNCHANGED <<start, task, waitsFor>>
    BY <2>2, <2>3, <2>4 DEF TypeOK
  <2>5. CASE installed = None /\ start # None /\ Goto(r, "await")
             /\ waitsFor' = [waitsFor EXCEPT ![r] = start]
             /\ UNCHANGED <<start, task, handle>>
    BY <2>2, <2>3, <2>5 DEF TypeOK
  <2>6. ASSUME NEW t \in Tasks, task[t] = "none",
               task' = [task EXCEPT ![t] = "lookup"], start' = t,
               waitsFor' = [waitsFor EXCEPT ![r] = t],
               Goto(r, "await"), UNCHANGED handle
        PROVE  Parts'
    BY <2>2, <2>3, <2>6 DEF TypeOK
  <2> QED BY <1>2, <2>4, <2>5, <2>6 DEF GetLocked
<1>3. ASSUME NEW r \in Requests, GetGivesUp(r) PROVE Parts'
  <2>1. TypeOK'
    BY <1>3, HeadLeaves DEF GetGivesUp, TypeOK
  <2>2. BuiltInv' /\ AwaitedInv' /\ InstalledInv' /\ VictimInv' /\ DownInv' /\ OpenIsAccounted'
    BY <1>3 DEF GetGivesUp, TypeOK, BuiltInv, AwaitedInv, InstalledInv, VictimInv, DownInv,
                OpenIsAccounted
  <2> QED BY <2>1, <2>2
<1>4. ASSUME NEW r \in Requests, GetAwoken(r) PROVE Parts'
  <2>1. TypeOK'
    BY <1>4 DEF GetAwoken, TypeOK
  <2>2. BuiltInv' /\ AwaitedInv' /\ InstalledInv' /\ VictimInv' /\ DownInv' /\ OpenIsAccounted'
    BY <1>4 DEF GetAwoken, TypeOK, BuiltInv, AwaitedInv, InstalledInv, VictimInv, DownInv,
                OpenIsAccounted
  <2> QED BY <2>1, <2>2
<1>5. ASSUME NEW r \in Requests, GetDone(r) PROVE Parts'
  <2>1. lockQueue' \in Seq(Requests \cup Tasks)
    BY <1>5, HeadLeaves DEF GetDone, TypeOK
  <2>2. waitsFor[r] \in Tasks /\ result[waitsFor[r]] \in Tasks \cup {None}
    BY <1>5 DEF GetDone, StartsInv, AwaitInv, TypeOK
  <2>3. TypeOK'
    BY <1>5, <2>1, <2>2 DEF GetDone, TypeOK
  <2>4. BuiltInv' /\ AwaitedInv' /\ InstalledInv' /\ VictimInv' /\ DownInv' /\ OpenIsAccounted'
    BY <1>5 DEF GetDone, TypeOK, BuiltInv, AwaitedInv, InstalledInv, VictimInv, DownInv,
                OpenIsAccounted
  <2> QED BY <2>3, <2>4
<1>6. ASSUME NEW r \in Requests, Respond(r) \/ RemoveCheck(r) \/ Unregister(r) \/ Register(r)
      PROVE  Parts'
  <2>1. TypeOK'
    <3>1. CASE Respond(r)
      BY <3>1 DEF Respond, TypeOK
    <3>2. CASE RemoveCheck(r)
      <4>1. lockQueue' \in Seq(Requests \cup Tasks)
        BY <3>2, ActorWaits DEF RemoveCheck, TypeOK
      <4> QED BY <3>2, <4>1 DEF RemoveCheck, TypeOK
    <3>3. CASE Unregister(r) \/ Register(r)
      BY <3>3 DEF Unregister, Register, TypeOK
    <3> QED BY <1>6, <3>1, <3>2, <3>3
  <2>2. BuiltInv' /\ AwaitedInv' /\ InstalledInv' /\ VictimInv' /\ DownInv' /\ OpenIsAccounted'
    BY <1>6 DEF Respond, RemoveCheck, Unregister, Register, TypeOK, BuiltInv, AwaitedInv,
                InstalledInv, VictimInv, DownInv, OpenIsAccounted
  <2> QED BY <2>1, <2>2
<1>7. ASSUME NEW r \in Requests, Evict(r) PROVE Parts'
  <2>1. lockQueue' \in Seq(Requests \cup Tasks)
    BY <1>7, HeadLeaves DEF Evict, TypeOK
  <2>2. TypeOK'
    BY <1>7, <2>1 DEF Evict, TypeOK
  <2>3. BuiltInv' /\ AwaitedInv' /\ InstalledInv' /\ DownInv'
    BY <1>7 DEF Evict, TypeOK, BuiltInv, AwaitedInv, InstalledInv, DownInv
  <2>4. VictimInv'
    BY <1>7 DEF Evict, TypeOK, VictimInv, InstalledInv
  <2>5. OpenIsAccounted'
    BY <1>7 DEF Evict, TypeOK, OpenIsAccounted
  <2> QED BY <2>2, <2>3, <2>4, <2>5
<1>8. ASSUME NEW r \in Requests, EvictClose(r) PROVE Parts'
  <2>1. victim[r] \in Tasks /\ task[victim[r]] = "done" /\ victim[r] # installed
    BY <1>8 DEF EvictClose, VictimInv
  <2>2. TypeOK'
    BY <1>8, <2>1 DEF EvictClose, TypeOK
  <2>3. BuiltInv' /\ AwaitedInv' /\ InstalledInv' /\ DownInv'
    BY <1>8, <2>1 DEF EvictClose, TypeOK, BuiltInv, AwaitedInv, InstalledInv, DownInv
  <2>4. VictimInv' /\ OpenIsAccounted'
    BY <1>8, <2>1 DEF EvictClose, TypeOK, VictimInv, OpenIsAccounted
  <2> QED BY <2>2, <2>3, <2>4
<1>9. ASSUME NEW t \in Tasks, Lookup(t) PROVE Parts'
  <2>1. TypeOK'
    <3>1. lockQueue' \in Seq(Requests \cup Tasks)
      BY <1>9, ActorWaits DEF Lookup, TypeOK
    <3> QED BY <1>9, <3>1 DEF Lookup, TypeOK
  <2>2. BuiltInv' /\ AwaitedInv' /\ InstalledInv' /\ DownInv'
    BY <1>9 DEF Lookup, TypeOK, BuiltInv, AwaitedInv, InstalledInv, DownInv
  <2>3. VictimInv' /\ OpenIsAccounted'
    BY <1>9 DEF Lookup, TypeOK, BuiltInv, VictimInv, OpenIsAccounted
  <2> QED BY <2>1, <2>2, <2>3
<1>10. ASSUME NEW t \in Tasks, Install(t) PROVE Parts'
  <2>1. lockQueue' \in Seq(Requests \cup Tasks)
    BY <1>10, HeadLeaves DEF Install, TypeOK
  <2>2. installed = None /\ runtime[t] = "open"
    BY <1>10 DEF Install, StartsInv, StartInv, BuiltInv
  <2>3. /\ task[t] = "install" /\ task' = [task EXCEPT ![t] = "done"]
        /\ installed' = t /\ result' = [result EXCEPT ![t] = t]
        /\ runtime' = [runtime EXCEPT ![t] = "open"]
        /\ UNCHANGED <<registered, start, requests, up>>
    BY <1>10, <2>2 DEF Install
  <2>4. TypeOK'
    BY <2>1, <2>3 DEF TypeOK
  <2>5. BuiltInv' /\ AwaitedInv' /\ InstalledInv'
    BY <2>2, <2>3 DEF TypeOK, BuiltInv, AwaitedInv, InstalledInv
  <2>6. VictimInv' /\ OpenIsAccounted'
    BY <2>2, <2>3, ZenonT(40) DEF TypeOK, VictimInv, OpenIsAccounted
  <2>7. DownInv'
    <3>1. up
      BY <2>3 DEF AwaitedInv, DownInv
    <3> QED BY <2>3, <3>1 DEF DownInv
  <2> QED BY <2>4, <2>5, <2>6, <2>7
<1>11. ASSUME Shutdown PROVE Parts'
  <2>1. /\ up' = FALSE /\ installed' = None /\ \A r \in Requests : request[r] = "idle"
        /\ runtime' = [t \in Tasks |-> IF t = installed THEN "closed" ELSE runtime[t]]
        /\ UNCHANGED <<registered, start, lockQueue, task, result, requests>>
    BY <1>11 DEF Shutdown
  <2>2. TypeOK'
    BY <2>1 DEF TypeOK
  <2>3. \A t \in Tasks : task[t] \notin {"lookup", "install"}
    BY <2>1 DEF AwaitedInv
  <2>4. BuiltInv' /\ AwaitedInv'
    BY <2>1, <2>3 DEF BuiltInv, AwaitedInv, InstalledInv, TypeOK
  <2>5. InstalledInv' /\ VictimInv' /\ DownInv'
    BY <2>1 DEF InstalledInv, VictimInv, DownInv
  <2>6. OpenIsAccounted'
    BY <2>1, <2>3 DEF OpenIsAccounted
  <2> QED BY <2>2, <2>4, <2>5, <2>6
<1>12. ASSUME UNCHANGED vars PROVE Parts'
  <2>1. TypeOK'
    BY <1>12 DEF vars, TypeOK
  <2>2. BuiltInv' /\ AwaitedInv' /\ InstalledInv' /\ VictimInv' /\ DownInv' /\ OpenIsAccounted'
    BY <1>12 DEF vars, BuiltInv, AwaitedInv, InstalledInv, VictimInv, DownInv, OpenIsAccounted
  <2> QED BY <2>1, <2>2
<1>13. Parts'
  <2> HIDE DEF Parts
  <2> QED BY <1>1, <1>2, <1>3, <1>4, <1>5, <1>6, <1>7, <1>8, <1>9, <1>10, <1>11, <1>12
             DEF Next, GetNext, RemoveNext, TaskNext
<1> QED BY <1>13, <1>s DEF RuntimesInv

(***************************************************************************)
(* Whatever requests, removals and starts interleave, an open runtime has  *)
(* somebody who will close it, the map hands out no closed one, and after  *)
(* a shutdown none is open.                                                *)
(***************************************************************************)
THEOREM RuntimesNeverLeak == Spec => []RuntimesAccounted
<1>1. RuntimesInv => RuntimesAccounted
  <2> SUFFICES ASSUME RuntimesInv PROVE RuntimesAccounted
    OBVIOUS
  <2>1. InstalledIsOpen
    BY DEF RuntimesInv, InstalledInv, InstalledIsOpen
  <2>2. ShutdownClosesAll
    <3> SUFFICES ASSUME ~up, NEW t \in Tasks, runtime[t] = "open" PROVE FALSE
      BY DEF ShutdownClosesAll
    <3>1. installed # t /\ \A r \in Requests : request[r] = "idle"
      BY ActorsApart DEF RuntimesInv, DownInv
    <3>2. task[t] = "install"
      BY <3>1 DEF RuntimesInv, OpenIsAccounted
    <3> QED BY <3>1, <3>2 DEF RuntimesInv, AwaitedInv
  <2> QED BY <2>1, <2>2 DEF RuntimesInv, RuntimesAccounted
<1> QED BY <1>1, InitRuntimesInv, NextRuntimesInv, PTL DEF Spec

=============================================================================
