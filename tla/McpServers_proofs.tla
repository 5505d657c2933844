------------------------- MODULE McpServers_proofs --------------------------
(***************************************************************************)
(* Theorems about McpServers, for any calls, coroutines and connections.   *)
(***************************************************************************)
EXTENDS McpServers, TLAPS

(***************************************************************************)
(* The manager: everybody waits for the first start, and the connection,   *)
(* the configuration and the status change together.                       *)
(***************************************************************************)
ManagerInv ==
    /\ worker \in [Workers -> {"idle", "connecting", "closing", "reconnecting"}]
    /\ opening \in [Workers -> Conns \cup {None}]
    /\ startTask = "running" => configured = "enabled" /\ startConn \in Conns
    /\ startTask # "done" => installed = None
    /\ \A w \in Workers :
          /\ worker[w] # "idle" => startTask = "done"
          /\ worker[w] = "connecting" => opening[w] \in Conns
    /\ InstalledIsConfigured
    /\ ConnectedIsInstalled

LEMMA InitManagerInv == Init => ManagerInv
BY DEF Init, ManagerInv, Configs, InstalledIsConfigured, ConnectedIsInstalled

LEMMA NextManagerInv == ManagerInv /\ [Next]_vars => ManagerInv'
<1> SUFFICES ASSUME ManagerInv, [Next]_vars PROVE ManagerInv'
  OBVIOUS
<1> USE NamesApart
        DEF ManagerInv, InstalledIsConfigured, ConnectedIsInstalled, manager, workers
<1>1. CASE Start
  BY <1>1 DEF Start, Opens
<1>2. CASE StartDone
  BY <1>2 DEF StartDone
<1>3. ASSUME NEW c \in Conns, RunnerWork(c) \/ TransportBreaks(c) PROVE ManagerInv'
  BY <1>3 DEF RunnerWork, Open, OpenFails, Take, Answer, Leave, FailQueued,
              TransportBreaks
<1>4. ASSUME NEW w \in Workers, WorkerBegins(w) PROVE ManagerInv'
  BY <1>4 DEF WorkerBegins, UpsertEnabled, UpsertDisabled, RemoveServer, Reconnect,
              CloseManager, ClosesThen, Opens
<1>5. ASSUME NEW w \in Workers, WorkerProceeds(w) PROVE ManagerInv'
  BY <1>5 DEF WorkerProceeds, UpsertCommit, ReconnectOpens, ReconnectGivesUp, CloseDone,
              ClosesThen, Opens
<1>6. ASSUME NEW q \in Calls, Call(q) \/ CancelCall(q) PROVE ManagerInv'
  BY <1>6 DEF Call, CancelCall
<1>7. CASE UNCHANGED vars
  BY <1>7 DEF vars
<1> QED BY <1>1, <1>2, <1>3, <1>4, <1>5, <1>6, <1>7 DEF Next

(* direct_tools finds a configuration for every connection.                *)
THEOREM ConnectionsConfigured == Spec => []InstalledIsConfigured
<1>1. ManagerInv => InstalledIsConfigured
  BY DEF ManagerInv
<1> QED BY <1>1, InitManagerInv, NextManagerInv, PTL DEF Spec

(* The status never claims a connection that the manager does not have.    *)
THEOREM StatusHasConnection == Spec => []ConnectedIsInstalled
<1>1. ManagerInv => ConnectedIsInstalled
  BY DEF ManagerInv
<1> QED BY <1>1, InitManagerInv, NextManagerInv, PTL DEF Spec

-----------------------------------------------------------------------------
(***************************************************************************)
(* The connections.  A connection passes through three hands: the one that *)
(* waits for it to open (AwaitedInv), the map (InstalledInv) and the one   *)
(* that stops it (a victim).  Calls reach it only in the map, and it is    *)
(* taken out of the map before it is asked to stop; so the request to stop *)
(* is the last thing in its queue, and nothing is left there at the end.   *)
(***************************************************************************)
ConnTypes ==
    /\ runner \in [Conns -> RunnerStates]
    /\ queue \in [Conns -> Seq(Calls \cup {None})]
    /\ installed \in Conns \cup {None} /\ startConn \in Conns \cup {None}
    /\ opening \in [Workers -> Conns \cup {None}]
    /\ victim \in [Workers -> Conns \cup {None}]

\* Nobody has used this connection yet.
Fresh(c) == queue[c] = <<>> /\ installed # c /\ \A w \in Workers : victim[w] # c

UnusedInv == \A c \in Conns :
    /\ runner[c] \in {"none", "opening", "refused"} => Fresh(c)
    /\ runner[c] = "none" => startConn # c /\ \A w \in Workers : opening[w] # c

AwaitedInv == \A c \in Conns :
    /\ startConn = c => /\ Fresh(c) /\ runner[c] # "leaving"
                        /\ \A w \in Workers : opening[w] # c
    /\ \A w \in Workers : opening[w] = c =>
          /\ Fresh(c) /\ runner[c] # "leaving"
          /\ \A v \in Workers : opening[v] = c => v = w

InstalledInv == \A c \in Conns : installed = c =>
    /\ runner[c] # "leaving"
    /\ \A i \in 1 .. Len(queue[c]) : queue[c][i] # None
    /\ \A w \in Workers : victim[w] # c

QueueInv == \A c \in Conns :
    /\ \A i \in 1 .. Len(queue[c]) : queue[c][i] = None => i = Len(queue[c])
    /\ runner[c] \in {"leaving", "done"} => queue[c] = <<>>

VictimInv ==
    \A v, w \in Workers : victim[v] = victim[w] /\ victim[v] # None => v = w

ConnInv == ConnTypes /\ UnusedInv /\ AwaitedInv /\ InstalledInv /\ QueueInv /\ VictimInv

LEMMA InitConnInv == Init => ConnInv
BY NamesApart
   DEF Init, ConnInv, ConnTypes, Fresh, UnusedInv, AwaitedInv, InstalledInv, QueueInv,
       VictimInv, RunnerStates

\* Appending to a queue without a request to stop, and taking from any.
LEMMA AppendToQueue ==
    ASSUME NEW s \in Seq(Calls \cup {None}), NEW x \in Calls \cup {None},
           \A i \in 1 .. Len(s) : s[i] # None
    PROVE  /\ Append(s, x) \in Seq(Calls \cup {None})
           /\ \A i \in 1 .. Len(Append(s, x)) :
                 Append(s, x)[i] = None => i = Len(Append(s, x)) /\ x = None
OBVIOUS

LEMMA TakeFromQueue ==
    ASSUME NEW s \in Seq(Calls \cup {None}), s # <<>>,
           \A i \in 1 .. Len(s) : s[i] = None => i = Len(s)
    PROVE  /\ Tail(s) \in Seq(Calls \cup {None}) /\ Len(Tail(s)) = Len(s) - 1
           /\ \A i \in 1 .. Len(Tail(s)) : Tail(s)[i] = s[i + 1]
           /\ \A i \in 1 .. Len(Tail(s)) : Tail(s)[i] = None => i = Len(Tail(s))
           /\ Head(s) = None => Tail(s) = <<>>
<1>1. /\ Tail(s) \in Seq(Calls \cup {None}) /\ Len(Tail(s)) = Len(s) - 1
      /\ \A i \in 1 .. Len(Tail(s)) : Tail(s)[i] = s[i + 1]
  OBVIOUS
<1> DEFINE t == Tail(s)
<1> HIDE DEF t
<1>2. ASSUME NEW i \in 1 .. Len(t), t[i] = None PROVE i = Len(t)
  <2>1. Len(s) \in Nat /\ Len(t) = Len(s) - 1 /\ t[i] = s[i + 1]
    <3>1. Len(s) \in Nat
      OBVIOUS
    <3>2. Len(t) = Len(s) - 1 /\ \A j \in 1 .. Len(t) : t[j] = s[j + 1]
      BY <1>1 DEF t
    <3> QED BY <3>1, <3>2
  <2>2. i + 1 \in 1 .. Len(s)
    BY <2>1
  <2>3. i + 1 = Len(s)
    BY <1>2, <2>1, <2>2
  <2> QED BY <2>1, <2>3
<1>3. ASSUME Head(s) = None PROVE Tail(s) = <<>>
  <2>1. s[1] = None /\ Len(s) \in Nat /\ 1 \in 1 .. Len(s)
    BY <1>3
  <2>2. Len(s) = 1
    BY <2>1
  <2>3. t \in Seq(Calls \cup {None}) /\ Len(t) = 0
    BY <1>1, <2>2 DEF t
  <2>4. t = <<>>
    BY <2>3
  <2> QED BY <2>4 DEF t
<1> QED BY <1>1, <1>2, <1>3 DEF t

\* Asking the installed connection to stop touches no other connection.
LEMMA StopInstalled ==
    ASSUME ConnInv, NEW w \in Workers, NEW next, ClosesThen(w, installed, next),
           runner' = runner
    PROVE  /\ queue' \in [Conns -> Seq(Calls \cup {None})]
           /\ victim' \in [Workers -> Conns \cup {None}]
           /\ \A c \in Conns : c # installed => queue'[c] = queue[c]
           /\ \A v \in Workers : victim'[v] = victim[v] \/ (v = w /\ victim'[v] = installed)
           /\ QueueInv' /\ VictimInv'
<1> USE NamesApart DEF ConnInv, ConnTypes
<1>1. CASE installed = None
  <2>1. queue' = queue /\ victim' = victim
    BY <1>1 DEF ClosesThen
  <2>2. QueueInv' /\ VictimInv'
    BY <2>1 DEF QueueInv, VictimInv
  <2>3. /\ queue' \in [Conns -> Seq(Calls \cup {None})]
        /\ victim' \in [Workers -> Conns \cup {None}]
    BY <2>1
  <2>4. /\ \A c \in Conns : c # installed => queue'[c] = queue[c]
        /\ \A v \in Workers : victim'[v] = victim[v] \/ (v = w /\ victim'[v] = installed)
    BY <2>1
  <2> QED BY <2>2, <2>3, <2>4
<1>2. CASE installed # None
  <2>1. installed \in Conns
    BY <1>2
  <2>2. /\ \A i \in 1 .. Len(queue[installed]) : queue[installed][i] # None
        /\ runner[installed] # "leaving" /\ \A v \in Workers : victim[v] # installed
    BY <2>1 DEF InstalledInv
  <2>3. victim' = [victim EXCEPT ![w] = installed] /\ AskToStop(installed)
    BY <1>2 DEF ClosesThen
  <2>4. /\ VictimInv' /\ victim' \in [Workers -> Conns \cup {None}]
        /\ \A v \in Workers : victim'[v] = victim[v] \/ (v = w /\ victim'[v] = installed)
    <3>1. victim' \in [Workers -> Conns \cup {None}]
      BY <2>1, <2>3
    <3>2. /\ \A v \in Workers : v # w => victim'[v] = victim[v]
          /\ victim'[w] = installed
      BY <2>1, <2>3
    <3>3. VictimInv'
      BY <2>2, <3>2 DEF VictimInv
    <3> QED BY <3>1, <3>2, <3>3
  <2>5. CASE runner[installed] = "done"
    <3>1. queue' = queue
      BY <2>3, <2>5 DEF AskToStop
    <3>2. QueueInv'
      BY <3>1 DEF QueueInv
    <3> QED BY <2>4, <3>1, <3>2
  <2>6. CASE runner[installed] # "done"
    <3>1. queue' = [queue EXCEPT ![installed] = Append(queue[installed], None)]
      BY <2>3, <2>6 DEF AskToStop
    <3>2. /\ Append(queue[installed], None) \in Seq(Calls \cup {None})
          /\ \A i \in 1 .. Len(Append(queue[installed], None)) :
                Append(queue[installed], None)[i] = None
                   => i = Len(Append(queue[installed], None))
      BY <2>1, <2>2, AppendToQueue
    <3>3. queue' \in [Conns -> Seq(Calls \cup {None})]
      BY <2>1, <3>1, <3>2
    <3>4. \A c \in Conns : c # installed => queue'[c] = queue[c]
      BY <2>1, <3>1
    <3>5. queue'[installed] = Append(queue[installed], None)
      BY <2>1, <3>1
    <3>6. ASSUME NEW c \in Conns
          PROVE  /\ \A i \in 1 .. Len(queue'[c]) :
                       queue'[c][i] = None => i = Len(queue'[c])
                 /\ runner'[c] \in {"leaving", "done"} => queue'[c] = <<>>
      <4>1. CASE c = installed
        BY <2>2, <2>6, <3>2, <3>5, <4>1
      <4>2. CASE c # installed
        BY <3>4, <4>2 DEF QueueInv
      <4> QED BY <4>1, <4>2
    <3>7. QueueInv'
      BY <3>6 DEF QueueInv
    <3> QED BY <2>4, <3>3, <3>4, <3>7
  <2> QED BY <2>5, <2>6
<1> QED BY <1>1, <1>2

LEMMA NextConnInv == ConnInv /\ ManagerInv /\ [Next]_vars => ConnInv'
<1> SUFFICES ASSUME ConnInv, ManagerInv, [Next]_vars PROVE ConnInv'
  OBVIOUS
<1> USE NamesApart
<1>1. CASE Start
  <2>1. UNCHANGED <<queue, installed, opening, victim>>
    BY <1>1 DEF Start, workers
  <2>2. CASE UNCHANGED <<startConn, runner>>
    BY <2>1, <2>2 DEF ConnInv, ConnTypes, Fresh, UnusedInv, AwaitedInv, InstalledInv,
                      QueueInv, VictimInv
  <2>3. ASSUME NEW k \in Conns, runner[k] = "none",
               runner' = [runner EXCEPT ![k] = "opening"], startConn' = k
        PROVE  ConnInv'
    <3>1. ConnTypes'
      BY <2>1, <2>3 DEF ConnInv, ConnTypes, RunnerStates
    <3>2. UnusedInv' /\ AwaitedInv'
      BY <2>1, <2>3 DEF ConnInv, ConnTypes, Fresh, UnusedInv, AwaitedInv
    <3>3. InstalledInv' /\ QueueInv' /\ VictimInv'
      BY <2>1, <2>3 DEF ConnInv, ConnTypes, Fresh, UnusedInv, InstalledInv, QueueInv,
                        VictimInv
    <3> QED BY <3>1, <3>2, <3>3 DEF ConnInv
  <2> QED BY <1>1, <2>2, <2>3 DEF Start, Opens
<1>2. CASE StartDone
  BY <1>2 DEF StartDone, Ready, Refused, ConnInv, ConnTypes, Fresh, UnusedInv,
              AwaitedInv, InstalledInv, QueueInv, VictimInv, RunnerStates, workers,
              connections, ManagerInv
<1>3. ASSUME NEW k \in Conns, Open(k) \/ OpenFails(k) \/ Answer(k) \/ Leave(k)
      PROVE  ConnInv'
  <2>1. /\ queue' = queue /\ UNCHANGED <<installed, startConn, opening, victim>>
        /\ runner' = runner \/ \E x \in {"serving", "refused", "done"} :
                                  runner' = [runner EXCEPT ![k] = x]
        /\ runner'[k] = "refused" /\ runner' # runner => runner[k] = "opening"
        /\ runner'[k] = "done" /\ runner' # runner => runner[k] = "leaving"
    BY <1>3 DEF Open, OpenFails, Answer, Leave, manager, workers, ConnInv, ConnTypes
  <2>2. CASE runner' = runner
    BY <2>1, <2>2 DEF ConnInv, ConnTypes, Fresh, UnusedInv, AwaitedInv, InstalledInv,
                      QueueInv, VictimInv
  <2>3. ASSUME NEW x \in {"serving", "refused", "done"}, runner' # runner,
               runner' = [runner EXCEPT ![k] = x]
        PROVE  ConnInv'
    BY <2>1, <2>3 DEF ConnInv, ConnTypes, Fresh, UnusedInv, AwaitedInv, InstalledInv,
                      QueueInv, VictimInv, RunnerStates, Running
  <2> QED BY <2>1, <2>2, <2>3
<1>4. ASSUME NEW k \in Conns, Take(k) PROVE ConnInv'
  <2>1. /\ queue[k] # <<>> /\ runner[k] = "serving"
        /\ queue' = [queue EXCEPT ![k] = Tail(queue[k])]
        /\ runner' = [runner EXCEPT ![k] = IF Head(queue[k]) = None THEN "leaving"
                                                                    ELSE "calling"]
        /\ UNCHANGED <<installed, startConn, opening, victim>>
    BY <1>4 DEF Take, manager, workers
  <2>2. /\ Tail(queue[k]) \in Seq(Calls \cup {None})
        /\ Len(Tail(queue[k])) = Len(queue[k]) - 1
        /\ \A i \in 1 .. Len(Tail(queue[k])) : Tail(queue[k])[i] = queue[k][i + 1]
        /\ \A i \in 1 .. Len(Tail(queue[k])) :
              Tail(queue[k])[i] = None => i = Len(Tail(queue[k]))
        /\ Head(queue[k]) = None => Tail(queue[k]) = <<>>
    BY <2>1, TakeFromQueue DEF ConnInv, ConnTypes, QueueInv
  <2>3. ConnTypes'
    BY <2>1, <2>2 DEF ConnInv, ConnTypes, RunnerStates, Running
  <2>4. QueueInv' /\ VictimInv'
    BY <2>1, <2>2 DEF ConnInv, ConnTypes, QueueInv, VictimInv
  <2>5. UnusedInv' /\ AwaitedInv'
    BY <2>1 DEF ConnInv, ConnTypes, UnusedInv, AwaitedInv, Fresh
  <2>6. InstalledInv'
    <3>1. CASE installed = k
      <4>1. \A i \in 1 .. Len(queue[k]) : queue[k][i] # None
        BY <3>1 DEF ConnInv, InstalledInv
      <4>2. queue[k] \in Seq(Calls \cup {None}) /\ Len(queue[k]) \in Nat \ {0}
        BY <2>1 DEF ConnInv, ConnTypes
      <4>3. Head(queue[k]) = queue[k][1] /\ 1 \in 1 .. Len(queue[k])
        BY <4>2
      <4>4. Head(queue[k]) # None
        BY <4>1, <4>3
      <4>5. \A i \in 1 .. Len(Tail(queue[k])) : i + 1 \in 1 .. Len(queue[k])
        BY <2>2, <4>2
      <4>6. \A i \in 1 .. Len(Tail(queue[k])) : Tail(queue[k])[i] # None
        BY <2>2, <4>1, <4>5
      <4> QED BY <2>1, <3>1, <4>4, <4>6 DEF ConnInv, ConnTypes, InstalledInv
    <3>2. CASE installed # k
      BY <2>1, <3>2 DEF ConnInv, ConnTypes, InstalledInv
    <3> QED BY <3>1, <3>2
  <2> QED BY <2>3, <2>4, <2>5, <2>6 DEF ConnInv
<1>5a. ASSUME NEW k \in Conns, TransportBreaks(k) PROVE ConnInv'
  BY <1>5a DEF TransportBreaks, ConnInv, ConnTypes, Fresh, UnusedInv,
              AwaitedInv, InstalledInv, QueueInv, VictimInv, RunnerStates, Running,
              manager, workers
<1>5b. ASSUME NEW k \in Conns, FailQueued(k) PROVE ConnInv'
  <2>1. /\ runner' = [runner EXCEPT ![k] = "done"] /\ queue' = [queue EXCEPT ![k] = <<>>]
        /\ runner[k] = "failing" /\ UNCHANGED <<installed, startConn, opening, victim>>
    BY <1>5b DEF FailQueued, manager, workers
  <2>2. /\ \A c \in Conns : c # k => queue'[c] = queue[c] /\ runner'[c] = runner[c]
        /\ queue'[k] = <<>> /\ runner'[k] = "done"
    BY <2>1 DEF ConnInv, ConnTypes
  <2>3. ConnTypes'
    BY <2>1 DEF ConnInv, ConnTypes, RunnerStates, Running
  <2>4. QueueInv' /\ InstalledInv' /\ VictimInv'
    BY <2>1, <2>2 DEF ConnInv, QueueInv, InstalledInv, VictimInv
  <2>5. UnusedInv' /\ AwaitedInv'
    BY <2>1, <2>2 DEF ConnInv, UnusedInv, AwaitedInv, Fresh
  <2> QED BY <2>3, <2>4, <2>5 DEF ConnInv
<1>6. ASSUME NEW w \in Workers, UpsertEnabled(w) \/ ReconnectOpens(w) PROVE ConnInv'
  <2>1. PICK k \in Conns :
            /\ runner[k] = "none" /\ runner' = [runner EXCEPT ![k] = "opening"]
            /\ opening' = [opening EXCEPT ![w] = k]
    BY <1>6 DEF UpsertEnabled, ReconnectOpens, Opens
  <2>2. /\ UNCHANGED <<installed, startConn, queue>>
        /\ victim' = victim \/ victim' = [victim EXCEPT ![w] = None]
    BY <1>6 DEF UpsertEnabled, ReconnectOpens
  <2>3. ConnTypes' /\ VictimInv'
    BY <2>1, <2>2 DEF ConnInv, ConnTypes, VictimInv, RunnerStates
  <2>4. \A v \in Workers : victim'[v] = victim[v] \/ victim'[v] = None
    BY <2>2 DEF ConnInv, ConnTypes
  <2>5. Fresh(k) /\ startConn # k /\ \A v \in Workers : opening[v] # k
    BY <2>1 DEF ConnInv, UnusedInv
  <2>6. QueueInv' /\ InstalledInv'
    BY <2>1, <2>2, <2>4 DEF ConnInv, ConnTypes, QueueInv, InstalledInv
  <2>7. \A c \in Conns : Fresh(c) => Fresh(c)'
    BY <2>2, <2>4 DEF Fresh
  <2>8. UnusedInv' /\ AwaitedInv'
    BY <2>1, <2>2, <2>5, <2>7 DEF ConnInv, ConnTypes, UnusedInv, AwaitedInv
  <2> QED BY <2>3, <2>6, <2>8 DEF ConnInv
<1>7. ASSUME NEW w \in Workers, CloseDone(w) \/ ReconnectGivesUp(w) PROVE ConnInv'
  <2>1. /\ UNCHANGED <<installed, startConn, opening, runner, queue>>
        /\ victim' = [victim EXCEPT ![w] = None]
    BY <1>7 DEF CloseDone, ReconnectGivesUp, manager, connections
  <2>2. \A v \in Workers : victim'[v] = victim[v] \/ victim'[v] = None
    BY <2>1 DEF ConnInv, ConnTypes
  <2>3. ConnTypes' /\ VictimInv'
    BY <2>1, <2>2 DEF ConnInv, ConnTypes, VictimInv
  <2>4. \A c \in Conns : Fresh(c) => Fresh(c)'
    BY <2>1, <2>2 DEF Fresh
  <2>5. UnusedInv' /\ AwaitedInv' /\ InstalledInv' /\ QueueInv'
    BY <2>1, <2>2, <2>4 DEF ConnInv, ConnTypes, UnusedInv, AwaitedInv, InstalledInv,
                            QueueInv
  <2> QED BY <2>3, <2>5 DEF ConnInv
<1>8. ASSUME NEW w \in Workers, UpsertCommit(w) PROVE ConnInv'
  <2> DEFINE k == opening[w]
  <2>1. /\ k \in Conns /\ runner[k] \notin {"none", "opening"}
        /\ installed' = IF runner[k] = "refused" THEN None ELSE k
        /\ opening' = [opening EXCEPT ![w] = None]
        /\ ClosesThen(w, installed, "idle") /\ UNCHANGED <<startConn, runner>>
    BY <1>8 DEF UpsertCommit, Ready, Refused, ManagerInv
  <2>2. /\ Fresh(k) /\ runner[k] # "leaving" /\ startConn # k
        /\ \A v \in Workers : opening[v] = k => v = w
    BY <2>1 DEF ConnInv, AwaitedInv
  <2> HIDE DEF k
  <2>3. installed # k
    BY <2>2 DEF Fresh
  <2>4. /\ queue' \in [Conns -> Seq(Calls \cup {None})]
        /\ victim' \in [Workers -> Conns \cup {None}]
        /\ \A c \in Conns : c # installed => queue'[c] = queue[c]
        /\ \A v \in Workers : victim'[v] = victim[v] \/ (v = w /\ victim'[v] = installed)
        /\ QueueInv' /\ VictimInv'
    BY <2>1, StopInstalled
  <2>5. ConnTypes'
    BY <2>1, <2>4 DEF ConnInv, ConnTypes
  <2>6. ASSUME NEW c \in Conns, Fresh(c), c # k PROVE Fresh(c)'
    BY <2>1, <2>4, <2>6 DEF Fresh
  <2>7. InstalledInv'
    <3>1. queue'[k] = <<>> /\ \A v \in Workers : victim'[v] # k
      BY <2>1, <2>2, <2>3, <2>4 DEF Fresh
    <3> QED BY <2>1, <2>2, <3>1 DEF InstalledInv
  <2>8. \A v \in Workers : opening'[v] = None \/ (v # w /\ opening'[v] = opening[v])
    <3>1. opening \in [Workers -> Conns \cup {None}]
      BY DEF ConnInv, ConnTypes
    <3> QED BY <2>1, <3>1
  <2>9. AwaitedInv'
    BY <2>1, <2>2, <2>6, <2>8 DEF ConnInv, AwaitedInv
  <2>10. UnusedInv'
    <3>1. ASSUME NEW c \in Conns, runner[c] = "none"
          PROVE  startConn # c /\ \A v \in Workers : opening'[v] # c
      BY <2>8, <3>1 DEF ConnInv, UnusedInv
    <3>2. ASSUME NEW c \in Conns, runner[c] \in {"none", "opening", "refused"}
          PROVE  Fresh(c)'
      <4>1. Fresh(c)
        BY <3>2 DEF ConnInv, UnusedInv
      <4>2. CASE c = k
        <5>1. installed' # c
          BY <2>1, <3>2, <4>2
        <5>2. queue'[c] = <<>>
          BY <2>1, <2>3, <2>4, <4>1, <4>2 DEF Fresh
        <5>3. \A v \in Workers : victim'[v] # c
          BY <2>3, <2>4, <4>1, <4>2 DEF Fresh
        <5> QED BY <5>1, <5>2, <5>3 DEF Fresh
      <4>3. CASE c # k
        BY <2>6, <4>1, <4>3
      <4> QED BY <4>2, <4>3
    <3> QED BY <2>1, <3>1, <3>2 DEF UnusedInv
  <2> QED BY <2>4, <2>5, <2>7, <2>9, <2>10 DEF ConnInv
<1>9. ASSUME NEW w \in Workers,
             UpsertDisabled(w) \/ RemoveServer(w) \/ Reconnect(w) \/ CloseManager(w)
      PROVE  ConnInv'
  <2>1. PICK next : ClosesThen(w, installed, next)
    BY <1>9 DEF UpsertDisabled, RemoveServer, Reconnect, CloseManager
  <2>2. installed' = None /\ UNCHANGED <<startConn, opening, runner>>
    BY <1>9 DEF UpsertDisabled, RemoveServer, Reconnect, CloseManager
  <2>3. /\ queue' \in [Conns -> Seq(Calls \cup {None})]
        /\ victim' \in [Workers -> Conns \cup {None}]
        /\ \A c \in Conns : c # installed => queue'[c] = queue[c]
        /\ \A v \in Workers : victim'[v] = victim[v] \/ (v = w /\ victim'[v] = installed)
        /\ QueueInv' /\ VictimInv'
    BY <2>1, <2>2, StopInstalled
  <2>4. \A c \in Conns : Fresh(c) => Fresh(c)'
    BY <2>2, <2>3 DEF Fresh
  <2>5. ConnTypes' /\ InstalledInv'
    BY <2>2, <2>3 DEF ConnInv, ConnTypes, InstalledInv
  <2>6. UnusedInv' /\ AwaitedInv'
    BY <2>2, <2>4 DEF ConnInv, UnusedInv, AwaitedInv
  <2> QED BY <2>3, <2>5, <2>6 DEF ConnInv
<1>10. ASSUME NEW q \in Calls, Call(q) PROVE ConnInv'
  <2>1. UNCHANGED <<installed, startConn, opening, victim, runner>>
    BY <1>10 DEF Call, manager, workers
  <2>2. CASE queue' = queue
    BY <2>1, <2>2 DEF ConnInv, ConnTypes, Fresh, UnusedInv, AwaitedInv, InstalledInv,
                      QueueInv, VictimInv
  <2>3. CASE queue' # queue
    <3>1. /\ Usable
          /\ queue' = [queue EXCEPT ![installed] = Append(queue[installed], q)]
      BY <1>10, <2>3 DEF Call
    <3>2. /\ installed \in Conns /\ runner[installed] \notin {"done", "leaving"}
          /\ \A i \in 1 .. Len(queue[installed]) : queue[installed][i] # None
      BY <3>1 DEF Usable, ConnInv, ConnTypes, InstalledInv
    <3>3. /\ Append(queue[installed], q) \in Seq(Calls \cup {None})
          /\ \A i \in 1 .. Len(Append(queue[installed], q)) :
                Append(queue[installed], q)[i] # None
      BY <3>2, AppendToQueue DEF ConnInv, ConnTypes
    <3>4. /\ \A c \in Conns : c # installed => queue'[c] = queue[c]
          /\ queue'[installed] = Append(queue[installed], q)
      BY <3>1, <3>2 DEF ConnInv, ConnTypes
    <3>5. ConnTypes' /\ VictimInv'
      BY <2>1, <3>1, <3>3 DEF ConnInv, ConnTypes, VictimInv
    <3>6. \A c \in Conns : Fresh(c) => Fresh(c)'
      BY <2>1, <3>4 DEF Fresh
    <3>7. UnusedInv' /\ AwaitedInv'
      BY <2>1, <3>6 DEF ConnInv, UnusedInv, AwaitedInv
    <3>8. InstalledInv'
      BY <2>1, <3>2, <3>3, <3>4 DEF ConnInv, InstalledInv
    <3>9. QueueInv'
      <4> SUFFICES ASSUME NEW c \in Conns
                   PROVE  /\ \A i \in 1 .. Len(queue'[c]) :
                                queue'[c][i] = None => i = Len(queue'[c])
                          /\ runner'[c] \in {"leaving", "done"} => queue'[c] = <<>>
        BY DEF QueueInv
      <4>1. CASE c = installed
        BY <2>1, <3>2, <3>3, <3>4, <4>1
      <4>2. CASE c # installed
        BY <2>1, <3>4, <4>2 DEF ConnInv, QueueInv
      <4> QED BY <4>1, <4>2
    <3> QED BY <3>5, <3>7, <3>8, <3>9 DEF ConnInv
  <2> QED BY <2>2, <2>3
<1>11. ASSUME NEW q \in Calls, CancelCall(q) PROVE ConnInv'
  BY <1>11 DEF CancelCall, ConnInv, ConnTypes, Fresh, UnusedInv, AwaitedInv,
               InstalledInv, QueueInv, VictimInv, manager, workers, connections
<1>12. CASE UNCHANGED vars
  BY <1>12 DEF vars, ConnInv, ConnTypes, Fresh, UnusedInv, AwaitedInv,
               InstalledInv, QueueInv, VictimInv, manager, workers, connections
<1> QED BY <1>1, <1>2, <1>3, <1>4, <1>5a, <1>5b, <1>6, <1>7, <1>8, <1>9, <1>10,
           <1>11, <1>12
        DEF Next, RunnerWork, WorkerBegins, WorkerProceeds

LEMMA ConnAndManagerInv == Spec => [](ConnInv /\ ManagerInv)
BY InitManagerInv, InitConnInv, NextManagerInv, NextConnInv, PTL DEF Spec

(* A connection that has ended left no call in its queue.                  *)
THEOREM NoCallLeftBehind == Spec => []EndedServedAll
<1>1. ConnInv => EndedServedAll
  <2> SUFFICES ASSUME ConnInv, NEW c \in Conns, runner[c] = "done"
               PROVE  ToSet(queue[c]) = {}
    BY DEF EndedServedAll
  <2>1. queue[c] = <<>>
    BY DEF ConnInv, QueueInv
  <2> QED BY <2>1 DEF ToSet
<1> QED BY <1>1, ConnAndManagerInv, PTL

(* Each connection is asked to stop by one coroutine, and once.            *)
THEOREM StopsAreUnique == Spec => []StoppedOnce
<1>1. ConnInv => StoppedOnce
  <2> SUFFICES ASSUME ConnInv, NEW c \in Conns, NEW i \in DOMAIN queue[c],
                      NEW j \in DOMAIN queue[c], queue[c][i] = None, queue[c][j] = None
               PROVE  i = j
    BY DEF StoppedOnce, ConnInv, VictimInv
  <2>1. DOMAIN queue[c] = 1 .. Len(queue[c])
    BY DEF ConnInv, ConnTypes
  <2> QED BY <2>1 DEF ConnInv, QueueInv
<1> QED BY <1>1, ConnAndManagerInv, PTL

(* The maps of the manager agree after every step of every coroutine.      *)
THEOREM MapsAlwaysAgree == Spec => []MapsAgree
BY ConnectionsConfigured, StatusHasConnection, NoCallLeftBehind, StopsAreUnique, PTL
   DEF MapsAgree

-----------------------------------------------------------------------------
(***************************************************************************)
(* No connection leaks.  Whoever opened a connection is the only one to    *)
(* know it until it is installed (HandsInv); from the map it is taken only *)
(* together with a request to stop, which stays in the queue until it is   *)
(* served (AccountedInv).                                                  *)
(***************************************************************************)
RestInv ==
    /\ startTask \in {"none", "running", "done"}
    /\ configured \in Configs /\ status \in Statuses /\ closed \in BOOLEAN
    /\ current \in [Conns -> Calls \cup {None}]
    /\ \A c \in Conns : runner[c] = "calling" <=> current[c] # None
    /\ call \in [Calls -> {"none", "pending", "value", "error", "cancelled"}]
    /\ lost \subseteq Calls

HandsInv ==
    /\ startTask # "running" => startConn = None
    /\ \A w \in Workers : worker[w] # "connecting" => opening[w] = None

ToldToStop(c) == \E i \in 1 .. Len(queue[c]) : queue[c][i] = None

AccountedInv ==
    \A c \in Conns : runner[c] \in {"opening", "serving", "calling"} =>
        \/ installed = c \/ startConn = c \/ \E w \in Workers : opening[w] = c
        \/ ToldToStop(c)

HeldInv == RestInv /\ HandsInv /\ AccountedInv

LEMMA InitHeldInv == Init => HeldInv
BY NamesApart
   DEF Init, HeldInv, RestInv, HandsInv, AccountedInv, Configs, Statuses, RunnerStates

\* What is put at the end of a queue leaves what is in it where it is.
LEMMA AppendKeeps ==
    ASSUME NEW S, NEW s \in Seq(S), NEW x \in S
    PROVE  /\ Len(Append(s, x)) = Len(s) + 1 /\ Append(s, x)[Len(s) + 1] = x
           /\ \A i \in 1 .. Len(s) : i \in 1 .. Len(Append(s, x)) /\ Append(s, x)[i] = s[i]
           /\ Len(s) + 1 \in 1 .. Len(Append(s, x))
OBVIOUS

LEMMA StopIsTold ==
    ASSUME ConnInv, NEW w \in Workers, NEW next, ClosesThen(w, installed, next)
    PROVE  \A c \in Conns :
              ToldToStop(c) \/ (installed = c /\ runner[c] # "done") => ToldToStop(c)'
<1> USE NamesApart DEF ConnInv, ConnTypes
<1>1. CASE queue' = queue /\ (installed = None \/ runner[installed] = "done")
  BY <1>1 DEF ToldToStop
<1>2. CASE /\ installed # None /\ runner[installed] # "done"
           /\ queue' = [queue EXCEPT ![installed] = Append(@, None)]
  <2> DEFINE s == queue[installed]
             t == Append(s, None)
  <2>1. installed \in Conns /\ s \in Seq(Calls \cup {None}) /\ None \in Calls \cup {None}
    BY <1>2
  <2>2. /\ queue'[installed] = t
        /\ \A c \in Conns : c # installed => queue'[c] = queue[c]
    BY <1>2, <2>1
  <2>3. /\ t[Len(s) + 1] = None /\ Len(s) + 1 \in 1 .. Len(t)
        /\ \A i \in 1 .. Len(s) : i \in 1 .. Len(t) /\ t[i] = s[i]
    BY <2>1, AppendKeeps
  <2> HIDE DEF t
  <2>4. \E i \in 1 .. Len(queue'[installed]) : queue'[installed][i] = None
    BY <2>2, <2>3
  <2>5. ASSUME NEW c \in Conns, c = installed PROVE ToldToStop(c)'
    BY <2>4, <2>5 DEF ToldToStop
  <2>6. ASSUME NEW c \in Conns, c # installed, ToldToStop(c) PROVE ToldToStop(c)'
    BY <2>2, <2>6 DEF ToldToStop
  <2> QED BY <2>5, <2>6
<1> QED BY <1>1, <1>2 DEF ClosesThen, AskToStop

LEMMA NextRestInv == RestInv /\ ConnInv /\ ManagerInv /\ [Next]_vars => RestInv'
<1> SUFFICES ASSUME RestInv, ConnInv, ManagerInv, [Next]_vars PROVE RestInv'
  OBVIOUS
<1>0. runner \in [Conns -> RunnerStates] /\ queue \in [Conns -> Seq(Calls \cup {None})]
  BY DEF ConnInv, ConnTypes
<1> USE NamesApart DEF RestInv, manager, workers, connections
<1>1. CASE Start
  <2>1. /\ startTask' \in {"running", "done"} /\ status' \in Statuses
        /\ UNCHANGED <<configured, closed, current, call, lost>>
        /\ runner' = runner \/ \E c \in Conns : runner[c] = "none"
                                    /\ runner' = [runner EXCEPT ![c] = "opening"]
    BY <1>1 DEF Start, Opens, Statuses
  <2>2. \A c \in Conns : runner'[c] = "calling" <=> runner[c] = "calling"
    BY <1>0, <2>1
  <2> QED BY <2>1, <2>2
<1>2. CASE StartDone
  BY <1>2 DEF StartDone, Statuses
<1>3. ASSUME NEW k \in Conns, Open(k) \/ OpenFails(k) \/ Leave(k) \/ FailQueued(k)
      PROVE  RestInv'
  <2>1. \A c \in Conns : runner'[c] = "calling" <=> runner[c] = "calling"
    BY <1>0, <1>3 DEF Open, OpenFails, Leave, FailQueued
  <2>2. UNCHANGED <<startTask, configured, status, closed, current, lost>>
    BY <1>3 DEF Open, OpenFails, Leave, FailQueued
  <2>3. call' \in [Calls -> {"none", "pending", "value", "error", "cancelled"}]
    BY <1>3 DEF Open, OpenFails, Leave, FailQueued
  <2> QED BY <2>1, <2>2, <2>3
<1>4. ASSUME NEW k \in Conns, Take(k) PROVE RestInv'
  <2>1. /\ queue[k] # <<>> /\ runner[k] = "serving"
        /\ runner' = [runner EXCEPT ![k] = IF Head(queue[k]) = None THEN "leaving"
                                                                    ELSE "calling"]
        /\ current' = [current EXCEPT ![k] = Head(queue[k])]
        /\ UNCHANGED <<startTask, configured, status, closed, call, lost>>
    BY <1>4 DEF Take
  <2>2. Head(queue[k]) \in Calls \cup {None}
    BY <1>0, <2>1
  <2>3. current' \in [Conns -> Calls \cup {None}]
    BY <2>1, <2>2
  <2>4. \A c \in Conns : runner'[c] = "calling" <=> current'[c] # None
    BY <1>0, <2>1, <2>2
  <2> QED BY <2>1, <2>3, <2>4
<1>5. ASSUME NEW k \in Conns, Answer(k) PROVE RestInv'
  <2>1. /\ runner[k] = "calling" /\ runner' = [runner EXCEPT ![k] = "serving"]
        /\ current' = [current EXCEPT ![k] = None]
        /\ UNCHANGED <<startTask, configured, status, closed, lost>>
    BY <1>5 DEF Answer
  <2>2. PICK reply \in {"value", "error"} :
            call' = [call EXCEPT ![current[k]] = IF @ = "pending" THEN reply ELSE @]
    BY <1>5 DEF Answer
  <2>3. current[k] \in Calls
    BY <2>1
  <2>4. call' \in [Calls -> {"none", "pending", "value", "error", "cancelled"}]
    BY <2>2, <2>3
  <2> QED BY <1>0, <2>1, <2>4
<1>6. ASSUME NEW k \in Conns, TransportBreaks(k) PROVE RestInv'
  BY <1>0, <1>6 DEF TransportBreaks
<1>7. ASSUME NEW w \in Workers, WorkerBegins(w) \/ WorkerProceeds(w) PROVE RestInv'
  <2>1. UNCHANGED <<startTask, current, call, lost>>
    BY <1>7 DEF WorkerBegins, WorkerProceeds, UpsertEnabled, UpsertDisabled, RemoveServer,
                Reconnect, CloseManager, UpsertCommit, ReconnectOpens, ReconnectGivesUp,
                CloseDone
  <2>2. configured' \in Configs /\ status' \in Statuses /\ closed' \in BOOLEAN
    BY <1>7 DEF WorkerBegins, WorkerProceeds, UpsertEnabled, UpsertDisabled, RemoveServer,
                Reconnect, CloseManager, UpsertCommit, ReconnectOpens, ReconnectGivesUp,
                CloseDone, Configs, Statuses
  <2>3. runner' = runner \/ \E c \in Conns : runner[c] = "none"
                                /\ runner' = [runner EXCEPT ![c] = "opening"]
    BY <1>7 DEF WorkerBegins, WorkerProceeds, UpsertEnabled, UpsertDisabled, RemoveServer,
                Reconnect, CloseManager, UpsertCommit, ReconnectOpens, ReconnectGivesUp,
                CloseDone, Opens
  <2>4. \A c \in Conns : runner'[c] = "calling" <=> runner[c] = "calling"
    BY <1>0, <2>3
  <2> QED BY <2>1, <2>2, <2>4
<1>8. ASSUME NEW q \in Calls, Call(q) \/ CancelCall(q) PROVE RestInv'
  BY <1>8 DEF Call, CancelCall
<1>9. CASE UNCHANGED vars
  BY <1>9 DEF vars
<1> QED BY <1>1, <1>2, <1>3, <1>4, <1>5, <1>6, <1>7, <1>8, <1>9 DEF Next, RunnerWork

LEMMA NextHandsInv == HandsInv /\ ConnInv /\ ManagerInv /\ [Next]_vars => HandsInv'
<1> SUFFICES ASSUME HandsInv, ConnInv, ManagerInv, [Next]_vars PROVE HandsInv'
  OBVIOUS
<1>0. /\ opening \in [Workers -> Conns \cup {None}]
      /\ worker \in [Workers -> {"idle", "connecting", "closing", "reconnecting"}]
  BY DEF ManagerInv
<1> USE NamesApart DEF HandsInv, manager, workers
<1>1. CASE Start \/ StartDone
  BY <1>1 DEF Start, StartDone
<1>2. ASSUME NEW k \in Conns, RunnerWork(k) \/ TransportBreaks(k) PROVE HandsInv'
  BY <1>2 DEF RunnerWork, Open, OpenFails, Take, Answer, Leave, FailQueued, TransportBreaks
<1>3. ASSUME NEW w \in Workers, WorkerBegins(w) PROVE HandsInv'
  BY <1>0, <1>3 DEF WorkerBegins, UpsertEnabled, UpsertDisabled, RemoveServer, Reconnect,
                    CloseManager, ClosesThen
<1>4. ASSUME NEW w \in Workers, WorkerProceeds(w) PROVE HandsInv'
  BY <1>0, <1>4 DEF WorkerProceeds, UpsertCommit, ReconnectOpens, ReconnectGivesUp, CloseDone,
                    ClosesThen
<1>5. ASSUME NEW q \in Calls, Call(q) \/ CancelCall(q) PROVE HandsInv'
  BY <1>5 DEF Call, CancelCall
<1>6. CASE UNCHANGED vars
  BY <1>6 DEF vars
<1> QED BY <1>1, <1>2, <1>3, <1>4, <1>5, <1>6 DEF Next

LEMMA NextAccountedInv ==
    AccountedInv /\ HandsInv /\ ConnInv /\ ManagerInv /\ [Next]_vars => AccountedInv'
<1> SUFFICES ASSUME AccountedInv, HandsInv, ConnInv, ManagerInv, [Next]_vars,
                    NEW c \in Conns, runner'[c] \in {"opening", "serving", "calling"}
             PROVE  \/ installed' = c \/ startConn' = c \/ \E w \in Workers : opening'[w] = c
                    \/ ToldToStop(c)'
  BY DEF AccountedInv
<1> DEFINE Alive == runner[c] \in {"opening", "serving", "calling"}
           Goal == \/ installed' = c \/ startConn' = c
                   \/ \E w \in Workers : opening'[w] = c
                   \/ ToldToStop(c)'
<1>0. /\ runner \in [Conns -> RunnerStates] /\ queue \in [Conns -> Seq(Calls \cup {None})]
      /\ opening \in [Workers -> Conns \cup {None}]
  BY DEF ConnInv, ConnTypes
<1>a. Alive => \/ installed = c \/ startConn = c \/ \E w \in Workers : opening[w] = c
               \/ ToldToStop(c)
  BY DEF AccountedInv
<1> USE NamesApart
<1>1. CASE Alive /\ UNCHANGED <<installed, startConn, opening>> /\ queue'[c] = queue[c]
  BY <1>1, <1>a DEF ToldToStop
<1>2. CASE Start
  <2>1. UNCHANGED <<installed, opening, queue>>
    BY <1>2 DEF Start, workers
  <2>2. CASE UNCHANGED <<startConn, runner>>
    BY <2>1, <2>2, <1>1
  <2>3. ASSUME NEW k \in Conns, runner' = [runner EXCEPT ![k] = "opening"], startConn' = k
        PROVE  Goal
    <3>1. startConn = None
      BY <1>2 DEF Start, HandsInv
    <3>2. c # k => Alive
      BY <1>0, <2>3
    <3>3. c # k => Goal
      BY <3>1, <3>2, <2>1, <1>a DEF ToldToStop
    <3> QED BY <2>3, <3>3
  <2> QED BY <1>2, <2>2, <2>3 DEF Start, Opens
<1>3. CASE StartDone
  <2>1. /\ UNCHANGED <<opening, queue, runner>> /\ Ready(startConn)
        /\ runner[startConn] = "refused" \/ installed' = startConn
        /\ installed = None
    BY <1>3 DEF StartDone, workers, connections, Refused, ManagerInv
  <2>2. Alive
    BY <2>1
  <2> QED BY <2>1, <2>2, <1>a DEF ToldToStop
<1>4. ASSUME NEW k \in Conns, Open(k) \/ OpenFails(k) \/ Answer(k) \/ Leave(k) \/ TransportBreaks(k)
      PROVE  Goal
  <2>1. UNCHANGED <<installed, startConn, opening, queue>>
    BY <1>4 DEF Open, OpenFails, Answer, Leave, TransportBreaks, manager, workers
  <2>2. Alive
    BY <1>0, <1>4 DEF Open, OpenFails, Answer, Leave, TransportBreaks
  <2> QED BY <2>1, <2>2, <1>1
<1>5. ASSUME NEW k \in Conns, Take(k) PROVE Goal
  <2>1. /\ queue[k] # <<>> /\ runner[k] = "serving"
        /\ queue' = [queue EXCEPT ![k] = Tail(queue[k])]
        /\ runner' = [runner EXCEPT ![k] = IF Head(queue[k]) = None THEN "leaving"
                                                                    ELSE "calling"]
        /\ UNCHANGED <<installed, startConn, opening>>
    BY <1>5 DEF Take, manager, workers
  <2>2. CASE c # k
    BY <1>0, <1>1, <2>1, <2>2
  <2>3. CASE c = k
    <3>1. Alive /\ Head(queue[c]) # None /\ queue'[c] = Tail(queue[c])
      BY <1>0, <2>1, <2>3
    <3>2. ToldToStop(c) => ToldToStop(c)'
      <4>1. /\ queue[c] \in Seq(Calls \cup {None}) /\ queue[c] # <<>>
            /\ Head(queue[c]) = queue[c][1]
        BY <1>0, <2>1, <2>3
      <4>2. ASSUME NEW i \in 1 .. Len(queue[c]), queue[c][i] = None
            PROVE  ToldToStop(c)'
        <5>1. i # 1
          BY <3>1, <4>1, <4>2
        <5>2. i - 1 \in 1 .. Len(Tail(queue[c])) /\ Tail(queue[c])[i - 1] = queue[c][i]
          BY <4>1, <5>1
        <5> QED BY <3>1, <4>2, <5>2 DEF ToldToStop
      <4> QED BY <4>2 DEF ToldToStop
    <3> QED BY <2>1, <3>1, <3>2, <1>a
  <2> QED BY <2>2, <2>3
<1>6. ASSUME NEW k \in Conns, FailQueued(k) PROVE Goal
  <2>1. /\ runner' = [runner EXCEPT ![k] = "done"] /\ queue' = [queue EXCEPT ![k] = <<>>]
        /\ UNCHANGED <<installed, startConn, opening>>
    BY <1>6 DEF FailQueued, manager, workers
  <2>2. c # k
    BY <1>0, <2>1
  <2> QED BY <1>0, <1>1, <2>1, <2>2
<1>7. ASSUME NEW w \in Workers, UpsertEnabled(w) \/ ReconnectOpens(w) PROVE Goal
  <2>1. PICK k \in Conns :
            /\ runner' = [runner EXCEPT ![k] = "opening"]
            /\ opening' = [opening EXCEPT ![w] = k]
    BY <1>7 DEF UpsertEnabled, ReconnectOpens, Opens
  <2>2. UNCHANGED <<installed, startConn, queue>> /\ opening[w] = None
    BY <1>7 DEF UpsertEnabled, ReconnectOpens, HandsInv
  <2>3. CASE c = k
    BY <1>0, <2>1, <2>3
  <2>4. CASE c # k
    <3>1. Alive
      BY <1>0, <2>1, <2>4
    <3>2. \A v \in Workers : opening[v] = c => opening'[v] = c
      BY <1>0, <2>1, <2>2
    <3> QED BY <2>2, <3>1, <3>2, <1>a DEF ToldToStop
  <2> QED BY <2>3, <2>4
<1>8. ASSUME NEW w \in Workers, CloseDone(w) \/ ReconnectGivesUp(w) PROVE Goal
  BY <1>8, <1>1 DEF CloseDone, ReconnectGivesUp, manager, connections
<1>9. ASSUME NEW w \in Workers, UpsertCommit(w) PROVE Goal
  <2>1. /\ runner[opening[w]] = "refused" \/ installed' = opening[w]
        /\ opening' = [opening EXCEPT ![w] = None]
        /\ ClosesThen(w, installed, "idle") /\ UNCHANGED <<startConn, runner>>
    BY <1>9 DEF UpsertCommit, Refused
  <2>2. ToldToStop(c) \/ (installed = c /\ runner[c] # "done") => ToldToStop(c)'
    BY <2>1, StopIsTold
  <2>3. Alive /\ c # None
    BY <2>1
  <2>4. \A v \in Workers : v # w => opening'[v] = opening[v]
    BY <1>0, <2>1
  <2>5. CASE installed = c
    BY <2>2, <2>3, <2>5
  <2>6. CASE ToldToStop(c)
    BY <2>2, <2>6
  <2>7. ASSUME NEW v \in Workers, opening[v] = c PROVE Goal
    BY <2>1, <2>3, <2>4, <2>7
  <2>8. CASE startConn = c
    BY <2>1, <2>8
  <2> QED BY <2>3, <2>5, <2>6, <2>7, <2>8, <1>a
<1>10. ASSUME NEW w \in Workers,
              UpsertDisabled(w) \/ RemoveServer(w) \/ Reconnect(w) \/ CloseManager(w)
       PROVE  Goal
  <2>1. PICK next : ClosesThen(w, installed, next)
    BY <1>10 DEF UpsertDisabled, RemoveServer, Reconnect, CloseManager
  <2>2. UNCHANGED <<startConn, opening, runner>>
    BY <1>10 DEF UpsertDisabled, RemoveServer, Reconnect, CloseManager
  <2>3. ToldToStop(c) \/ (installed = c /\ runner[c] # "done") => ToldToStop(c)'
    BY <2>1, StopIsTold
  <2>4. Alive /\ c # None
    BY <2>2
  <2> QED BY <2>2, <2>3, <2>4, <1>a
<1>11. ASSUME NEW q \in Calls, Call(q) PROVE Goal
  <2>1. UNCHANGED <<installed, startConn, opening, runner>>
    BY <1>11 DEF Call, manager, workers
  <2>2. queue' = queue \/ (installed # None /\
                           queue' = [queue EXCEPT ![installed] = Append(@, q)])
    BY <1>11 DEF Call, Usable
  <2>3. ASSUME ToldToStop(c) PROVE ToldToStop(c)'
    <3>1. CASE queue'[c] = queue[c]
      BY <2>3, <3>1 DEF ToldToStop
    <3>2. CASE queue'[c] # queue[c]
      <4>1. queue'[c] = Append(queue[c], q)
        BY <1>0, <2>2, <3>2
      <4>2. queue[c] \in Seq(Calls \cup {None}) /\ q \in Calls \cup {None}
        BY <1>0
      <4>3. \A i \in 1 .. Len(queue[c]) :
                i \in 1 .. Len(queue'[c]) /\ queue'[c][i] = queue[c][i]
        BY <4>1, <4>2, AppendKeeps
      <4> QED BY <2>3, <4>3 DEF ToldToStop
    <3> QED BY <3>1, <3>2
  <2> QED BY <2>1, <2>3, <1>a
<1>12. ASSUME NEW q \in Calls, CancelCall(q) PROVE Goal
  BY <1>12, <1>1 DEF CancelCall, manager, workers, connections
<1>13. CASE UNCHANGED vars
  BY <1>13, <1>1 DEF vars, manager, workers, connections
<1> HIDE DEF Goal
<1>14. Goal
  BY <1>2, <1>3, <1>4, <1>5, <1>6, <1>7, <1>8, <1>9, <1>10, <1>11, <1>12, <1>13
     DEF Next, RunnerWork, WorkerBegins, WorkerProceeds, Goal
<1> QED BY <1>14 DEF Goal

LEMMA NextHeldInv == HeldInv /\ ConnInv /\ ManagerInv /\ [Next]_vars => HeldInv'
BY NextRestInv, NextHandsInv, NextAccountedInv DEF HeldInv

(***************************************************************************)
(* Whatever changes of a server overlap, every connection whose task runs  *)
(* is in somebody's hands, or was told to stop, or is stopping.            *)
(***************************************************************************)
THEOREM ConnectionsNeverLeak == Spec => []ConnectionsAccounted
<1>1. ConnInv /\ ManagerInv /\ HeldInv => ConnectionsAccounted
  <2> SUFFICES ASSUME ConnInv, ManagerInv, HeldInv PROVE ConnectionsAccounted
    OBVIOUS
  <2>1. TypeOK
    BY DEF ConnInv, ConnTypes, ManagerInv, HeldInv, RestInv, TypeOK
  <2>2. ASSUME NEW c \in Conns, ToldToStop(c) PROVE None \in ToSet(queue[c])
    <3>1. DOMAIN queue[c] = 1 .. Len(queue[c])
      BY DEF ConnInv, ConnTypes
    <3> QED BY <2>2, <3>1 DEF ToldToStop, ToSet
  <2> QED BY <2>1, <2>2 DEF HeldInv, AccountedInv, ConnectionsAccounted, Running
<1> QED BY <1>1, InitHeldInv, NextHeldInv, InitManagerInv, InitConnInv, NextManagerInv,
           NextConnInv, PTL DEF Spec

=============================================================================
