------------------------ MODULE AgentSteering_proofs ------------------------
(***************************************************************************)
(* Theorems about AgentSteering, for any set of requests and any bounds.   *)
(***************************************************************************)
EXTENDS AgentSteering, TLAPS, FiniteSetTheorems

-----------------------------------------------------------------------------
(* Sequences of message ids.                                               *)

(* Message ids are positive numbers, and so is the one after an id.        *)
LEMMA IdsArePositive ==
    /\ \A n \in Ids : n \in Nat /\ n + 1 \in Ids
    /\ 1 \in Ids
BY DEF Ids

(* Popping an index of a list leaves a list of messages.                   *)
LEMMA RemoveAtType ==
    ASSUME NEW s \in Seq(Ids), NEW i \in 1 .. Len(s)
    PROVE  RemoveAt(s, i) \in Seq(Ids)
BY DEF RemoveAt

(* Popping index i moves the messages behind it one place forward.         *)
LEMMA RemoveAtElements ==
    ASSUME NEW s \in Seq(Ids), NEW i \in 1 .. Len(s)
    PROVE  /\ Len(RemoveAt(s, i)) = Len(s) - 1
           /\ \A j \in 1 .. (Len(s) - 1) :
                 RemoveAt(s, i)[j] = s[IF j < i THEN j ELSE j + 1]
<1> DEFINE a == SubSeq(s, 1, i - 1)
           b == SubSeq(s, i + 1, Len(s))
<1>1. /\ a \in Seq(Ids) /\ Len(a) = i - 1
      /\ \A j \in 1 .. (i - 1) : a[j] = s[j]
  OBVIOUS
<1>2. /\ b \in Seq(Ids) /\ Len(b) = Len(s) - i
      /\ \A j \in 1 .. (Len(s) - i) : b[j] = s[j + i]
  OBVIOUS
<1>3. RemoveAt(s, i) = a \o b
  BY DEF RemoveAt
<1> HIDE DEF a, b
<1>4. Len(a \o b) = Len(s) - 1
  BY <1>1, <1>2
<1>5. ASSUME NEW j \in 1 .. (Len(s) - 1)
      PROVE  (a \o b)[j] = s[IF j < i THEN j ELSE j + 1]
  <2>1. CASE j < i
    BY <1>1, <1>2, <2>1
  <2>2. CASE ~(j < i)
    <3>1. (a \o b)[j] = b[j - Len(a)]
      BY <1>1, <1>2, <2>2
    <3> QED BY <1>1, <1>2, <2>2, <3>1
  <2> QED BY <2>1, <2>2
<1> QED BY <1>3, <1>4, <1>5

-----------------------------------------------------------------------------
(* Every reachable state is well typed: this rests on the fact that a      *)
(* request works on an index of the pending list only while it holds the   *)
(* lock.                                                                   *)

Locked == {"steerCall", "steerMirror", "cancelCall", "cancelMirror"}
CancelLocked == {"cancelCall", "cancelMirror"}

\* The lock belongs to the one coroutine that is inside a critical section.
LockInv ==
    /\ \A c \in Clients : cpc[c] \in Locked <=> lock = c
    /\ sp = "announcing" <=> lock = Stream

\* The two lists are aligned whenever an action is over.
MirrorInv == pendingContents = pendingEvents

\* A request that cancels works on an index of the list.
IndexInv ==
    \A c \in Clients :
        /\ cpc[c] \in CancelLocked => target[c] \in 1 .. Len(pendingEvents)
        /\ cpc[c] = "steerMirror" => target[c] \in Ids

TypeInv == TypeOK /\ LockInv /\ MirrorInv /\ IndexInv

LEMMA InitTypeInv == Init => TypeInv
<1> SUFFICES ASSUME Init PROVE TypeInv
  OBVIOUS
<1>1. ListsOK
  BY DEF Init, ListsOK
<1>2. StreamOK
  BY DEF Init, StreamOK, StreamPCs, Outcomes
<1>3. EngineOK
  BY DEF Init, EngineOK, Outcomes
<1>4. RequestsOK
  BY IdsArePositive DEF Init, RequestsOK
<1>5. LockInv /\ MirrorInv /\ IndexInv
  BY ActorsDistinct DEF Init, LockInv, MirrorInv, IndexInv, Locked, CancelLocked
<1> QED BY <1>1, <1>2, <1>3, <1>4, <1>5 DEF TypeInv, TypeOK

USE DEF mirror, stream, engine, request, vars

\* A request that returns leaves the requests well typed.
LEMMA ReturnType ==
    ASSUME RequestsOK, NEW c \in Clients, Return(c),
           UNCHANGED nextId, UNCHANGED cancelled, lock' \in {lock, Free}
    PROVE  RequestsOK'
BY DEF RequestsOK, Return

LEMMA NextTypeInv == TypeInv /\ [Next]_vars => TypeInv'
<1> SUFFICES ASSUME TypeInv, [Next]_vars PROVE TypeInv'
  OBVIOUS
<1> USE ActorsDistinct, IdsArePositive
        DEF TypeInv, TypeOK, ListsOK, StreamOK, EngineOK, RequestsOK, LockInv,
            MirrorInv, IndexInv, Locked, CancelLocked, StreamPCs, SteerPCs, CancelPCs, Outcomes
<1>1. CASE EngineBoundary
  BY <1>1 DEF EngineBoundary
<1>2. CASE EngineFinish
  BY <1>2 DEF EngineFinish
<1>3. CASE BeginStream
  <2>1. ListsOK'
    BY <1>3 DEF BeginStream
  <2>2. StreamOK'
    BY <1>3 DEF BeginStream
  <2>3. EngineOK'
    BY <1>3 DEF BeginStream
  <2>4. RequestsOK'
    BY <1>3 DEF BeginStream
  <2>5. LockInv'
    BY <1>3 DEF BeginStream
  <2>6. MirrorInv' /\ IndexInv'
    BY <1>3 DEF BeginStream
  <2> QED BY <2>1, <2>2, <2>3, <2>4, <2>5, <2>6
<1>4. CASE StartTurn
  <2>0. ToSet(drainedContents) \subseteq Ids
    BY DEF ToSet
  <2>1. ListsOK'
    BY <1>4, <2>0 DEF StartTurn
  <2>2. StreamOK'
    BY <1>4, <2>0 DEF StartTurn
  <2>3. EngineOK'
    <3>1. abortAsked' \in BOOLEAN
      BY <1>4 DEF StartTurn
    <3>2. delivered' \subseteq Ids /\ held' \subseteq Ids
      BY <1>4, <2>0 DEF StartTurn
    <3>3. phase' = "running" /\ turnOutcome' = "none"
      BY <1>4 DEF StartTurn
    <3>4. turnNo' \in Nat /\ unread' \in Nat /\ steps' \in Nat
      BY <1>4 DEF StartTurn
    <3> QED BY <3>1, <3>2, <3>3, <3>4
  <2>4. RequestsOK'
    BY <1>4, <2>0 DEF StartTurn
  <2>5. LockInv'
    BY <1>4, <2>0 DEF StartTurn
  <2>6. MirrorInv' /\ IndexInv'
    BY <1>4, <2>0 DEF StartTurn
  <2> QED BY <2>1, <2>2, <2>3, <2>4, <2>5, <2>6
<1>5. CASE StartFails
  BY <1>5 DEF StartFails
<1>6. CASE ConsumeStep
  BY <1>6 DEF ConsumeStep
<1>7. CASE AnnounceNext
  BY <1>7 DEF AnnounceNext
<1>8. CASE AnnounceDone
  BY <1>8 DEF AnnounceDone
<1>9. CASE FinishConsuming
  BY <1>9 DEF FinishConsuming
<1>10. CASE Finalize
  BY <1>10 DEF Finalize
<1>11. CASE Drain
  <2>1. ListsOK'
    <3>1. CASE pendingEvents = <<>>
      BY <1>11, <3>1 DEF Drain
    <3>2. CASE pendingEvents # <<>>
      <4>1. pendingEvents' \in Seq(Ids) /\ pendingContents' \in Seq(Ids)
        BY <1>11 DEF Drain
      <4>2. drainedEvents' \in Seq(Ids) /\ drainedContents' \in Seq(Ids)
        BY <1>11 DEF Drain
      <4>3. shownQueue' = <<>> /\ announced' = announced
        BY <1>11, <3>2 DEF Drain
      <4> QED BY <4>1, <4>2, <4>3
    <3> QED BY <3>1, <3>2
  <2>2. StreamOK'
    BY <1>11 DEF Drain
  <2>3. EngineOK'
    BY <1>11 DEF Drain
  <2>4. RequestsOK'
    BY <1>11 DEF Drain
  <2>5. LockInv'
    BY <1>11 DEF Drain
  <2>6. MirrorInv' /\ IndexInv'
    BY <1>11 DEF Drain
  <2> QED BY <2>1, <2>2, <2>3, <2>4, <2>5, <2>6
<1>12. CASE Report
  BY <1>12, SMTT(20) DEF Report
<1>13. CASE Restart
  BY <1>13 DEF Restart
<1>14. CASE End
  <2>1. ListsOK'
    BY <1>14 DEF End
  <2>2. StreamOK'
    BY <1>14 DEF End
  <2>3. EngineOK' /\ RequestsOK'
    BY <1>14 DEF End
  <2>4. LockInv' /\ MirrorInv' /\ IndexInv'
    BY <1>14 DEF End
  <2> QED BY <2>1, <2>2, <2>3, <2>4
<1>15. ASSUME NEW c \in Clients, SteerAsk(c) PROVE TypeInv'
  <2>1. ListsOK'
    BY <1>15 DEF SteerAsk
  <2>2. StreamOK'
    BY <1>15 DEF SteerAsk
  <2>3. EngineOK'
    BY <1>15 DEF SteerAsk
  <2>4. RequestsOK'
    BY <1>15 DEF SteerAsk
  <2>5. LockInv'
    BY <1>15 DEF SteerAsk
  <2>6. MirrorInv' /\ IndexInv'
    BY <1>15 DEF SteerAsk
  <2> QED BY <2>1, <2>2, <2>3, <2>4, <2>5, <2>6
<1>16. ASSUME NEW c \in Clients, SteerEnter(c) PROVE TypeInv'
  <2>1. ListsOK'
    BY <1>16 DEF SteerEnter, Return
  <2>2. StreamOK'
    BY <1>16 DEF SteerEnter, Return
  <2>3. EngineOK'
    BY <1>16 DEF SteerEnter, Return
  <2>4. RequestsOK'
    <3>1. CASE StillActive(c)
      BY <1>16, <3>1 DEF SteerEnter
    <3>2. CASE ~StillActive(c)
      BY <1>16, <3>2, ReturnType DEF SteerEnter
    <3> QED BY <3>1, <3>2
  <2>5. LockInv'
    BY <1>16 DEF SteerEnter, Return
  <2>6. MirrorInv' /\ IndexInv'
    BY <1>16 DEF SteerEnter, Return
  <2> QED BY <2>1, <2>2, <2>3, <2>4, <2>5, <2>6
<1>17. ASSUME NEW c \in Clients, SteerAccept(c) PROVE TypeInv'
  BY <1>17 DEF SteerAccept
<1>18. ASSUME NEW c \in Clients, SteerRefused(c) PROVE TypeInv'
  BY <1>18 DEF SteerRefused, Return
<1>19. ASSUME NEW c \in Clients, SteerMirror(c) PROVE TypeInv'
  BY <1>19 DEF SteerMirror, Return
<1>20. ASSUME NEW c \in Clients, CancelAsk(c) PROVE TypeInv'
  BY <1>20 DEF CancelAsk
<1>21. ASSUME NEW c \in Clients, CancelEnter(c) PROVE TypeInv'
  <2>1. ListsOK'
    BY <1>21 DEF CancelEnter, Return
  <2>2. StreamOK'
    BY <1>21 DEF CancelEnter, Return
  <2>3. EngineOK'
    BY <1>21 DEF CancelEnter, Return
  <2>4. RequestsOK'
    <3> DEFINE index == IF target[c] = 0 THEN Len(pendingEvents) ELSE target[c]
               valid == StillActive(c) /\ index \in 1 .. Len(pendingEvents)
    <3>1. CASE valid
      <4>1. /\ cpc' = [cpc EXCEPT ![c] = "cancelCall"]
            /\ target' = [target EXCEPT ![c] = index]
            /\ lock' = c /\ UNCHANGED <<captured, removed, nextId, cancelled>>
        BY <1>21, <3>1 DEF CancelEnter
      <4>2. index \in Nat
        BY <3>1
      <4> QED BY <4>1, <4>2
    <3>2. CASE ~valid
      BY <1>21, <3>2, ReturnType DEF CancelEnter
    <3> QED BY <3>1, <3>2
  <2>5. LockInv'
    BY <1>21 DEF CancelEnter, Return
  <2>6. MirrorInv' /\ IndexInv'
    BY <1>21 DEF CancelEnter, Return
  <2> QED BY <2>1, <2>2, <2>3, <2>4, <2>5, <2>6
<1>22. ASSUME NEW c \in Clients, CancelCall(c) PROVE TypeInv'
  <2>1. ListsOK'
    BY <1>22 DEF CancelCall
  <2>2. StreamOK'
    BY <1>22 DEF CancelCall
  <2>3. EngineOK'
    BY <1>22 DEF CancelCall
  <2>4. RequestsOK'
    BY <1>22 DEF CancelCall
  <2>5. LockInv'
    BY <1>22 DEF CancelCall
  <2>6. MirrorInv' /\ IndexInv'
    BY <1>22 DEF CancelCall
  <2> QED BY <2>1, <2>2, <2>3, <2>4, <2>5, <2>6
<1>23. ASSUME NEW c \in Clients, CancelMirror(c) PROVE TypeInv'
  <2>0. /\ target[c] \in 1 .. Len(pendingEvents)
        /\ RemoveAt(pendingEvents, target[c]) \in Seq(Ids)
        /\ pendingEvents[target[c]] \in Ids
    BY <1>23, RemoveAtType DEF CancelMirror
  <2>1. ListsOK'
    BY <1>23, <2>0 DEF CancelMirror, Return
  <2>2. StreamOK'
    BY <1>23, <2>0 DEF CancelMirror, Return
  <2>3. EngineOK'
    BY <1>23, <2>0 DEF CancelMirror, Return
  <2>4. RequestsOK'
    BY <1>23, <2>0 DEF CancelMirror, Return
  <2>5. LockInv'
    BY <1>23, <2>0 DEF CancelMirror, Return
  <2>6. MirrorInv' /\ IndexInv'
    BY <1>23, <2>0 DEF CancelMirror, Return
  <2> QED BY <2>1, <2>2, <2>3, <2>4, <2>5, <2>6
<1>24. CASE AbortCurrentTurn
  BY <1>24 DEF AbortCurrentTurn
<1>25. CASE SignalAbort
  BY <1>25 DEF SignalAbort
<1>26. CASE UNCHANGED vars
  BY <1>26
<1> QED
  BY <1>1, <1>2, <1>3, <1>4, <1>5, <1>6, <1>7, <1>8, <1>9, <1>10, <1>11, <1>12,
     <1>13, <1>14, <1>15, <1>16, <1>17, <1>18, <1>19, <1>20, <1>21, <1>22, <1>23,
     <1>24, <1>25, <1>26
     DEF Next, EngineNext, StreamNext, RequestNext

(* Type correctness of the steering state, for every reachable state.      *)
THEOREM TypeCorrect == Spec => []TypeOK
<1>1. TypeInv => TypeOK
  BY DEF TypeInv
<1> QED BY <1>1, InitTypeInv, NextTypeInv, PTL DEF Spec

(* The two pending lists always hold the same messages in the same order.  *)
THEOREM ListsAligned == Spec => [](pendingContents = pendingEvents)
<1>1. TypeInv => pendingContents = pendingEvents
  BY DEF TypeInv, MirrorInv
<1> QED BY <1>1, InitTypeInv, NextTypeInv, PTL DEF Spec

-----------------------------------------------------------------------------
(* A request that is answered "canceled" told the truth.  CancelledNever-  *)
(* Delivered is not inductive: a cancelled message could still reach the   *)
(* model through the turn, which may hold it, or through the lists, from   *)
(* which a follow-up turn is started.  SafeInv says that it is nowhere.    *)

\* Every message anywhere was given its id by an earlier steer request.
FreshInv ==
    /\ \A id \in held \cup delivered \cup cancelled : id < nextId
    /\ \A i \in DOMAIN pendingEvents : pendingEvents[i] < nextId
    /\ \A i \in DOMAIN drainedContents : drainedContents[i] < nextId
    /\ \A c \in Clients : cpc[c] = "steerMirror" => target[c] < nextId

\* No message is at two places of the lists, nor in a list and being recorded.
ApartInv ==
    /\ \A i, j \in DOMAIN pendingEvents :
          pendingEvents[i] = pendingEvents[j] => i = j
    /\ \A i \in DOMAIN pendingEvents, j \in DOMAIN drainedContents :
          pendingEvents[i] # drainedContents[j]
    /\ \A c \in Clients : cpc[c] = "steerMirror" =>
          /\ \A i \in DOMAIN pendingEvents : pendingEvents[i] # target[c]
          /\ \A i \in DOMAIN drainedContents : drainedContents[i] # target[c]

\* A cancelled message is in no list, not held by the turn, not delivered.
CancelInv ==
    /\ cancelled \cap (held \cup delivered) = {}
    /\ \A i \in DOMAIN pendingEvents : pendingEvents[i] \notin cancelled
    /\ \A i \in DOMAIN drainedContents : drainedContents[i] \notin cancelled
    /\ \A c \in Clients : cpc[c] = "steerMirror" => target[c] \notin cancelled

\* What the turn still holds the model has not had; a message the turn gave
\* up to a cancel request is neither held nor delivered.
HeldInv ==
    /\ held \cap delivered = {}
    /\ \A c \in Clients : cpc[c] = "cancelMirror" /\ removed[c] =>
          pendingEvents[target[c]] \notin held \cup delivered

SafeInv == FreshInv /\ ApartInv /\ CancelInv /\ HeldInv

LEMMA InitSafeInv == Init => SafeInv
BY IdsArePositive DEF Init, SafeInv, FreshInv, ApartInv, CancelInv, HeldInv

LEMMA NextSafeInv == TypeInv /\ SafeInv /\ [Next]_vars => SafeInv'
<1> SUFFICES ASSUME TypeInv, SafeInv, [Next]_vars PROVE SafeInv'
  OBVIOUS
<1> USE ActorsDistinct, IdsArePositive
        DEF TypeInv, TypeOK, ListsOK, EngineOK, RequestsOK, LockInv, MirrorInv,
            IndexInv, Locked, CancelLocked, SafeInv, FreshInv, ApartInv, CancelInv,
            HeldInv
<1>1. CASE EngineBoundary
  BY <1>1 DEF EngineBoundary
<1>2. CASE EngineFinish
  BY <1>2 DEF EngineFinish
<1>3. CASE BeginStream
  BY <1>3 DEF BeginStream
<1>4. CASE StartTurn
  <2>0. /\ \A id \in delivered' : \/ id \in delivered
                                   \/ \E i \in DOMAIN drainedContents : drainedContents[i] = id
        /\ \A i \in DOMAIN drainedContents' : FALSE
        /\ held' = {}
        /\ UNCHANGED <<pendingEvents, cpc, target, removed, nextId, cancelled>>
    BY <1>4 DEF StartTurn, ToSet
  <2>1. FreshInv'
    BY <2>0
  <2>2. ApartInv'
    BY <2>0
  <2>3. CancelInv'
    BY <2>0
  <2>4. HeldInv'
    BY <2>0
  <2> QED BY <2>1, <2>2, <2>3, <2>4
<1>5. CASE StartFails
  BY <1>5 DEF StartFails
<1>6. CASE ConsumeStep
  BY <1>6 DEF ConsumeStep
<1>7. CASE AnnounceNext
  <2>0. /\ pendingEvents' \in Seq(Ids)
        /\ \A i \in DOMAIN pendingEvents' : /\ i \in Nat /\ i + 1 \in DOMAIN pendingEvents
                                            /\ pendingEvents'[i] = pendingEvents[i + 1]
        /\ \A c \in Clients : cpc[c] \notin Locked
        /\ UNCHANGED <<drainedContents, held, delivered, cpc, target, removed, nextId, cancelled>>
    BY <1>7 DEF AnnounceNext
  <2>1. FreshInv'
    BY <2>0
  <2>2. ApartInv'
    BY <2>0
  <2>3. CancelInv'
    BY <2>0
  <2>4. HeldInv'
    BY <2>0
  <2> QED BY <2>1, <2>2, <2>3, <2>4
<1>8. CASE AnnounceDone
  BY <1>8 DEF AnnounceDone
<1>9. CASE FinishConsuming
  BY <1>9 DEF FinishConsuming
<1>10. CASE Finalize
  BY <1>10 DEF Finalize
<1>11. CASE Drain
  <2>1. FreshInv'
    BY <1>11 DEF Drain
  <2>2. ApartInv'
    BY <1>11 DEF Drain
  <2>3. CancelInv'
    BY <1>11 DEF Drain
  <2>4. HeldInv'
    BY <1>11 DEF Drain
  <2> QED BY <2>1, <2>2, <2>3, <2>4
<1>12. CASE Report
  BY <1>12 DEF Report
<1>13. CASE Restart
  BY <1>13 DEF Restart
<1>14. CASE End
  BY <1>14 DEF End
<1>15. ASSUME NEW c \in Clients, SteerAsk(c) PROVE SafeInv'
  BY <1>15 DEF SteerAsk
<1>16. ASSUME NEW c \in Clients, SteerEnter(c) PROVE SafeInv'
  <2>0. /\ \A d \in Clients : cpc'[d] \notin {"steerMirror", "cancelMirror"}
        /\ UNCHANGED <<pendingEvents, drainedContents, held, delivered, nextId, cancelled>>
    BY <1>16 DEF SteerEnter, Return
  <2>1. FreshInv'
    BY <2>0
  <2>2. ApartInv'
    BY <2>0
  <2>3. CancelInv'
    BY <2>0
  <2>4. HeldInv'
    BY <2>0
  <2> QED BY <2>1, <2>2, <2>3, <2>4
<1>17. ASSUME NEW c \in Clients, SteerAccept(c) PROVE SafeInv'
  <2>1. FreshInv'
    <3>1. nextId \in Nat /\ nextId' = nextId + 1
      BY <1>17 DEF SteerAccept
    <3>2. /\ held' \subseteq held \cup {nextId}
          /\ \A d \in Clients : cpc'[d] = "steerMirror" => target'[d] = nextId
          /\ UNCHANGED <<pendingEvents, drainedContents, delivered, cancelled>>
      BY <1>17 DEF SteerAccept
    <3>3. \A id \in Ids : id < nextId => id < nextId'
      BY <3>1
    <3>4. nextId < nextId'
      BY <3>1
    <3>5. \A id \in held' \cup delivered' \cup cancelled' : id < nextId'
      BY <3>2, <3>3, <3>4
    <3>6. \A i \in DOMAIN pendingEvents' : pendingEvents'[i] < nextId'
      BY <3>2, <3>3
    <3>7. \A i \in DOMAIN drainedContents' : drainedContents'[i] < nextId'
      BY <3>2, <3>3
    <3>8. \A d \in Clients : cpc'[d] = "steerMirror" => target'[d] < nextId'
      BY <3>2, <3>4
    <3> QED BY <3>5, <3>6, <3>7, <3>8
  <2>2. ApartInv'
    BY <1>17 DEF SteerAccept
  <2>3. CancelInv'
    BY <1>17 DEF SteerAccept
  <2>4. HeldInv'
    BY <1>17 DEF SteerAccept
  <2> QED BY <2>1, <2>2, <2>3, <2>4
<1>18. ASSUME NEW c \in Clients, SteerRefused(c) PROVE SafeInv'
  BY <1>18 DEF SteerRefused, Return
<1>19. ASSUME NEW c \in Clients, SteerMirror(c) PROVE SafeInv'
  <2>0. /\ \A i \in DOMAIN pendingEvents' :
              \/ i \in DOMAIN pendingEvents /\ pendingEvents'[i] = pendingEvents[i]
              \/ i = Len(pendingEvents) + 1 /\ pendingEvents'[i] = target[c]
        /\ cpc[c] = "steerMirror"
        /\ \A d \in Clients : cpc'[d] \notin {"steerMirror", "cancelMirror"}
        /\ UNCHANGED <<drainedContents, held, delivered, nextId, cancelled>>
    BY <1>19 DEF SteerMirror, Return
  <2>1. FreshInv'
    BY <2>0
  <2>2. ApartInv'
    <3>1. /\ \A i \in DOMAIN pendingEvents : pendingEvents[i] # target[c]
          /\ \A i \in DOMAIN drainedContents : drainedContents[i] # target[c]
          /\ \A i \in DOMAIN pendingEvents : i # Len(pendingEvents) + 1
      BY <2>0
    <3>2. \A i, j \in DOMAIN pendingEvents' :
              pendingEvents'[i] = pendingEvents'[j] => i = j
      BY <2>0, <3>1
    <3>3. \A i \in DOMAIN pendingEvents', j \in DOMAIN drainedContents' :
              pendingEvents'[i] # drainedContents'[j]
      BY <2>0, <3>1
    <3> QED BY <2>0, <3>2, <3>3
  <2>3. CancelInv'
    BY <2>0
  <2>4. HeldInv'
    BY <2>0
  <2> QED BY <2>1, <2>2, <2>3, <2>4
<1>20. ASSUME NEW c \in Clients, CancelAsk(c) PROVE SafeInv'
  BY <1>20 DEF CancelAsk
<1>21. ASSUME NEW c \in Clients, CancelEnter(c) PROVE SafeInv'
  <2>0. /\ \A d \in Clients : cpc'[d] \notin {"steerMirror", "cancelMirror"}
        /\ UNCHANGED <<pendingEvents, drainedContents, held, delivered, nextId, cancelled>>
    <3> DEFINE index == IF target[c] = 0 THEN Len(pendingEvents) ELSE target[c]
               valid == StillActive(c) /\ index \in 1 .. Len(pendingEvents)
    <3>1. lock = Free
      BY <1>21 DEF CancelEnter
    <3>2. CASE valid
      <4>1. cpc' = [cpc EXCEPT ![c] = "cancelCall"]
        BY <1>21, <3>2 DEF CancelEnter
      <4>2. UNCHANGED <<pendingEvents, drainedContents, held, delivered, nextId, cancelled>>
        BY <1>21 DEF CancelEnter
      <4> QED BY <3>1, <4>1, <4>2
    <3>3. CASE ~valid
      <4>1. cpc' = [cpc EXCEPT ![c] = "ready"]
        BY <1>21, <3>3 DEF CancelEnter, Return
      <4>2. UNCHANGED <<pendingEvents, drainedContents, held, delivered, nextId, cancelled>>
        BY <1>21 DEF CancelEnter
      <4> QED BY <3>1, <4>1, <4>2
    <3> QED BY <3>2, <3>3
  <2>1. FreshInv'
    BY <2>0
  <2>2. ApartInv'
    BY <2>0
  <2>3. CancelInv'
    BY <2>0
  <2>4. HeldInv'
    BY <2>0
  <2> QED BY <2>1, <2>2, <2>3, <2>4
<1>22. ASSUME NEW c \in Clients, CancelCall(c) PROVE SafeInv'
  <2>1. FreshInv'
    BY <1>22 DEF CancelCall
  <2>2. ApartInv'
    BY <1>22 DEF CancelCall
  <2>3. CancelInv'
    BY <1>22 DEF CancelCall
  <2>4. HeldInv'
    BY <1>22 DEF CancelCall
  <2> QED BY <2>1, <2>2, <2>3, <2>4
<1>23. ASSUME NEW c \in Clients, CancelMirror(c) PROVE SafeInv'
  <2>a. /\ target[c] \in 1 .. Len(pendingEvents) /\ cpc[c] = "cancelMirror"
        /\ \A d \in Clients : cpc'[d] \notin {"steerMirror", "cancelMirror"}
        /\ UNCHANGED <<drainedContents, held, delivered, nextId>>
    BY <1>23 DEF CancelMirror, Return
  <2>b. CASE ~removed[c]
    <3>1. UNCHANGED <<pendingEvents, cancelled>>
      BY <1>23, <2>b DEF CancelMirror
    <3>2. FreshInv' /\ CancelInv' /\ HeldInv'
      BY <2>a, <3>1
    <3>3. ApartInv'
      BY <2>a, <3>1
    <3> QED BY <3>2, <3>3
  <2>c. CASE removed[c]
    <3> DEFINE id == pendingEvents[target[c]]
               from(i) == IF i < target[c] THEN i ELSE i + 1
    <3>1. /\ cancelled' = cancelled \cup {id}
          /\ pendingEvents' = RemoveAt(pendingEvents, target[c])
      BY <1>23, <2>c DEF CancelMirror
    <3>2. /\ pendingEvents \in Seq(Ids) /\ nextId \in Nat
          /\ target[c] \in 1 .. Len(pendingEvents)
          /\ Len(pendingEvents') = Len(pendingEvents) - 1
          /\ DOMAIN pendingEvents' = 1 .. (Len(pendingEvents) - 1)
      <4>1. pendingEvents \in Seq(Ids) /\ nextId \in Nat
        OBVIOUS
      <4>2. target[c] \in 1 .. Len(pendingEvents)
        BY <2>a
      <4>3. pendingEvents' \in Seq(Ids)
        BY <3>1, <4>1, <4>2, RemoveAtType
      <4>4. Len(pendingEvents') = Len(pendingEvents) - 1
        BY <3>1, <4>1, <4>2, RemoveAtElements
      <4>5. DOMAIN pendingEvents' = 1 .. (Len(pendingEvents) - 1)
        BY <4>3, <4>4
      <4> QED BY <4>1, <4>2, <4>4, <4>5
    <3>3. /\ id < nextId /\ id \notin held \cup delivered
          /\ \A i \in DOMAIN drainedContents : drainedContents[i] # id
          /\ target[c] \in DOMAIN pendingEvents
      <4>1. target[c] \in DOMAIN pendingEvents
        BY <3>2
      <4> QED BY <2>a, <2>c, <4>1
    <3> HIDE DEF TypeInv, SafeInv
    <3>4. \A i \in DOMAIN pendingEvents' :
              i \in Nat /\ from(i) \in DOMAIN pendingEvents /\ from(i) # target[c]
      BY <3>2
    <3>5. \A i \in DOMAIN pendingEvents' : pendingEvents'[i] = pendingEvents[from(i)]
      BY <3>1, <3>2, RemoveAtElements
    <3>6. \A i \in DOMAIN pendingEvents' : pendingEvents'[i] # id
      BY <3>3, <3>4, <3>5 DEF SafeInv
    <3>7. FreshInv'
      BY <2>a, <3>1, <3>3, <3>4, <3>5 DEF SafeInv
    <3>8. ApartInv'
      BY <2>a, <3>2, <3>4, <3>5 DEF SafeInv
    <3>9. CancelInv'
      BY <2>a, <3>1, <3>3, <3>4, <3>5, <3>6 DEF SafeInv
    <3> QED BY <2>a, <3>7, <3>8, <3>9 DEF SafeInv
  <2> QED BY <2>b, <2>c
<1>24. CASE AbortCurrentTurn
  BY <1>24 DEF AbortCurrentTurn
<1>25. CASE SignalAbort
  BY <1>25 DEF SignalAbort
<1>26. CASE UNCHANGED vars
  BY <1>26
<1> QED
  BY <1>1, <1>2, <1>3, <1>4, <1>5, <1>6, <1>7, <1>8, <1>9, <1>10, <1>11,
     <1>12, <1>13, <1>14, <1>15, <1>16, <1>17, <1>18, <1>19, <1>20, <1>21,
     <1>22, <1>23, <1>24, <1>25, <1>26
     DEF Next, EngineNext, StreamNext, RequestNext

(* A message whose cancel request was answered "canceled" is never given   *)
(* to the model, for any number of requests and any interleaving.          *)
THEOREM CancelledStaysAway == Spec => []CancelledNeverDelivered
<1>1. SafeInv => CancelledNeverDelivered
  BY DEF SafeInv, CancelInv, CancelledNeverDelivered
<1>2. TypeInv /\ SafeInv /\ [Next]_vars => (TypeInv /\ SafeInv)'
  BY NextTypeInv, NextSafeInv
<1> QED BY <1>1, <1>2, InitTypeInv, InitSafeInv, PTL DEF Spec

-----------------------------------------------------------------------------
(***************************************************************************)
(* Every accepted message is accounted for.  MessagesAccounted is not      *)
(* inductive: that no message is in two places rests on the order of ids   *)
(* over all the lists (OrderInv), that none is lost on each step moving it *)
(* on (KeptInv), that a follow-up turn gets what is new on the stream      *)
(* having read every step boundary before it drains (TurnInv), and that a  *)
(* clean stop leaves nothing on no request coming late (CleanInv).         *)
(***************************************************************************)
Ascending(s) == \A i, j \in DOMAIN s : i < j => s[i] < s[j]
AllBelow(s, t) == \A i \in DOMAIN s, j \in DOMAIN t : s[i] < t[j]
LastBelow(s, n) == \A i \in DOMAIN s : s[i] < n

\* Ids ascend from the announced messages over the drained and the pending
\* ones to the one that is being recorded.  Only a stream that reports has
\* drained messages left to announce.
OrderInv ==
    /\ Ascending(announced) /\ Ascending(drainedEvents) /\ Ascending(pendingEvents)
    /\ AllBelow(announced, drainedEvents) /\ AllBelow(announced, pendingEvents)
    /\ AllBelow(drainedEvents, pendingEvents)
    /\ LastBelow(announced, nextId) /\ LastBelow(drainedEvents, nextId)
    /\ LastBelow(pendingEvents, nextId)
    /\ \A c \in Clients : cpc[c] = "steerMirror" =>
          /\ LastBelow(announced, target[c]) /\ LastBelow(drainedEvents, target[c])
          /\ LastBelow(pendingEvents, target[c]) /\ target[c] < nextId
    /\ sp # "reporting" => drainedEvents = <<>>

\* No message is lost, and a cancelled one is announced nowhere.
KeptInv ==
    /\ \A id \in 1 .. (nextId - 1) :
          \/ \E c \in Clients : cpc[c] = "steerMirror" /\ target[c] = id
          \/ \E i \in DOMAIN pendingEvents : pendingEvents[i] = id
          \/ \E i \in DOMAIN drainedEvents : drainedEvents[i] = id
          \/ \E i \in DOMAIN announced : announced[i] = id
          \/ id \in cancelled
    /\ \A i \in DOMAIN drainedEvents : drainedEvents[i] \notin cancelled
    /\ \A i \in DOMAIN announced : announced[i] \notin cancelled

\* A turn runs only while the stream reads its events.  Between two boundaries
\* that were read, no message that is pending was given to the model.
TurnInv ==
    /\ sp \notin {"consuming", "announcing"} => phase # "running" /\ unread = 0
    /\ unread = 0 /\ sp # "announcing" =>
          /\ \A i \in DOMAIN pendingEvents : pendingEvents[i] \notin delivered
          /\ \A c \in Clients : cpc[c] = "steerMirror" => target[c] \notin delivered
    /\ sp \in {"reporting", "starting"} =>
          \A i \in DOMAIN drainedContents : drainedContents[i] \notin delivered

\* A stream that ends well has drained, and no request is left to record more.
CleanInv ==
    sp \in {"ending", "idle"} /\ outcome \in {"ok", "abort"} =>
        /\ pendingEvents = <<>>
        /\ \A c \in Clients : cpc[c] \notin {"steerCall", "steerMirror"}

\* Clients see the queue as it is.  A stream that was not announced never got
\* beyond its start, and shows nothing.
ViewInv ==
    /\ shownQueue = pendingEvents
    /\ sp = "idle" \/ (sp = "starting" /\ ~announcedRunning) => ~running
    /\ sp \notin {"idle", "starting"} => announcedRunning

(* Most actions move no message: lists, ids and the message that is being  *)
(* recorded stay.  These are the others.                                   *)
Settled ==
    /\ UNCHANGED <<announced, drainedEvents, pendingEvents, nextId, cancelled>>
    /\ \A c \in Clients :
          /\ cpc'[c] = "steerMirror" <=> cpc[c] = "steerMirror"
          /\ cpc'[c] = "steerMirror" => target'[c] = target[c]
    /\ sp' # "reporting" => drainedEvents = <<>>

Moves ==
    \/ AnnounceNext \/ Drain \/ Report
    \/ \E c \in Clients : \/ SteerAccept(c) \/ SteerMirror(c)
                          \/ CancelMirror(c) /\ removed[c]

LEMMA SettledOrMoves == TypeInv /\ OrderInv /\ [Next]_vars => Settled \/ Moves
<1> SUFFICES ASSUME TypeInv, OrderInv, [Next]_vars PROVE Settled \/ Moves
  OBVIOUS
<1>0. /\ cpc \in [Clients -> {"ready"} \cup SteerPCs \cup CancelPCs]
      /\ target \in [Clients -> Nat]
      /\ sp # "reporting" => drainedEvents = <<>>
  BY DEF TypeInv, TypeOK, RequestsOK, OrderInv
<1> USE DEF Settled
<1>1. CASE EngineNext
  BY <1>0, <1>1 DEF EngineNext, EngineBoundary, EngineFinish
<1>2. CASE StreamNext
  <2>1. CASE BeginStream \/ StartTurn
    BY <1>0, <2>1 DEF BeginStream, StartTurn
  <2>2. CASE StartFails \/ ConsumeStep \/ AnnounceDone
    BY <1>0, <2>2 DEF StartFails, ConsumeStep, AnnounceDone
  <2>3. CASE FinishConsuming \/ Finalize
    BY <1>0, <2>3 DEF FinishConsuming, Finalize
  <2>4. CASE Restart \/ End
    BY <1>0, <2>4 DEF Restart, End
  <2>5. CASE AnnounceNext \/ Drain \/ Report
    BY <2>5 DEF Moves
  <2> QED BY <1>2, <2>1, <2>2, <2>3, <2>4, <2>5 DEF StreamNext
<1>3. ASSUME NEW c \in Clients, RequestNext(c) PROVE Settled \/ Moves
  <2>1. CASE SteerAsk(c) \/ SteerRefused(c)
    BY <1>0, <2>1 DEF SteerAsk, SteerRefused, Return
  <2>2. CASE SteerEnter(c)
    BY <1>0, <2>2 DEF SteerEnter, Return
  <2>3. CASE CancelAsk(c) \/ CancelCall(c)
    BY <1>0, <2>3 DEF CancelAsk, CancelCall
  <2>4. CASE CancelEnter(c)
    <3>1. /\ \E pc \in {"cancelCall", "ready"} : cpc' = [cpc EXCEPT ![c] = pc]
          /\ \E n : target' = [target EXCEPT ![c] = n]
      BY <2>4 DEF CancelEnter, Return
    <3> QED BY <1>0, <2>4, <3>1 DEF CancelEnter
  <2>5. CASE CancelMirror(c) /\ ~removed[c]
    BY <1>0, <2>5 DEF CancelMirror, Return
  <2>6. CASE SteerAccept(c) \/ SteerMirror(c) \/ (CancelMirror(c) /\ removed[c])
    BY <2>6 DEF Moves
  <2> QED BY <1>3, <2>1, <2>2, <2>3, <2>4, <2>5, <2>6 DEF RequestNext
<1>4. CASE AbortCurrentTurn \/ SignalAbort \/ UNCHANGED vars
  BY <1>0, <1>4 DEF AbortCurrentTurn, SignalAbort
<1> QED BY <1>1, <1>2, <1>3, <1>4 DEF Next

(* What moving a message does to the lists.                                *)
LEMMA AppendElements ==
    ASSUME NEW s \in Seq(Ids), NEW n \in Ids
    PROVE  /\ Append(s, n) \in Seq(Ids) /\ DOMAIN Append(s, n) = 1 .. (Len(s) + 1)
           /\ Append(s, n)[Len(s) + 1] = n
           /\ \A i \in DOMAIN s : Append(s, n)[i] = s[i]
OBVIOUS

LEMMA TailElements ==
    ASSUME NEW s \in Seq(Ids), s # <<>>
    PROVE  /\ Tail(s) \in Seq(Ids) /\ DOMAIN Tail(s) = 1 .. (Len(s) - 1)
           /\ Head(s) = s[1] /\ 1 \in DOMAIN s /\ Head(s) \in Ids
           /\ \A i \in DOMAIN Tail(s) : i + 1 \in DOMAIN s /\ Tail(s)[i] = s[i + 1]
OBVIOUS

(* An id above all of a list may be appended to it.                        *)
LEMMA AppendAscends ==
    ASSUME NEW s \in Seq(Ids), NEW n \in Ids, Ascending(s), LastBelow(s, n)
    PROVE  /\ Ascending(Append(s, n))
           /\ \A m \in Nat : n < m => LastBelow(Append(s, n), m)
           /\ \A t \in Seq(Ids) : AllBelow(s, t) /\ (\A j \in DOMAIN t : n < t[j])
                 => AllBelow(Append(s, n), t)
<1>1. \A i \in DOMAIN Append(s, n) : i \in DOMAIN s \/ i = Len(s) + 1
  BY AppendElements
<1>2. \A i \in DOMAIN s : i < Len(s) + 1 /\ s[i] \in Nat
  BY DEF Ids
<1>3. n \in Nat
  BY DEF Ids
<1>4. Ascending(Append(s, n))
  BY <1>1, <1>2, AppendElements DEF Ascending, LastBelow
<1>5. ASSUME NEW m \in Nat, n < m PROVE LastBelow(Append(s, n), m)
  BY <1>1, <1>2, <1>3, <1>5, AppendElements DEF LastBelow
<1>6. ASSUME NEW t \in Seq(Ids), AllBelow(s, t), \A j \in DOMAIN t : n < t[j]
      PROVE  AllBelow(Append(s, n), t)
  BY <1>1, <1>6, AppendElements DEF AllBelow
<1> QED BY <1>4, <1>5, <1>6

(* The first of an ascending list is below the others, which ascend.       *)
LEMMA TailAscends ==
    ASSUME NEW s \in Seq(Ids), s # <<>>, Ascending(s)
    PROVE  /\ Ascending(Tail(s)) /\ \A i \in DOMAIN Tail(s) : Head(s) < Tail(s)[i]
           /\ \A m \in Nat : LastBelow(s, m) => LastBelow(Tail(s), m) /\ Head(s) < m
           /\ \A t \in Seq(Ids) :
                 /\ AllBelow(t, s) => AllBelow(t, Tail(s)) /\ LastBelow(t, Head(s))
                 /\ AllBelow(s, t) => AllBelow(Tail(s), t) /\ \A j \in DOMAIN t : Head(s) < t[j]
<1>1. \A i \in DOMAIN Tail(s) : i \in Nat \ {0} /\ i + 1 \in DOMAIN s /\ Tail(s)[i] = s[i + 1]
  BY TailElements
<1>2. 1 \in DOMAIN s /\ Head(s) = s[1]
  BY TailElements
<1>3. Ascending(Tail(s)) /\ \A i \in DOMAIN Tail(s) : Head(s) < Tail(s)[i]
  BY <1>1, <1>2 DEF Ascending
<1>4. \A m \in Nat : LastBelow(s, m) => LastBelow(Tail(s), m) /\ Head(s) < m
  BY <1>1, <1>2 DEF LastBelow
<1>5. ASSUME NEW t \in Seq(Ids)
      PROVE  /\ AllBelow(t, s) => AllBelow(t, Tail(s)) /\ LastBelow(t, Head(s))
             /\ AllBelow(s, t) => AllBelow(Tail(s), t) /\ \A j \in DOMAIN t : Head(s) < t[j]
  BY <1>1, <1>2 DEF AllBelow, LastBelow
<1> QED BY <1>3, <1>4, <1>5

(* A list stays in order when a message is taken out of it.                *)
LEMMA RemoveAscends ==
    ASSUME NEW s \in Seq(Ids), NEW k \in 1 .. Len(s), Ascending(s)
    PROVE  /\ Ascending(RemoveAt(s, k)) /\ RemoveAt(s, k) \in Seq(Ids)
           /\ \A i \in DOMAIN RemoveAt(s, k) : \E j \in DOMAIN s : j # k /\ RemoveAt(s, k)[i] = s[j]
           /\ \A j \in DOMAIN s : j # k => \E i \in DOMAIN RemoveAt(s, k) : RemoveAt(s, k)[i] = s[j]
<1> DEFINE r == RemoveAt(s, k)
           from(i) == IF i < k THEN i ELSE i + 1
           to(j) == IF j < k THEN j ELSE j - 1
<1>1. r \in Seq(Ids)
  BY RemoveAtType
<1>2. DOMAIN r = 1 .. (Len(s) - 1)
  BY <1>1, RemoveAtElements
<1>a. \A i \in 1 .. (Len(s) - 1) : r[i] = s[from(i)]
  BY RemoveAtElements
<1> HIDE DEF r
<1>3. \A i \in DOMAIN r : i \in Nat /\ from(i) \in DOMAIN s /\ from(i) # k /\ r[i] = s[from(i)]
  BY <1>a, <1>2
<1>4. \A i, j \in DOMAIN r : i < j => from(i) < from(j)
  BY <1>3
<1>5. Ascending(r)
  BY <1>3, <1>4 DEF Ascending
<1>6. \A i \in DOMAIN r : \E j \in DOMAIN s : j # k /\ r[i] = s[j]
  BY <1>3
<1>7. ASSUME NEW j \in DOMAIN s, j # k PROVE \E i \in DOMAIN r : r[i] = s[j]
  <2>1. to(j) \in DOMAIN r /\ from(to(j)) = j
    BY <1>2, <1>7
  <2> QED BY <1>3, <2>1
<1> QED BY <1>1, <1>5, <1>6, <1>7 DEF r

LEMMA NextOrderInv == TypeInv /\ OrderInv /\ [Next]_vars => OrderInv'
<1> SUFFICES ASSUME TypeInv, OrderInv, [Next]_vars PROVE OrderInv'
  OBVIOUS
<1>t. /\ pendingEvents \in Seq(Ids) /\ drainedEvents \in Seq(Ids) /\ announced \in Seq(Ids)
      /\ nextId \in Ids /\ nextId \in Nat
      /\ cpc \in [Clients -> {"ready"} \cup SteerPCs \cup CancelPCs]
      /\ target \in [Clients -> Nat]
  BY IdsArePositive DEF TypeInv, TypeOK, ListsOK, RequestsOK
<1>l. /\ \A c \in Clients : cpc[c] \in Locked <=> lock = c
      /\ sp = "announcing" <=> lock = Stream
      /\ \A c \in Clients : /\ cpc[c] \in CancelLocked => target[c] \in 1 .. Len(pendingEvents)
                            /\ cpc[c] = "steerMirror" => target[c] \in Ids
  BY DEF TypeInv, LockInv, IndexInv
<1>1. CASE Settled
  BY <1>1 DEF Settled, OrderInv
<1>2. CASE AnnounceNext
  <2> DEFINE first == Head(pendingEvents)
  <2>1. /\ sp = "announcing" /\ pendingEvents # <<>>
        /\ announced' = Append(announced, first) /\ pendingEvents' = Tail(pendingEvents)
        /\ UNCHANGED <<sp, drainedEvents, nextId, cpc, target>>
    BY <1>2 DEF AnnounceNext
  <2>2. \A c \in Clients : cpc[c] # "steerMirror"
    BY <1>l, <2>1, ActorsDistinct DEF Locked
  <2>3. drainedEvents = <<>>
    BY <2>1 DEF OrderInv
  <2>4. /\ Ascending(pendingEvents') /\ LastBelow(pendingEvents', nextId)
        /\ first < nextId /\ \A j \in DOMAIN pendingEvents' : first < pendingEvents'[j]
        /\ AllBelow(announced, pendingEvents') /\ LastBelow(announced, first)
        /\ pendingEvents' \in Seq(Ids) /\ first \in Ids
    BY <1>t, <2>1, TailAscends, TailElements DEF OrderInv
  <2> HIDE DEF first
  <2>5. /\ Ascending(announced') /\ LastBelow(announced', nextId)
        /\ AllBelow(announced', pendingEvents')
    BY <1>t, <2>1, <2>4, AppendAscends DEF OrderInv
  <2>6. \A s : AllBelow(s, <<>>) /\ AllBelow(<<>>, s)
    BY DEF AllBelow
  <2> QED BY <2>1, <2>2, <2>3, <2>4, <2>5, <2>6 DEF OrderInv
<1>3. CASE Drain
  <2>1. /\ sp = "draining" /\ lock = Free
        /\ drainedEvents' = pendingEvents /\ pendingEvents' = <<>>
        /\ pendingEvents # <<>> => sp' = "reporting"
        /\ UNCHANGED <<announced, nextId, cpc, target>>
    BY <1>3 DEF Drain
  <2>2. \A c \in Clients : cpc[c] # "steerMirror"
    BY <1>l, <2>1, ActorsDistinct DEF Locked
  <2>3. \A s : /\ AllBelow(s, <<>>) /\ AllBelow(<<>>, s) /\ Ascending(<<>>)
               /\ \A n : LastBelow(<<>>, n)
    BY DEF AllBelow, Ascending, LastBelow
  <2> QED BY <2>1, <2>2, <2>3 DEF OrderInv
<1>4. CASE Report
  <2> DEFINE first == Head(drainedEvents)
  <2>1. /\ sp = "reporting" /\ drainedEvents # <<>>
        /\ announced' = Append(announced, first) /\ drainedEvents' = Tail(drainedEvents)
        /\ UNCHANGED <<sp, pendingEvents, nextId, cpc, target>>
    BY <1>4 DEF Report
  <2>2. /\ Ascending(drainedEvents') /\ LastBelow(drainedEvents', nextId)
        /\ first < nextId /\ \A j \in DOMAIN drainedEvents' : first < drainedEvents'[j]
        /\ AllBelow(announced, drainedEvents') /\ LastBelow(announced, first)
        /\ AllBelow(drainedEvents', pendingEvents)
        /\ \A j \in DOMAIN pendingEvents : first < pendingEvents[j]
        /\ drainedEvents' \in Seq(Ids) /\ first \in Ids
    BY <1>t, <2>1, TailAscends, TailElements DEF OrderInv
  <2>3. \A c \in Clients : cpc[c] = "steerMirror" =>
            LastBelow(drainedEvents', target[c]) /\ first < target[c]
    BY <1>t, <2>1, TailAscends DEF OrderInv
  <2> HIDE DEF first
  <2>4. /\ Ascending(announced') /\ LastBelow(announced', nextId)
        /\ AllBelow(announced', drainedEvents') /\ AllBelow(announced', pendingEvents)
    BY <1>t, <2>1, <2>2, AppendAscends DEF OrderInv
  <2>5. \A c \in Clients : cpc[c] = "steerMirror" => LastBelow(announced', target[c])
    BY <1>t, <2>1, <2>2, <2>3, AppendAscends DEF OrderInv
  <2> QED BY <2>1, <2>2, <2>3, <2>4, <2>5 DEF OrderInv
<1>5. ASSUME NEW c \in Clients, SteerAccept(c) PROVE OrderInv'
  <2>1. /\ cpc[c] = "steerCall" /\ cpc' = [cpc EXCEPT ![c] = "steerMirror"]
        /\ target' = [target EXCEPT ![c] = nextId] /\ nextId' = nextId + 1
        /\ UNCHANGED <<sp, announced, drainedEvents, pendingEvents>>
    BY <1>5 DEF SteerAccept
  <2>2. \A d \in Clients : cpc'[d] = "steerMirror" => target'[d] = nextId
    BY <1>t, <1>l, <2>1 DEF Locked
  <2>3. ASSUME NEW s \in Seq(Ids), LastBelow(s, nextId) PROVE LastBelow(s, nextId')
    <3> SUFFICES ASSUME NEW i \in DOMAIN s PROVE s[i] < nextId'
      BY DEF LastBelow
    <3>1. s[i] \in Ids /\ s[i] < nextId
      BY <2>3 DEF LastBelow
    <3> QED BY <1>t, <2>1, <3>1 DEF Ids
  <2>4. /\ LastBelow(announced, nextId') /\ LastBelow(drainedEvents, nextId')
        /\ LastBelow(pendingEvents, nextId')
    BY <1>t, <2>3 DEF OrderInv
  <2>5. nextId < nextId'
    BY <1>t, <2>1
  <2> QED BY <2>1, <2>2, <2>4, <2>5 DEF OrderInv
<1>6. ASSUME NEW c \in Clients, SteerMirror(c) PROVE OrderInv'
  <2>1. /\ cpc[c] = "steerMirror" /\ cpc' = [cpc EXCEPT ![c] = "ready"]
        /\ pendingEvents' = Append(pendingEvents, target[c])
        /\ UNCHANGED <<sp, announced, drainedEvents, nextId>>
    BY <1>6 DEF SteerMirror, Return
  <2>2. \A d \in Clients : cpc'[d] # "steerMirror"
    BY <1>t, <1>l, <2>1 DEF Locked
  <2>3. target[c] \in Ids /\ target[c] < nextId
    BY <1>l, <2>1 DEF OrderInv
  <2>4. Ascending(pendingEvents') /\ LastBelow(pendingEvents', nextId)
    BY <1>t, <2>1, <2>3, AppendAscends DEF OrderInv
  <2>5. ASSUME NEW s \in Seq(Ids), AllBelow(s, pendingEvents), LastBelow(s, target[c])
        PROVE  AllBelow(s, pendingEvents')
    BY <1>t, <2>1, <2>3, <2>5, AppendElements DEF AllBelow, LastBelow
  <2>6. AllBelow(announced, pendingEvents') /\ AllBelow(drainedEvents, pendingEvents')
    BY <1>t, <2>1, <2>5 DEF OrderInv
  <2> QED BY <2>1, <2>2, <2>4, <2>6 DEF OrderInv
<1>7. ASSUME NEW c \in Clients, CancelMirror(c), removed[c] PROVE OrderInv'
  <2>1. /\ cpc[c] = "cancelMirror" /\ cpc' = [cpc EXCEPT ![c] = "ready"]
        /\ pendingEvents' = RemoveAt(pendingEvents, target[c])
        /\ UNCHANGED <<sp, announced, drainedEvents, nextId>>
    BY <1>7 DEF CancelMirror, Return
  <2>2. \A d \in Clients : cpc'[d] # "steerMirror"
    BY <1>t, <1>l, <2>1 DEF Locked
  <2>3. target[c] \in 1 .. Len(pendingEvents)
    BY <1>l, <2>1 DEF CancelLocked
  <2>4. /\ Ascending(pendingEvents')
        /\ \A i \in DOMAIN pendingEvents' : \E j \in DOMAIN pendingEvents :
                pendingEvents'[i] = pendingEvents[j]
    BY <1>t, <2>1, <2>3, RemoveAscends DEF OrderInv
  <2>5. /\ LastBelow(pendingEvents', nextId) /\ AllBelow(announced, pendingEvents')
        /\ AllBelow(drainedEvents, pendingEvents')
    BY <2>4 DEF OrderInv, LastBelow, AllBelow
  <2> QED BY <2>1, <2>2, <2>4, <2>5 DEF OrderInv
<1> QED BY <1>1, <1>2, <1>3, <1>4, <1>5, <1>6, <1>7, SettledOrMoves DEF Moves

LEMMA NextKeptInv == TypeInv /\ SafeInv /\ OrderInv /\ KeptInv /\ [Next]_vars => KeptInv'
<1> SUFFICES ASSUME TypeInv, SafeInv, OrderInv, KeptInv, [Next]_vars PROVE KeptInv'
  OBVIOUS
<1> DEFINE Recorded(id) == \E c \in Clients : cpc[c] = "steerMirror" /\ target[c] = id
           In(s, id) == \E i \in DOMAIN s : s[i] = id
<1>t. /\ pendingEvents \in Seq(Ids) /\ drainedEvents \in Seq(Ids) /\ announced \in Seq(Ids)
      /\ nextId \in Ids /\ nextId \in Nat
      /\ cpc \in [Clients -> {"ready"} \cup SteerPCs \cup CancelPCs]
      /\ target \in [Clients -> Nat]
  BY IdsArePositive DEF TypeInv, TypeOK, ListsOK, RequestsOK
<1>l. /\ \A c \in Clients : cpc[c] \in Locked <=> lock = c
      /\ sp = "announcing" <=> lock = Stream
      /\ \A c \in Clients : /\ cpc[c] \in CancelLocked => target[c] \in 1 .. Len(pendingEvents)
                            /\ cpc[c] = "steerMirror" => target[c] \in Ids
  BY DEF TypeInv, LockInv, IndexInv
<1>k. /\ \A id \in 1 .. (nextId - 1) :
             Recorded(id) \/ In(pendingEvents, id) \/ In(drainedEvents, id)
               \/ In(announced, id) \/ id \in cancelled
      /\ \A i \in DOMAIN drainedEvents : drainedEvents[i] \notin cancelled
      /\ \A i \in DOMAIN announced : announced[i] \notin cancelled
      /\ \A i \in DOMAIN pendingEvents : pendingEvents[i] \notin cancelled
  BY DEF KeptInv, SafeInv, CancelInv
\* An appended list holds what it held and the message; the tail of one all but
\* the first.
<1>a. ASSUME NEW s \in Seq(Ids), NEW n \in Ids
      PROVE  /\ \A id : In(Append(s, n), id) <=> In(s, id) \/ id = n
  BY AppendElements
<1>h. ASSUME NEW s \in Seq(Ids), s # <<>>
      PROVE  \A id : In(s, id) <=> In(Tail(s), id) \/ id = Head(s)
  <2>1. ASSUME NEW id, In(s, id) PROVE In(Tail(s), id) \/ id = Head(s)
    <3>1. PICK i \in DOMAIN s : s[i] = id
      BY <2>1
    <3>2. CASE i = 1
      BY <1>h, <3>1, <3>2, TailElements
    <3>3. CASE i # 1
      <4>1. i - 1 \in DOMAIN Tail(s)
        BY <1>h, <3>3, TailElements
      <4>2. Tail(s)[i - 1] = s[i]
        BY <1>h, <3>3, <4>1, TailElements
      <4> QED BY <3>1, <4>1, <4>2
    <3> QED BY <3>2, <3>3
  <2>2. ASSUME NEW id, In(Tail(s), id) \/ id = Head(s) PROVE In(s, id)
    BY <1>h, <2>2, TailElements
  <2> QED BY <2>1, <2>2
\* The lists' members only move on, and none of them was cancelled.
<1>m. ASSUME nextId' = nextId,
             \A id : Recorded(id) \/ In(pendingEvents, id) \/ In(drainedEvents, id)
                       \/ In(announced, id) \/ id \in cancelled
                     => Recorded(id)' \/ In(pendingEvents, id)' \/ In(drainedEvents, id)'
                       \/ In(announced, id)' \/ id \in cancelled',
             \A id : In(drainedEvents, id)' \/ In(announced, id)' => id \notin cancelled'
      PROVE  KeptInv'
  <2>1. \A id \in 1 .. (nextId' - 1) :
             Recorded(id)' \/ In(pendingEvents, id)' \/ In(drainedEvents, id)'
               \/ In(announced, id)' \/ id \in cancelled'
    BY <1>k, <1>m
  <2> QED BY <1>m, <2>1 DEF KeptInv
<1>1. CASE Settled
  BY <1>1 DEF Settled, KeptInv
<1>2. CASE AnnounceNext
  <2>1. /\ pendingEvents # <<>>
        /\ announced' = Append(announced, Head(pendingEvents))
        /\ pendingEvents' = Tail(pendingEvents)
        /\ UNCHANGED <<drainedEvents, nextId, cancelled, cpc, target>>
    BY <1>2 DEF AnnounceNext
  <2>2. Head(pendingEvents) \in Ids
    BY <1>t, <2>1, TailElements
  <2>3. \A id : In(announced, id)' <=> In(announced, id) \/ id = Head(pendingEvents)
    <3>1. \A id : In(Append(announced, Head(pendingEvents)), id) <=> In(announced, id) \/ id = Head(pendingEvents)
      BY <1>t, <1>a, <2>2
    <3> QED BY <2>1, <3>1
  <2>4. \A id : In(pendingEvents, id) <=> In(pendingEvents, id)' \/ id = Head(pendingEvents)
    BY <1>t, <1>h, <2>1
  <2>5. \A id : Recorded(id)' <=> Recorded(id)
    BY <2>1
  <2>6. \A id : In(drainedEvents, id)' <=> In(drainedEvents, id)
    BY <2>1
  <2>7. \A id : In(drainedEvents, id) \/ In(announced, id) \/ In(pendingEvents, id)
               => id \notin cancelled
    BY <1>k
  <2> HIDE DEF In, Recorded
  <2> QED BY <2>1, <2>3, <2>4, <2>5, <2>6, <2>7, <1>m
<1>3. CASE Drain
  <2>1. /\ sp = "draining" /\ drainedEvents' = pendingEvents /\ pendingEvents' = <<>>
        /\ UNCHANGED <<announced, nextId, cancelled, cpc, target>>
    BY <1>3 DEF Drain
  <2>2. drainedEvents = <<>>
    BY <2>1 DEF OrderInv
  <2>3. \A id : In(drainedEvents, id)' <=> In(pendingEvents, id)
    BY <2>1
  <2>4. \A id : ~In(drainedEvents, id)
    BY <2>2
  <2>5. \A id : (Recorded(id)' <=> Recorded(id)) /\ (In(announced, id)' <=> In(announced, id))
    BY <2>1
  <2>6. \A id : In(announced, id) \/ In(pendingEvents, id) => id \notin cancelled
    BY <1>k
  <2> HIDE DEF In, Recorded
  <2> QED BY <2>1, <2>3, <2>4, <2>5, <2>6, <1>m
<1>4. CASE Report
  <2>1. /\ drainedEvents # <<>>
        /\ announced' = Append(announced, Head(drainedEvents))
        /\ drainedEvents' = Tail(drainedEvents)
        /\ UNCHANGED <<pendingEvents, nextId, cancelled, cpc, target>>
    BY <1>4 DEF Report
  <2>2. Head(drainedEvents) \in Ids
    BY <1>t, <2>1, TailElements
  <2>3. \A id : In(announced, id)' <=> In(announced, id) \/ id = Head(drainedEvents)
    <3>1. \A id : In(Append(announced, Head(drainedEvents)), id) <=> In(announced, id) \/ id = Head(drainedEvents)
      BY <1>t, <1>a, <2>2
    <3> QED BY <2>1, <3>1
  <2>4. \A id : In(drainedEvents, id) <=> In(drainedEvents, id)' \/ id = Head(drainedEvents)
    BY <1>t, <1>h, <2>1
  <2>5. \A id : (Recorded(id)' <=> Recorded(id)) /\ (In(pendingEvents, id)' <=> In(pendingEvents, id))
    BY <2>1
  <2>6. \A id : In(drainedEvents, id) \/ In(announced, id) => id \notin cancelled
    BY <1>k
  <2> HIDE DEF In, Recorded
  <2> QED BY <2>1, <2>3, <2>4, <2>5, <2>6, <1>m
<1>5. ASSUME NEW c \in Clients, SteerAccept(c) PROVE KeptInv'
  <2>1. /\ cpc[c] = "steerCall" /\ cpc' = [cpc EXCEPT ![c] = "steerMirror"]
        /\ target' = [target EXCEPT ![c] = nextId] /\ nextId' = nextId + 1
        /\ UNCHANGED <<announced, drainedEvents, pendingEvents, cancelled>>
    BY <1>5 DEF SteerAccept
  <2>2. \A d \in Clients : cpc[d] # "steerMirror"
    BY <1>t, <1>l, <2>1 DEF Locked
  <2>3. cpc'[c] = "steerMirror" /\ target'[c] = nextId
    BY <1>t, <2>1
  <2>4. \A id \in 1 .. (nextId' - 1) : id \in 1 .. (nextId - 1) \/ id = nextId
    BY <1>t, <2>1
  <2> QED BY <1>k, <2>1, <2>2, <2>3, <2>4 DEF KeptInv
<1>6. ASSUME NEW c \in Clients, SteerMirror(c) PROVE KeptInv'
  <2>1. /\ cpc[c] = "steerMirror" /\ cpc' = [cpc EXCEPT ![c] = "ready"]
        /\ pendingEvents' = Append(pendingEvents, target[c])
        /\ UNCHANGED <<announced, drainedEvents, nextId, cancelled>>
    BY <1>6 DEF SteerMirror, Return
  <2>2. \A d \in Clients : cpc[d] = "steerMirror" => d = c
    BY <1>l, <2>1 DEF Locked
  <2>3. target[c] \in Ids
    BY <1>l, <2>1
  <2>4. \A id : In(pendingEvents, id)' <=> In(pendingEvents, id) \/ id = target[c]
    <3>1. \A id : In(Append(pendingEvents, target[c]), id) <=> In(pendingEvents, id) \/ id = target[c]
      BY <1>t, <1>a, <2>3
    <3> QED BY <2>1, <3>1
  <2>5. \A id : Recorded(id) => id = target[c]
    BY <2>2
  <2>6. \A id : /\ In(drainedEvents, id)' <=> In(drainedEvents, id)
                /\ In(announced, id)' <=> In(announced, id)
    BY <2>1
  <2>7. \A id : In(drainedEvents, id) \/ In(announced, id) => id \notin cancelled
    BY <1>k
  <2> HIDE DEF In, Recorded
  <2> QED BY <2>1, <2>4, <2>5, <2>6, <2>7, <1>m
<1>7. ASSUME NEW c \in Clients, CancelMirror(c), removed[c] PROVE KeptInv'
  <2> DEFINE gone == pendingEvents[target[c]]
  <2>1. /\ cpc[c] = "cancelMirror" /\ cancelled' = cancelled \cup {gone}
        /\ pendingEvents' = RemoveAt(pendingEvents, target[c])
        /\ UNCHANGED <<announced, drainedEvents, nextId>>
    BY <1>7 DEF CancelMirror
  <2>2. \A d \in Clients : cpc[d] # "steerMirror"
    BY <1>l, <2>1 DEF Locked
  <2>3. target[c] \in 1 .. Len(pendingEvents) /\ target[c] \in DOMAIN pendingEvents
    BY <1>t, <1>l, <2>1 DEF CancelLocked
  <2>4. \A id : In(pendingEvents, id) => In(pendingEvents, id)' \/ id = gone
    BY <1>t, <2>1, <2>3, RemoveAscends, SMTT(20) DEF OrderInv
  <2>5. \A id : ~Recorded(id)
    BY <2>2
  <2>6. \A id : /\ In(drainedEvents, id)' <=> In(drainedEvents, id)
                /\ In(announced, id)' <=> In(announced, id)
    BY <2>1
  <2>7. \A id : In(drainedEvents, id) \/ In(announced, id) => id \notin cancelled
    BY <1>k
  <2>8. \A id : In(drainedEvents, id) \/ In(announced, id) => id # gone
    BY <1>t, <2>3 DEF OrderInv, AllBelow, Ids
  <2> HIDE DEF In, Recorded, gone
  <2> QED BY <2>1, <2>4, <2>5, <2>6, <2>7, <2>8, <1>m
<1> QED BY <1>1, <1>2, <1>3, <1>4, <1>5, <1>6, <1>7, SettledOrMoves DEF Moves

(* In order and kept, a message is in exactly one place.                   *)
LEMMA KeptIsOnePlace ==
    TypeInv /\ SafeInv /\ OrderInv /\ KeptInv => EachMessageInOnePlace
<1> SUFFICES ASSUME TypeInv, SafeInv, OrderInv, KeptInv, NEW id \in 1 .. (nextId - 1)
             PROVE  Cardinality({i \in DOMAIN Places(id) : Places(id)[i]}) = 1
  BY DEF EachMessageInOnePlace
<1> DEFINE a == id \in InHand
           b == id \in ToSet(pendingEvents)
           d == id \in ToSet(drainedEvents)
           e == id \in ToSet(announced)
           f == id \in cancelled
<1>1. Places(id) = <<a, b, d, e, f>>
  BY DEF Places
<1>t. /\ pendingEvents \in Seq(Ids) /\ drainedEvents \in Seq(Ids) /\ announced \in Seq(Ids)
  BY DEF TypeInv, TypeOK, ListsOK
<1>2. /\ a <=> \E c \in Clients : cpc[c] = "steerMirror" /\ target[c] = id
      /\ b <=> \E i \in DOMAIN pendingEvents : pendingEvents[i] = id
      /\ d <=> \E i \in DOMAIN drainedEvents : drainedEvents[i] = id
      /\ e <=> \E i \in DOMAIN announced : announced[i] = id
  BY DEF InHand, ToSet
<1>3. a \/ b \/ d \/ e \/ f
  BY <1>2 DEF KeptInv
<1>4. f => ~a /\ ~b /\ ~d /\ ~e
  BY <1>2 DEF KeptInv, SafeInv, CancelInv
<1>5. a => ~b /\ ~d /\ ~e
  BY <1>2, <1>t, SMTT(20) DEF OrderInv, LastBelow, Ids
<1>6. (b => ~d /\ ~e) /\ (d => ~e)
  BY <1>2, <1>t DEF OrderInv, AllBelow, Ids
<1> HIDE DEF a, b, d, e, f
<1>7. \E k \in 1 .. 5 : {i \in DOMAIN Places(id) : Places(id)[i]} = {k}
  <2>1. DOMAIN Places(id) = 1 .. 5
    BY <1>1
  <2>2. /\ Places(id)[1] = a /\ Places(id)[2] = b /\ Places(id)[3] = d
        /\ Places(id)[4] = e /\ Places(id)[5] = f
    BY <1>1
  <2>3. \A i \in 1 .. 5 : i = 1 \/ i = 2 \/ i = 3 \/ i = 4 \/ i = 5
    OBVIOUS
  <2>4. \E k \in 1 .. 5 : Places(id)[k] /\ \A i \in 1 .. 5 : Places(id)[i] => i = k
    BY <1>3, <1>4, <1>5, <1>6, <2>2, <2>3
  <2>5. PICK k \in 1 .. 5 : Places(id)[k] /\ \A i \in 1 .. 5 : Places(id)[i] => i = k
    BY <2>4
  <2>6. {i \in DOMAIN Places(id) : Places(id)[i]} = {k}
    BY <2>1, <2>5
  <2> QED BY <2>6
<1> QED BY <1>7, FS_Singleton

-----------------------------------------------------------------------------
(* The turn and the stream: what the model was given, and how a stream     *)
(* ends.                                                                   *)

LEMMA NextTurnInv ==
    TypeInv /\ SafeInv /\ OrderInv /\ TurnInv /\ [Next]_vars => TurnInv'
<1> SUFFICES ASSUME TypeInv, SafeInv, OrderInv, TurnInv, [Next]_vars PROVE TurnInv'
  OBVIOUS
<1>t. /\ pendingEvents \in Seq(Ids) /\ drainedContents \in Seq(Ids)
      /\ nextId \in Nat /\ unread \in Nat /\ delivered \subseteq Ids
      /\ cpc \in [Clients -> {"ready"} \cup SteerPCs \cup CancelPCs]
      /\ target \in [Clients -> Nat]
  BY IdsArePositive DEF TypeInv, TypeOK, ListsOK, EngineOK, RequestsOK
<1>l. /\ \A c \in Clients : cpc[c] \in Locked <=> lock = c
      /\ sp = "announcing" <=> lock = Stream
      /\ \A c \in Clients : cpc[c] \in CancelLocked => target[c] \in 1 .. Len(pendingEvents)
      /\ pendingContents = pendingEvents
  BY DEF TypeInv, LockInv, MirrorInv, IndexInv
<1>1. CASE EngineBoundary
  <2>1. /\ sp \in {"consuming", "announcing"} /\ unread' = unread + 1 /\ UNCHANGED sp
    BY <1>1 DEF EngineBoundary, TurnInv
  <2>2. unread' # 0
    BY <1>t, <2>1
  <2> QED BY <2>1, <2>2 DEF TurnInv
<1>2. CASE EngineFinish
  BY <1>2 DEF EngineFinish, TurnInv
<1>3. CASE BeginStream
  BY <1>3 DEF BeginStream, TurnInv
<1>4. CASE StartTurn
  <2>1. /\ sp = "starting" /\ sp' = "consuming" /\ unread = 0 /\ unread' = 0
        /\ delivered' = delivered \cup {drainedContents[i] : i \in DOMAIN drainedContents}
        /\ UNCHANGED <<pendingEvents, cpc, target>>
    BY <1>4 DEF StartTurn, TurnInv, ToSet
  <2>2. \A i \in DOMAIN pendingEvents : pendingEvents[i] \notin delivered'
    BY <2>1 DEF TurnInv, SafeInv, ApartInv
  <2>3. \A c \in Clients : cpc[c] = "steerMirror" => target[c] \notin delivered'
    BY <2>1 DEF TurnInv, SafeInv, ApartInv
  <2> QED BY <2>1, <2>2, <2>3 DEF TurnInv
<1>5. CASE StartFails
  BY <1>5 DEF StartFails, TurnInv
<1>6. CASE ConsumeStep
  BY <1>6 DEF ConsumeStep, TurnInv
<1>7. CASE AnnounceNext
  BY <1>7 DEF AnnounceNext, TurnInv
<1>8. CASE AnnounceDone
  <2>1. \A c \in Clients : cpc[c] # "steerMirror"
    BY <1>8, <1>l, ActorsDistinct DEF AnnounceDone, Locked
  <2> QED BY <1>8, <2>1 DEF AnnounceDone, TurnInv
<1>9. CASE FinishConsuming
  BY <1>9 DEF FinishConsuming, TurnInv
<1>10. CASE Finalize
  BY <1>10 DEF Finalize, TurnInv
<1>11. CASE Drain
  <2>1. /\ sp = "draining" /\ unread = 0 /\ phase # "running"
        /\ sp' \in {"ending", "reporting"}
        /\ drainedContents' = pendingEvents /\ pendingEvents' = <<>>
        /\ UNCHANGED <<phase, unread, delivered, cpc, target>>
    BY <1>11, <1>l DEF Drain, TurnInv
  <2> QED BY <2>1 DEF TurnInv
<1>12. CASE Report
  BY <1>12 DEF Report, TurnInv
<1>13. CASE Restart
  BY <1>13 DEF Restart, TurnInv
<1>14. CASE End
  BY <1>14 DEF End, TurnInv
<1>15. ASSUME NEW c \in Clients, SteerAccept(c) PROVE TurnInv'
  <2>1. /\ cpc[c] = "steerCall" /\ target' = [target EXCEPT ![c] = nextId]
        /\ cpc' = [cpc EXCEPT ![c] = "steerMirror"]
        /\ UNCHANGED <<sp, phase, unread, delivered, drainedContents, pendingEvents>>
    BY <1>15 DEF SteerAccept
  <2>2. nextId \notin delivered
    BY <1>t DEF SafeInv, FreshInv
  <2>3. \A d \in Clients : cpc'[d] = "steerMirror" => target'[d] = nextId
    BY <1>t, <1>l, <2>1 DEF Locked
  <2> QED BY <2>1, <2>2, <2>3 DEF TurnInv
<1>16. ASSUME NEW c \in Clients, SteerMirror(c) PROVE TurnInv'
  <2>1. /\ cpc[c] = "steerMirror" /\ cpc' = [cpc EXCEPT ![c] = "ready"]
        /\ pendingEvents' = Append(pendingEvents, target[c])
        /\ UNCHANGED <<sp, phase, unread, delivered, drainedContents>>
    BY <1>16 DEF SteerMirror, Return
  <2>2. \A d \in Clients : cpc'[d] # "steerMirror"
    BY <1>t, <1>l, <2>1 DEF Locked
  <2>3. target[c] \in Ids
    BY <2>1 DEF TypeInv, IndexInv
  <2>4. \A i \in DOMAIN pendingEvents' :
            \/ pendingEvents'[i] = target[c]
            \/ i \in DOMAIN pendingEvents /\ pendingEvents'[i] = pendingEvents[i]
    BY <1>t, <2>1, <2>3, AppendElements
  <2> QED BY <2>1, <2>2, <2>4 DEF TurnInv
<1>17. ASSUME NEW c \in Clients, CancelMirror(c), removed[c] PROVE TurnInv'
  <2>1. /\ cpc[c] = "cancelMirror" /\ cpc' = [cpc EXCEPT ![c] = "ready"]
        /\ pendingEvents' = RemoveAt(pendingEvents, target[c])
        /\ UNCHANGED <<sp, phase, unread, delivered, drainedContents>>
    BY <1>17 DEF CancelMirror, Return
  <2>2. \A d \in Clients : cpc'[d] # "steerMirror"
    BY <1>t, <1>l, <2>1 DEF Locked
  <2>3. target[c] \in 1 .. Len(pendingEvents)
    BY <1>l, <2>1 DEF CancelLocked
  <2>4. \A i \in DOMAIN pendingEvents' : \E j \in DOMAIN pendingEvents :
            pendingEvents'[i] = pendingEvents[j]
    BY <1>t, <2>1, <2>3, RemoveAscends DEF OrderInv
  <2> QED BY <2>1, <2>2, <2>4 DEF TurnInv
<1>18. ASSUME NEW c \in Clients, RequestNext(c), ~SteerAccept(c), ~SteerMirror(c),
              ~(CancelMirror(c) /\ removed[c])
       PROVE  TurnInv'
  <2>1. UNCHANGED <<sp, phase, unread, delivered, drainedContents, pendingEvents>>
    BY <1>18
       DEF RequestNext, SteerAsk, SteerEnter, SteerRefused, CancelAsk, CancelEnter, CancelCall,
           CancelMirror
  <2>2. \A d \in Clients : cpc'[d] = "steerMirror" => cpc[d] = "steerMirror" /\ target'[d] = target[d]
    <3>1. /\ \E pc \in {"ready", "steerWait", "steerCall", "cancelWait", "cancelCall",
                        "cancelMirror"} : cpc' = [cpc EXCEPT ![c] = pc]
          /\ target' = target \/ \E n : target' = [target EXCEPT ![c] = n]
      BY <1>18
         DEF RequestNext, SteerAsk, SteerEnter, SteerRefused, CancelAsk, CancelEnter,
             CancelCall, CancelMirror, Return
    <3> QED BY <1>t, <3>1
  <2> QED BY <2>1, <2>2 DEF TurnInv
<1>19. CASE AbortCurrentTurn \/ SignalAbort \/ UNCHANGED vars
  BY <1>19 DEF AbortCurrentTurn, SignalAbort, TurnInv
<1>20. CASE EngineNext \/ StreamNext
  BY <1>1, <1>2, <1>3, <1>4, <1>5, <1>6, <1>7, <1>8, <1>9, <1>10, <1>11, <1>12, <1>13, <1>14,
     <1>20
     DEF EngineNext, StreamNext
<1> QED BY <1>15, <1>16, <1>17, <1>18, <1>19, <1>20 DEF Next

LEMMA NextCleanInv == TypeInv /\ TurnInv /\ CleanInv /\ [Next]_vars => CleanInv'
<1> SUFFICES ASSUME TypeInv, TurnInv, CleanInv, [Next]_vars,
                    sp' \in {"ending", "idle"}, outcome' \in {"ok", "abort"}
             PROVE  /\ pendingEvents' = <<>>
                    /\ \A c \in Clients : cpc'[c] \notin {"steerCall", "steerMirror"}
  BY DEF CleanInv
<1> DEFINE Clean == /\ pendingEvents = <<>>
                    /\ \A c \in Clients : cpc[c] \notin {"steerCall", "steerMirror"}
<1>t. cpc \in [Clients -> {"ready"} \cup SteerPCs \cup CancelPCs]
  BY DEF TypeInv, TypeOK, RequestsOK
<1>l. /\ \A c \in Clients : cpc[c] \in Locked <=> lock = c
      /\ \A c \in Clients : cpc[c] \in CancelLocked => target[c] \in 1 .. Len(pendingEvents)
  BY DEF TypeInv, LockInv, IndexInv
<1>1. ASSUME UNCHANGED <<sp, outcome, pendingEvents, cpc>> PROVE Clean'
  BY <1>1 DEF CleanInv
<1>2. CASE EngineNext \/ AbortCurrentTurn \/ SignalAbort \/ UNCHANGED vars
  BY <1>1, <1>2 DEF EngineNext, EngineBoundary, EngineFinish, AbortCurrentTurn, SignalAbort
<1>3. CASE StreamNext
  <2>1. CASE Drain
    <3>1. \A c \in Clients : cpc[c] \notin {"steerCall", "steerMirror"}
      BY <1>l, <2>1, ActorsDistinct DEF Drain, Locked
    <3> QED BY <2>1, <3>1 DEF Drain
  <2>2. CASE End
    BY <2>2 DEF End, CleanInv
  <2>3. CASE BeginStream \/ StartTurn \/ StartFails
    BY <2>3 DEF BeginStream, StartTurn, StartFails
  <2>4. CASE ConsumeStep \/ AnnounceNext \/ AnnounceDone
    BY <2>4 DEF ConsumeStep, AnnounceNext, AnnounceDone
  <2>5. CASE FinishConsuming \/ Finalize
    BY <2>5 DEF FinishConsuming, Finalize
  <2>6. CASE Report \/ Restart
    BY <2>6 DEF Report, Restart
  <2> QED BY <1>3, <2>1, <2>2, <2>3, <2>4, <2>5, <2>6 DEF StreamNext
<1>4. ASSUME NEW c \in Clients, RequestNext(c) PROVE Clean'
  <2>1. UNCHANGED <<sp, outcome>>
    BY <1>4
       DEF RequestNext, SteerAsk, SteerEnter, SteerAccept, SteerRefused, SteerMirror, CancelAsk,
           CancelEnter, CancelCall, CancelMirror
  <2>2. Clean /\ phase # "running"
    BY <2>1 DEF CleanInv, TurnInv
  <2>3. ~SteerAccept(c) /\ ~SteerRefused(c) /\ ~SteerMirror(c)
    BY <2>2 DEF SteerAccept, SteerRefused, SteerMirror
  <2>4. ~CancelCall(c) /\ ~CancelMirror(c)
    BY <1>l, <2>2 DEF CancelCall, CancelMirror, CancelLocked
  <2>5. CASE SteerAsk(c) \/ CancelAsk(c)
    BY <2>2, <2>5 DEF SteerAsk, CancelAsk, TurnActive
  <2>6. CASE SteerEnter(c)
    BY <1>t, <2>2, <2>6 DEF SteerEnter, StillActive, TurnActive, Return
  <2>7. CASE CancelEnter(c)
    BY <1>t, <2>2, <2>7 DEF CancelEnter, StillActive, TurnActive, Return
  <2> QED BY <1>4, <2>3, <2>4, <2>5, <2>6, <2>7 DEF RequestNext
<1> QED BY <1>2, <1>3, <1>4 DEF Next

LEMMA NextViewInv == TypeInv /\ ViewInv /\ [Next]_vars => ViewInv'
<1> SUFFICES ASSUME TypeInv, ViewInv, [Next]_vars PROVE ViewInv'
  OBVIOUS
<1>l. /\ \A c \in Clients : cpc[c] \in Locked <=> lock = c
      /\ sp = "announcing" <=> lock = Stream
  BY DEF TypeInv, LockInv
<1>1. CASE EngineNext \/ AbortCurrentTurn \/ SignalAbort \/ UNCHANGED vars
  BY <1>1
     DEF ViewInv, EngineNext, EngineBoundary, EngineFinish, AbortCurrentTurn, SignalAbort
<1>2. CASE StreamNext
  <2>1. CASE BeginStream \/ StartTurn \/ StartFails
    BY <2>1 DEF ViewInv, BeginStream, StartTurn, StartFails
  <2>2. CASE ConsumeStep
    BY <2>2, ActorsDistinct DEF ViewInv, ConsumeStep
  <2>3. CASE AnnounceNext
    BY <2>3 DEF ViewInv, AnnounceNext
  <2>4. CASE AnnounceDone
    BY <1>l, <2>4 DEF ViewInv, AnnounceDone
  <2>5. CASE FinishConsuming \/ Finalize
    BY <2>5 DEF ViewInv, FinishConsuming, Finalize
  <2>6. CASE Drain
    BY <2>6 DEF ViewInv, Drain
  <2>7. CASE Report \/ Restart \/ End
    BY <2>7 DEF ViewInv, Report, Restart, End
  <2> QED BY <1>2, <2>1, <2>2, <2>3, <2>4, <2>5, <2>6, <2>7 DEF StreamNext
<1>3. ASSUME NEW c \in Clients, RequestNext(c) PROVE ViewInv'
  <2>1. UNCHANGED <<sp, announcedRunning, running>>
    BY <1>3
       DEF RequestNext, SteerAsk, SteerEnter, SteerAccept, SteerRefused, SteerMirror, CancelAsk,
           CancelEnter, CancelCall, CancelMirror
  <2>2. shownQueue' = pendingEvents'
    BY <1>3
       DEF ViewInv, RequestNext, SteerAsk, SteerEnter, SteerAccept, SteerRefused, SteerMirror,
           CancelAsk, CancelEnter, CancelCall, CancelMirror
  <2> QED BY <2>1, <2>2 DEF ViewInv
<1> QED BY <1>1, <1>2, <1>3 DEF Next

LEMMA InitMessages == Init => OrderInv /\ KeptInv /\ TurnInv /\ CleanInv /\ ViewInv
<1> SUFFICES ASSUME Init PROVE OrderInv /\ KeptInv /\ TurnInv /\ CleanInv /\ ViewInv
  OBVIOUS
<1>1. OrderInv
  BY DEF Init, OrderInv, Ascending, AllBelow, LastBelow
<1>2. KeptInv
  BY DEF Init, KeptInv
<1>3. TurnInv /\ CleanInv /\ ViewInv
  BY DEF Init, TurnInv, CleanInv, ViewInv
<1> QED BY <1>1, <1>2, <1>3

(* Every message the server accepted is accounted for, for any number of   *)
(* requests, steps and turns: in one place, announced in order, new to the *)
(* follow-up turn that gets it, and not left behind by a clean stop.       *)
THEOREM MessagesAreAccounted == Spec => []MessagesAccounted
<1> DEFINE IInv == TypeInv /\ SafeInv /\ OrderInv /\ KeptInv /\ TurnInv /\ CleanInv
<1>1. Init => IInv
  BY InitTypeInv, InitSafeInv, InitMessages
<1>2. IInv /\ [Next]_vars => IInv'
  BY NextTypeInv, NextSafeInv, NextOrderInv, NextKeptInv, NextTurnInv, NextCleanInv
<1>3. IInv => MessagesAccounted
  <2> SUFFICES ASSUME IInv PROVE MessagesAccounted
    OBVIOUS
  <2>1. TypeOK
    BY DEF TypeInv
  <2>2. EachMessageInOnePlace
    BY KeptIsOnePlace
  <2>3. AnnouncedInOrder
    BY DEF OrderInv, Ascending, AnnouncedInOrder
  <2>4. RestartDeliversFresh
    BY DEF TurnInv, RestartDeliversFresh, ToSet
  <2>5. CleanStopLeavesNothing
    BY DEF CleanInv, CleanStopLeavesNothing
  <2> QED BY <2>1, <2>2, <2>3, <2>4, <2>5 DEF MessagesAccounted
<1> QED BY <1>1, <1>2, <1>3, PTL DEF Spec

(* Clients see the steering queue as the server holds it whenever no       *)
(* handler is changing it, and an idle session is shown as not running.    *)
THEOREM ViewFollows == Spec => []ViewInSync
<1>1. TypeInv /\ ViewInv => ViewInSync
  BY DEF TypeInv, MirrorInv, ViewInv, ViewInSync
<1>2. TypeInv /\ ViewInv /\ [Next]_vars => (TypeInv /\ ViewInv)'
  BY NextTypeInv, NextViewInv
<1> QED BY <1>1, <1>2, InitTypeInv, InitMessages, PTL DEF Spec

=============================================================================
