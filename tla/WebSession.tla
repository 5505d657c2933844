----------------------------- MODULE WebSession ------------------------------
(***************************************************************************)
(* The chat page of the web client: which server, project and session it   *)
(* shows (web/src/lib/Chat.svelte) and the controller that loads and joins *)
(* a session (web/src/lib/chat/session-controller.ts).                     *)
(*                                                                         *)
(* The page runs one piece of code at a time, up to its next await.  An    *)
(* operation of the user is a task that waits for answers, or for a frame  *)
(* of the browser, while the user goes on.  What a task does when its      *)
(* answer comes depends on guards it took before it waited: the target and *)
(* the generation of the hydration, the token of the load, the token of    *)
(* the stream.  Code awaiting a task resumes before anything else happens. *)
(***************************************************************************)
EXTENDS Naturals, Sequences, FiniteSets

CONSTANTS
    Projects,  \* the projects of the local service
    Direct,    \* the target with no project: the server at the page's URL
    Sessions,  \* session ids
    Known,     \* the sessions each target has at first
    Tasks,     \* bound: tasks at a time
    MaxOps,    \* bound: operations of the user
    None

Targets == Projects \cup {Direct}
SessionsOrNone == Sessions \cup {None}

ASSUME TargetsAssumption == Direct \notin Projects /\ None \notin Targets \cup Sessions
ASSUME KnownAssumption == Known \in [Targets -> SUBSET Sessions]
ASSUME BoundsAssumption == Tasks \in SUBSET Nat /\ MaxOps \in Nat

VARIABLES
    target,      \* apiTarget
    generation,  \* hydrationGeneration
    loadToken,   \* state.loadToken
    streamToken, \* state.streamToken
    active,      \* state.activeSessionId
    input,       \* state.sessionInput
    health,      \* the target whose health the page shows
    listed,      \* state.sessions
    projects,    \* the projects offered
    view,        \* whose messages and whose status the page shows
    connecting,  \* isConnecting
    loading,     \* isLoadingSession
    sending,     \* isSending
    compacting,  \* isCompacting
    error,       \* connectionError is set
    handle,      \* the event stream that stopEvents closes
    streams,     \* the event streams that are open
    request,     \* activeRequest: the task of the last prompt
    task,        \* what each task waits for, and who awaits it
    server,      \* the sessions each target has
    mounted,     \* the page is there
    ops,         \* operations so far
    lost         \* history: connecting failed after the last selection of a session

identity == <<target, active, input, health, listed, projects, lost>>
tokens == <<generation, loadToken, streamToken>>
shown == <<view, sending, compacting>>
flags == <<connecting, loading, error>>
stream == <<handle, streams>>
vars == <<identity, tokens, shown, flags, stream, request, task, server, mounted, ops>>

(***************************************************************************)
(* Helpers.                                                                *)
(***************************************************************************)
Blank == [messages |-> None, status |-> None]
Owner(t, s) == <<t, s>>

\* Where a task waits ("pc"), for which target and session, under which
\* generation and load token, and the frames of the functions awaiting it.
Idle == [pc |-> "idle", tgt |-> None, sid |-> None, gen |-> 0, load |-> 0, back |-> <<>>]
Call(tgt, sid) == [Idle EXCEPT !.pc = "call", !.tgt = tgt, !.sid = sid]
Frame(fn, tgt, sid, gen) == [fn |-> fn, tgt |-> tgt, sid |-> sid, gen |-> gen]

\* Nothing is left to resume.
Quiet == \A t \in Tasks : task[t].pc # "return"

Waiting(t, pc) == Quiet /\ task[t].pc = pc

\* The user does something that occupies a task.
Operation(t) ==
    /\ Quiet /\ mounted /\ ops < MaxOps
    /\ task[t] = Idle /\ \A u \in Tasks : u < t => task[u] # Idle
    /\ ops' = ops + 1

Resume(t) == task' = [task EXCEPT ![t] = [Idle EXCEPT !.pc = "return", !.back = task[t].back]]
Await(t, pc, tgt, sid, back) ==
    task' = [task EXCEPT ![t] = [Idle EXCEPT !.pc = pc, !.tgt = tgt, !.sid = sid,
                                             !.back = back]]

IsCurrentTarget(k) == k.gen = generation /\ k.tgt = target
IsCurrentSelection(k) == IsCurrentTarget(k) /\ active = k.sid
\* Faulty: an answer is taken if its target is still the current one.
IsCurrentTargetLoad(k) == IsCurrentTarget(k)
IsCurrentSessionLoad(k) == IsCurrentSelection(k) /\ k.load = loadToken
IsCurrentStream == handle # None /\ active = handle.sid /\ streamToken = handle.token

Ids == UNION {server[t] : t \in Targets} \cup listed \cup {active, input}
         \cup {task[t].sid : t \in Tasks}
         \cup UNION {{task[t].back[i].sid : i \in DOMAIN task[t].back} : t \in Tasks}
FreshIds == Sessions \ Ids

StopEvents == /\ streams' = streams \ {handle}
              /\ handle' = None

\* resetSessionView, with the part common to both of its modes.
ResetView == /\ StopEvents
             /\ streamToken' = streamToken + 1
             /\ view' = Blank
             /\ sending' = FALSE /\ compacting' = FALSE

\* What connectToServer does up to its first await, "turn" generations later.
Connect(t, tgt, sid, turn, back) ==
    /\ generation' = generation + turn
    /\ connecting' = TRUE
    /\ error' = FALSE
    /\ task' = [task EXCEPT ![t] = [pc |-> "connect", tgt |-> tgt, sid |-> sid,
                                    gen |-> generation + turn, load |-> 0, back |-> back]]

\* refreshSession, up to its first await.
Refresh(t, sid, back) ==
    /\ loadToken' = loadToken + 1
    /\ error' = FALSE
    /\ task' = [task EXCEPT ![t] = [pc |-> "load", tgt |-> target, sid |-> sid,
                                    gen |-> generation, load |-> loadToken + 1, back |-> back]]

\* selectSession, up to its first await.
SelectSession(t, sid, back) ==
    /\ active' = sid /\ input' = sid
    /\ loading' = TRUE
    /\ ResetView
    /\ lost' = FALSE
    /\ Refresh(t, sid, <<Frame("selected", target, sid, generation)>> \o back)

\* openSessionStream: one stream is closed, the next one opened.
OpenSessionStream(sid) ==
    LET next == [tgt |-> target, sid |-> sid, token |-> streamToken + 1] IN
    /\ streamToken' = streamToken + 1
    /\ handle' = next
    /\ streams' = (streams \ {handle}) \cup {next}

(***************************************************************************)
(* The operations of the user (Chat.svelte), up to their first await.      *)
(***************************************************************************)
\* selectProject: "back" awaits it.
SelectProject(t, p, preferred, back) ==
    /\ ResetView
    /\ loadToken' = loadToken + 1
    /\ target' = p /\ active' = preferred /\ input' = preferred
    /\ health' = None /\ listed' = {}
    /\ Connect(t, p, preferred, 2, back)
    /\ UNCHANGED <<loading, lost>>

ChooseProject(t) ==
    /\ Operation(t)
    /\ \E p \in projects : \E preferred \in Known[p] \cup {None} :
          SelectProject(t, p, preferred, <<>>)
    /\ UNCHANGED <<projects, request, server, mounted>>

RegisterProject(t) ==
    /\ Operation(t) /\ target \in Projects
    /\ \E p \in Projects \ {target} : Await(t, "register", p, None, <<>>)
    /\ error' = FALSE
    /\ UNCHANGED <<identity, tokens, shown, connecting, loading, stream, request, server, mounted>>

\* connectToLocalService, perhaps with the project a handoff asks for.
ConnectToLocalService(t) ==
    /\ Operation(t)
    /\ \E p \in Projects \cup {None} : Await(t, "projects", p, None, <<>>)
    /\ connecting' = TRUE /\ error' = FALSE
    /\ UNCHANGED <<identity, tokens, shown, loading, stream, request, server, mounted>>

ConnectDirectly(t) ==
    /\ Operation(t)
    /\ \E preferred \in Known[Direct] \cup {None} : Await(t, "probe", Direct, preferred, <<>>)
    /\ connecting' = TRUE /\ error' = FALSE
    /\ UNCHANGED <<identity, tokens, shown, loading, stream, request, server, mounted>>

ChooseSession(t) ==
    /\ Operation(t) /\ target # None
    /\ \E sid \in listed : SelectSession(t, sid, <<>>)
    /\ UNCHANGED <<target, health, listed, projects, generation, connecting, request, server, mounted>>

\* openTypedSession
OpenTypedSession(t) ==
    /\ Operation(t) /\ target # None
    /\ \E sid \in Known[target] :
          IF health = None
          THEN /\ input' = sid
               /\ Connect(t, target, None, 1, <<Frame("typed", None, sid, 0)>>)
               /\ UNCHANGED <<target, active, health, listed, projects, lost, loadToken, streamToken,
                              shown, loading, stream>>
          ELSE /\ SelectSession(t, sid, <<>>)
               /\ UNCHANGED <<target, health, listed, projects, generation, connecting>>
    /\ UNCHANGED <<request, server, mounted>>

\* createProjectSession: the service creates it; createFreshSession (also the
\* command new): the page makes up the id.
CreateSession(t) ==
    /\ Operation(t) /\ target # None
    /\ \/ /\ target \in Projects
          /\ Await(t, "create", target, None, <<>>)
          /\ UNCHANGED <<identity, tokens, shown, flags, stream>>
       \/ /\ health = None
          /\ Connect(t, target, None, 1, <<Frame("fresh", None, None, 0)>>)
          /\ UNCHANGED <<identity, loadToken, streamToken, shown, loading, stream>>
       \/ /\ health # None
          /\ \E sid \in FreshIds : /\ listed' = listed \cup {sid}
                                   /\ SelectSession(t, sid, <<>>)
          /\ UNCHANGED <<target, health, projects, generation, connecting>>
    /\ UNCHANGED <<request, server, mounted>>

\* The end of submitResolvedPrompt: a turn in progress is steered.
Send(t, tgt, sid) ==
    /\ error' = FALSE
    /\ IF sending
       THEN Await(t, "call", tgt, sid, <<>>) /\ UNCHANGED <<sending, request>>
       ELSE Await(t, "chat", tgt, sid, <<>>) /\ sending' = TRUE /\ request' = t

\* submitResolvedPrompt, with ensureActiveSession: the session is the active one
\* or a new one, the target the one the page showed when the user pressed Enter.
SubmitTo(t, tgt) ==
    \/ /\ active # None
       /\ Send(t, tgt, active)
       /\ UNCHANGED <<identity, tokens, view, compacting, connecting, loading, stream>>
    \/ /\ active = None /\ health = None
       /\ Connect(t, target, None, 1, <<Frame("ensure", tgt, None, 0)>>)
       /\ UNCHANGED <<identity, loadToken, streamToken, shown, loading, stream, request>>
    \/ /\ active = None /\ health # None
       /\ \E sid \in FreshIds :
             /\ listed' = listed \cup {sid}
             /\ SelectSession(t, sid, <<Frame("send", tgt, sid, 0)>>)
       /\ UNCHANGED <<target, health, projects, generation, connecting, request>>

\* submitPrompt
Submit(t) ==
    /\ Operation(t) /\ target # None /\ ~loading
    /\ SubmitTo(t, target)
    /\ UNCHANGED <<server, mounted>>

\* abortTurn: the request of the page, if it is for the active session, ends
\* without touching the flags, and the server is told.
AbortTurn(t) ==
    /\ Operation(t) /\ target # None /\ active # None
    /\ LET own == request # None /\ (request # None => task[request].sid = active) IN
       /\ task' = [u \in Tasks |-> IF u = t THEN Call(target, active)
                                  ELSE IF own /\ u = request THEN Idle ELSE task[u]]
       /\ request' = IF own THEN None ELSE request
    /\ error' = FALSE
    /\ UNCHANGED <<identity, tokens, shown, connecting, loading, stream, server, mounted>>

\* deleteSteering, editSteering
DeleteSteering(t) ==
    /\ Operation(t) /\ target # None /\ active # None
    /\ task' = [task EXCEPT ![t] = Call(target, active)]
    /\ error' = FALSE
    /\ UNCHANGED <<identity, tokens, shown, connecting, loading, stream, request, server, mounted>>

\* The commands model and thinking (an answer with a status), clear and compact
\* (a call, then refreshSession) and skill (the prompt is fetched, then sent).
RunCommand(t) ==
    /\ Operation(t) /\ target # None /\ active # None
    /\ \/ /\ \E pc \in {"status", "clear", "skill"} : Await(t, pc, target, active, <<>>)
          /\ UNCHANGED compacting
       \/ /\ Await(t, "clear", target, active, <<Frame("compacted", None, None, 0)>>)
          /\ compacting' = TRUE
    /\ UNCHANGED <<identity, tokens, view, sending, flags, stream, request, server, mounted>>

\* refreshSessionsList, loadMoreSessions
ListSessions(t) ==
    /\ Operation(t) /\ target # None
    /\ task' = [task EXCEPT ![t] = [Idle EXCEPT !.pc = "list", !.tgt = target,
                                                 !.gen = generation]]
    /\ UNCHANGED <<identity, tokens, shown, flags, stream, request, server, mounted>>

\* The page is left: destroy, and the request is aborted.
Unmount ==
    /\ Quiet /\ mounted
    /\ mounted' = FALSE
    /\ generation' = generation + 1 /\ loadToken' = loadToken + 1
    /\ StopEvents
    /\ task' = IF request = None THEN task ELSE [task EXCEPT ![request] = Idle]
    /\ request' = None
    /\ UNCHANGED <<identity, streamToken, shown, flags, server, ops>>

(***************************************************************************)
(* Answers, in any order; each may also be an error.                       *)
(***************************************************************************)
\* The session connectToServer goes on with.
Preferred(k) ==
    IF k.back # <<>> /\ Head(k.back).fn \in {"typed", "fresh", "ensure"}
    THEN {IF active # None THEN active ELSE input}
    ELSE IF k.sid # None THEN {k.sid}
    ELSE IF server[k.tgt] = {} THEN {None} ELSE server[k.tgt]

\* resetSessionView({ invalidateHydration: false }), and the finally block.
ConnectEnds(t) ==
    /\ ResetView
    /\ active' = IF active \in listed' THEN active ELSE None
    /\ connecting' = FALSE
    /\ Resume(t)
    /\ UNCHANGED <<target, input, projects, generation, loadToken, loading>>

AnswerConnect(t) ==
    /\ Waiting(t, "connect")
    /\ LET k == task[t] IN
       \/ /\ ~IsCurrentTarget(k)
          /\ Resume(t)
          /\ UNCHANGED <<identity, tokens, shown, flags, stream>>
       \/ /\ IsCurrentTarget(k)
          /\ health' = k.tgt /\ listed' = server[k.tgt]
          /\ \E sid \in Preferred(k) :
                \/ /\ sid = None /\ ConnectEnds(t) /\ UNCHANGED <<error, lost>>
                \/ /\ sid # None
                   /\ SelectSession(t, sid, <<Frame("connected", k.tgt, None, k.gen)>> \o k.back)
                   /\ UNCHANGED <<target, projects, generation, connecting>>
       \/ /\ IsCurrentTarget(k)
          /\ error' = TRUE /\ lost' = TRUE
          /\ UNCHANGED <<health, listed>>
          /\ ConnectEnds(t)
    /\ UNCHANGED <<request, server, mounted, ops>>

\* refreshSession: the four answers are there, or one failed.
AnswerLoad(t) ==
    /\ Waiting(t, "load")
    /\ LET k == task[t] IN
       \/ /\ ~IsCurrentSessionLoad(k)
          /\ Resume(t)
          /\ UNCHANGED <<view, sending, error>>
       \/ /\ IsCurrentSessionLoad(k)
          /\ view' = [messages |-> Owner(k.tgt, k.sid), status |-> Owner(k.tgt, k.sid)]
          /\ sending' \in BOOLEAN
          /\ task' = [task EXCEPT ![t].pc = "scroll"]
          /\ UNCHANGED error
       \/ /\ IsCurrentSessionLoad(k)
          /\ error' = TRUE
          /\ Resume(t)
          /\ UNCHANGED <<view, sending>>
    /\ UNCHANGED <<identity, tokens, compacting, connecting, loading, stream, request, server,
                   mounted, ops>>

\* scrollTranscriptToEnd waits for a frame.
FrameDrawn(t) ==
    /\ Waiting(t, "scroll")
    /\ Resume(t)
    /\ UNCHANGED <<identity, tokens, shown, flags, stream, request, server, mounted, ops>>

\* connectToLocalService has the list of projects.
AnswerProjects(t) ==
    /\ Waiting(t, "projects")
    /\ \/ \E offered \in {{}, Projects} :
             /\ projects' = offered
             /\ \/ /\ offered # {}
                   /\ \E p \in offered : \E preferred \in Known[p] \cup {None} :
                        /\ task[t].tgt \in offered => p = task[t].tgt
                        /\ task[t].tgt \notin offered /\ target \in offered => p = target
                        /\ SelectProject(t, p, preferred, <<Frame("linked", None, None, 0)>>)
                \/ /\ offered = {}
                   /\ target' = Direct /\ active' = None /\ input' = None
                   /\ ResetView
                   /\ generation' = generation + 1 /\ loadToken' = loadToken + 1
                   /\ health' = None /\ listed' = {}
                   /\ connecting' = FALSE
                   /\ task' = [task EXCEPT ![t] = Idle]
                   /\ UNCHANGED <<loading, error, lost>>
       \/ /\ error' = TRUE /\ connecting' = FALSE
          /\ task' = [task EXCEPT ![t] = Idle]
          /\ UNCHANGED <<identity, tokens, shown, loading, stream>>
    /\ UNCHANGED <<request, server, mounted, ops>>

\* connectDirectly: the page turns to the server and forgets the project.
AnswerProbe(t) ==
    /\ Waiting(t, "probe")
    /\ \/ /\ target' = Direct /\ projects' = {}
          /\ active' = None /\ input' = None
          /\ Connect(t, Direct, task[t].sid, 1, <<Frame("linked", None, None, 0)>>)
          /\ UNCHANGED <<health, listed, lost, loadToken, streamToken, shown, loading, stream>>
       \/ /\ error' = TRUE /\ connecting' = FALSE
          /\ task' = [task EXCEPT ![t] = Idle]
          /\ UNCHANGED <<identity, tokens, shown, loading, stream>>
    /\ UNCHANGED <<request, server, mounted, ops>>

AnswerRegister(t) ==
    /\ Waiting(t, "register")
    /\ \/ /\ projects' = projects \cup {task[t].tgt}
          /\ SelectProject(t, task[t].tgt, None, <<>>)
       \/ /\ error' = TRUE
          /\ task' = [task EXCEPT ![t] = Idle]
          /\ UNCHANGED <<identity, tokens, shown, connecting, loading, stream>>
    /\ UNCHANGED <<request, server, mounted, ops>>

\* createProjectSession: the new session is listed and selected, whatever the
\* page shows by now.
AnswerCreate(t) ==
    /\ Waiting(t, "create")
    /\ \/ \E sid \in FreshIds :
             /\ server' = [server EXCEPT ![task[t].tgt] = @ \cup {sid}]
             /\ listed' = listed \cup {sid}
             /\ SelectSession(t, sid, <<>>)
             /\ UNCHANGED <<target, health, projects, generation, connecting>>
       \/ /\ error' = TRUE
          /\ task' = [task EXCEPT ![t] = Idle]
          /\ UNCHANGED <<identity, tokens, shown, connecting, loading, stream, server>>
    /\ UNCHANGED <<request, mounted, ops>>

\* The stream of a prompt ends, in order or not.
AnswerChat(t) ==
    /\ Waiting(t, "chat")
    /\ LET k == task[t] IN
       /\ sending' = (sending /\ active # k.sid)
       /\ error' \in {error, error \/ active = k.sid}
       /\ server' = [server EXCEPT ![k.tgt] = @ \cup {k.sid}]
    /\ request' = IF request = t THEN None ELSE request
    /\ task' = [task EXCEPT ![t] = Idle]
    /\ UNCHANGED <<identity, tokens, view, compacting, connecting, loading, stream, mounted, ops>>

\* A call whose answer the page only looks at for an error.
AnswerCall(t) ==
    /\ Waiting(t, "call")
    /\ error' \in {error, TRUE}
    /\ task' = [task EXCEPT ![t] = Idle]
    /\ UNCHANGED <<identity, tokens, shown, connecting, loading, stream, request, server, mounted,
                   ops>>

\* setModel, setReasoning: the answer is the status the page shows from now on.
AnswerStatus(t) ==
    /\ Waiting(t, "status")
    /\ view' \in {view, [view EXCEPT !.status = Owner(task[t].tgt, task[t].sid)]}
    /\ task' = [task EXCEPT ![t] = Idle]
    /\ UNCHANGED <<identity, tokens, sending, compacting, flags, stream, request, server, mounted,
                   ops>>

\* clearMessages, compactMessages: the session that is active by now is loaded.
AnswerClear(t) ==
    /\ Waiting(t, "clear")
    /\ LET back == task[t].back IN
       \/ /\ active # None /\ Refresh(t, active, back)
       \/ /\ Resume(t) /\ UNCHANGED <<loadToken, error>>
    /\ UNCHANGED <<identity, generation, streamToken, shown, connecting, loading, stream, request,
                   server, mounted, ops>>

AnswerSkill(t) ==
    /\ Waiting(t, "skill")
    /\ \/ SubmitTo(t, task[t].tgt)
       \/ /\ task' = [task EXCEPT ![t] = Idle]
          /\ UNCHANGED <<identity, tokens, shown, flags, stream, request>>
    /\ UNCHANGED <<server, mounted, ops>>

AnswerList(t) ==
    /\ Waiting(t, "list")
    /\ IF IsCurrentTarget(task[t])
       THEN \/ listed' = server[task[t].tgt] /\ UNCHANGED error
            \/ error' = TRUE /\ UNCHANGED listed
       ELSE UNCHANGED <<listed, error>>
    /\ task' = [task EXCEPT ![t] = Idle]
    /\ UNCHANGED <<target, active, input, health, projects, lost, tokens, shown, connecting, loading,
                   stream, request, server, mounted, ops>>

(***************************************************************************)
(* A function awaited returns to the one that awaits it.                   *)
(***************************************************************************)
Returning(t, fn) ==
    /\ task[t].pc = "return" /\ task[t].back # <<>> /\ Head(task[t].back).fn = fn
Top(t) == Head(task[t].back)
Pop(t) == task' = [task EXCEPT ![t].back = Tail(@)]

ReturnDone(t) ==
    /\ task[t].pc = "return" /\ task[t].back = <<>>
    /\ task' = [task EXCEPT ![t] = Idle]
    /\ UNCHANGED <<identity, tokens, shown, flags, stream, request, server, mounted, ops>>

\* The finally block of selectSession, and the stream.
ReturnSelected(t) ==
    /\ Returning(t, "selected")
    /\ IF IsCurrentSelection(Top(t))
       THEN loading' = FALSE /\ OpenSessionStream(Top(t).sid)
       ELSE UNCHANGED <<loading, streamToken, stream>>
    /\ Pop(t)
    /\ UNCHANGED <<identity, generation, loadToken, shown, connecting, error, request, server,
                   mounted, ops>>

\* The finally block of connectToServer.
ReturnConnected(t) ==
    /\ Returning(t, "connected")
    /\ connecting' = (connecting /\ ~IsCurrentTarget(Top(t)))
    /\ Pop(t)
    /\ UNCHANGED <<identity, tokens, shown, loading, error, stream, request, server, mounted, ops>>

\* The finally block of connectToLocalService and connectDirectly.
ReturnLinked(t) ==
    /\ Returning(t, "linked")
    /\ connecting' = FALSE
    /\ Pop(t)
    /\ UNCHANGED <<identity, tokens, shown, loading, error, stream, request, server, mounted, ops>>

ReturnTyped(t) ==
    /\ Returning(t, "typed")
    /\ SelectSession(t, Top(t).sid, Tail(task[t].back))
    /\ UNCHANGED <<target, health, listed, projects, generation, connecting, request, server,
                   mounted, ops>>

\* createFreshSession and ensureActiveSession go on if there is a health.
ReturnFresh(t) ==
    /\ Returning(t, "fresh") \/ Returning(t, "ensure")
    /\ health # None
    /\ \E sid \in FreshIds :
          /\ listed' = listed \cup {sid}
          /\ SelectSession(t, sid, IF Top(t).fn = "ensure"
                                   THEN <<Frame("send", Top(t).tgt, sid, 0)>> ELSE <<>>)
    /\ UNCHANGED <<target, health, projects, generation, connecting, request, server, mounted, ops>>

ReturnWithoutHealth(t) ==
    /\ Returning(t, "fresh") \/ Returning(t, "ensure")
    /\ health = None
    /\ task' = [task EXCEPT ![t] = Idle]
    /\ UNCHANGED <<identity, tokens, shown, flags, stream, request, server, mounted, ops>>

ReturnSend(t) ==
    /\ Returning(t, "send")
    /\ Send(t, Top(t).tgt, Top(t).sid)
    /\ UNCHANGED <<identity, tokens, view, compacting, connecting, loading, stream, server,
                   mounted, ops>>

ReturnCompacted(t) ==
    /\ Returning(t, "compacted")
    /\ compacting' = FALSE
    /\ Pop(t)
    /\ UNCHANGED <<identity, tokens, view, sending, flags, stream, request, server, mounted, ops>>

(***************************************************************************)
(* Events of the stream that carry a status.                               *)
(***************************************************************************)
StatusEvent ==
    /\ Quiet /\ IsCurrentStream
    /\ sending' \in BOOLEAN
    /\ view' = [view EXCEPT !.status = Owner(handle.tgt, handle.sid)]
    /\ UNCHANGED <<identity, tokens, compacting, flags, stream, request, task, server, mounted, ops>>

(***************************************************************************)
(* The page starts with a server in its URL, with a saved connection to    *)
(* the local service, or with the form to connect.                         *)
(***************************************************************************)
Init ==
    /\ generation = 0 /\ loadToken = 0 /\ streamToken = 0
    /\ health = None /\ listed = {} /\ projects = {}
    /\ view = Blank
    /\ loading = FALSE /\ sending = FALSE /\ compacting = FALSE /\ error = FALSE
    /\ handle = None /\ streams = {} /\ request = None
    /\ server = Known /\ mounted = TRUE /\ ops = 0 /\ lost = FALSE
    /\ \E first \in {t \in Tasks : \A u \in Tasks : t <= u} :
          \/ /\ target = Direct /\ active \in Known[Direct] \cup {None}
             /\ connecting = TRUE
             /\ task = [t \in Tasks |-> IF t = first THEN [Idle EXCEPT !.pc = "probe", !.tgt = Direct]
                                                     ELSE Idle]
          \/ /\ target \in Targets /\ active = None
             /\ connecting = TRUE
             /\ task = [t \in Tasks |-> IF t = first THEN [Idle EXCEPT !.pc = "projects"] ELSE Idle]
          \/ /\ target = None /\ active = None
             /\ connecting = FALSE
             /\ task = [t \in Tasks |-> Idle]
    /\ input = active

UserNext ==
    \E t \in Tasks :
        \/ ChooseProject(t) \/ RegisterProject(t) \/ ConnectToLocalService(t) \/ ConnectDirectly(t)
        \/ ChooseSession(t) \/ OpenTypedSession(t) \/ CreateSession(t) \/ Submit(t) \/ AbortTurn(t)
        \/ DeleteSteering(t) \/ RunCommand(t) \/ ListSessions(t)

TaskNext(t) ==
    \/ AnswerConnect(t) \/ AnswerLoad(t) \/ FrameDrawn(t) \/ AnswerProjects(t) \/ AnswerProbe(t)
    \/ AnswerRegister(t) \/ AnswerCreate(t) \/ AnswerChat(t) \/ AnswerCall(t) \/ AnswerStatus(t)
    \/ AnswerClear(t) \/ AnswerSkill(t) \/ AnswerList(t)
    \/ ReturnDone(t) \/ ReturnSelected(t) \/ ReturnConnected(t) \/ ReturnLinked(t) \/ ReturnTyped(t)
    \/ ReturnFresh(t) \/ ReturnWithoutHealth(t) \/ ReturnSend(t) \/ ReturnCompacted(t)

Next == UserNext \/ Unmount \/ StatusEvent \/ \E t \in Tasks : TaskNext(t)

Spec == Init /\ [][Next]_vars

(***************************************************************************)
(* Properties.                                                             *)
(***************************************************************************)
(* The variables have their types. *)
TypeOK ==
    /\ target \in Targets \cup {None} /\ active \in SessionsOrNone /\ input \in SessionsOrNone
    /\ health \in Targets \cup {None} /\ listed \subseteq Sessions /\ projects \subseteq Projects
    /\ generation \in Nat /\ loadToken \in Nat /\ streamToken \in Nat
    /\ {sending, compacting, connecting, loading, error, mounted} \subseteq BOOLEAN
    /\ request \in Tasks \cup {None}

Awaits(t, By(_)) == \E i \in DOMAIN task[t].back : By(task[t].back[i])

(* Whatever operations overlap and in whatever order their answers come,   *)
(* the messages on the page are those of the session it names at the       *)
(* target it names, and so are the events it applies (the guards of        *)
(* refreshSession, selectSession and isCurrentStream).                     *)
ShowsTheActiveSession ==
    /\ active # None /\ view.messages # None => view.messages = Owner(target, active)
    /\ IsCurrentStream => handle.tgt = target

(* An event stream that is open is the one stopEvents closes: switching    *)
(* sessions, targets, and loads that overlap leave none behind.            *)
OneStreamOpen == streams = IF handle = None THEN {} ELSE {handle}

(* The page does not stay "connecting" or "loading" for nothing: while the *)
(* flag is set there is a task whose finally block will clear it.  (Not so *)
(* once a connection failed under a load: resetSessionView of              *)
(* connectToServer leaves isLoadingSession to a selection it made void.)   *)
FlagsAreAwaited ==
    /\ connecting /\ mounted =>
          \E t \in Tasks :
              \/ task[t].pc \in {"projects", "probe"}
              \/ task[t].pc = "connect" /\ IsCurrentTarget(task[t])
              \/ Awaits(t, LAMBDA k : k.fn = "linked" \/ (k.fn = "connected" /\ IsCurrentTarget(k)))
    /\ loading /\ active # None /\ mounted /\ ~lost =>
          \E t \in Tasks :
              \/ task[t].pc = "connect" /\ IsCurrentTarget(task[t])
              \/ Awaits(t, LAMBDA k : k.fn = "typed" \/ (k.fn = "selected" /\ IsCurrentSelection(k)))

(* When everything is answered, the page follows the session it shows: its *)
(* event stream is open, for that session at that target (selectSession    *)
(* opens it only after the load, and only if nothing superseded it).       *)
SettlesJoined ==
    (\A t \in Tasks : task[t] = Idle) /\ mounted /\ active # None /\ health = target /\ ~lost =>
        IsCurrentStream /\ handle.tgt = target

(* Whatever operations overlap, in whatever order their answers come and   *)
(* whichever fail, the page is about one session: what it shows, the one   *)
(* stream it reads, and the flags that lock its composer.                  *)
SelectionHolds ==
    /\ TypeOK
    /\ ShowsTheActiveSession
    /\ OneStreamOpen
    /\ FlagsAreAwaited
    /\ SettlesJoined

(***************************************************************************)
(* What holds of every state, and is why the page is about one session.    *)
(***************************************************************************)
Frames == [fn : {"selected", "connected", "linked", "typed", "fresh", "ensure", "send", "compacted"},
           tgt : Targets \cup {None}, sid : SessionsOrNone, gen : Nat]
TaskRecords == [pc : {"idle", "connect", "load", "scroll", "projects", "probe", "register", "create",
                      "chat", "call", "status", "clear", "skill", "list", "return"},
                tgt : Targets \cup {None}, sid : SessionsOrNone, gen : Nat, load : Nat,
                back : Seq(Frames)]
Handles == [tgt : Targets \cup {None}, sid : Sessions, token : Nat]
Views == LET Owners == ((Targets \cup {None}) \X SessionsOrNone) \cup {None}
         IN  [messages : Owners, status : Owners]

ASSUME StreamsAssumption == None \notin Handles

\* The functions awaiting a task end with one that nothing awaits.
BackFits(b) ==
    \A i \in DOMAIN b :
        /\ b[i].fn \notin {"selected", "connected"} => i = Len(b)
        /\ b[i].fn \in {"selected", "typed", "send"} => b[i].sid \in Sessions

TaskFits(k) ==
    /\ k.pc \notin {"connect", "load", "scroll", "clear", "return"} => k.back = <<>>
    /\ k.pc \in {"connect", "list"} => k.tgt \in Targets
    /\ k.pc = "register" => k.tgt \in Projects
    /\ k.pc = "chat" => k.sid \in Sessions
    /\ BackFits(k.back)

TasksFit ==
    /\ task \in [Tasks -> TaskRecords]
    /\ \A t \in Tasks : TaskFits(task[t])
    /\ request # None => task[request].pc = "chat"
    /\ target = None =>
           active = None /\ \A t \in Tasks : task[t].pc \in {"idle", "projects", "probe"}

ServerFits == server \in [Targets -> SUBSET Sessions]

StreamFits ==
    /\ handle # None => handle \in Handles
    /\ OneStreamOpen
    /\ IsCurrentStream => handle.tgt = target

MessagesFit ==
    /\ view \in Views
    /\ active # None /\ view.messages # None => view.messages = Owner(target, active)

\* A task that will clear isConnecting, and one that will join the session
\* shown and clear isLoadingSession.
Links(k) ==
    \/ k.pc \in {"projects", "probe"}
    \/ k.pc = "connect" /\ IsCurrentTarget(k)
    \/ \E i \in DOMAIN k.back :
          k.back[i].fn = "linked" \/ (k.back[i].fn = "connected" /\ IsCurrentTarget(k.back[i]))
Joins(k) ==
    \/ k.pc = "connect" /\ IsCurrentTarget(k)
    \/ \E i \in DOMAIN k.back :
          k.back[i].fn = "typed" \/ (k.back[i].fn = "selected" /\ IsCurrentSelection(k.back[i]))
Linking == \E t \in Tasks : Links(task[t])
Joining == \E t \in Tasks : Joins(task[t])

FlagsFit ==
    /\ connecting /\ mounted => Linking
    /\ loading /\ active # None /\ mounted /\ ~lost => Joining
    /\ mounted /\ active # None /\ health = target /\ ~lost => Joining \/ IsCurrentStream

SelectionInv ==
    TypeOK /\ TasksFit /\ ServerFits /\ StreamFits /\ MessagesFit /\ FlagsFit

=============================================================================
