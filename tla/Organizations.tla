---------------------------- MODULE Organizations -----------------------------
(***************************************************************************)
(* The organizations and teams of the web application: the server          *)
(* functions of routes/(settings)/organizations/organizations.remote.ts,   *)
(* and the page loads that give a user without an organization a personal  *)
(* one (lib/server/personal-workspace.ts).                                 *)
(*                                                                         *)
(* Each function is a sequence of calls of the authentication library,     *)
(* which keeps members, teams and the active organization and team of a    *)
(* session in the database.  A call is one step; any may fail, and what    *)
(* was done before stays done.  Requests of several sessions, and of       *)
(* several tabs of one, run at the same time, and each goes by the session *)
(* it read when it began.  The library does not look at the active         *)
(* organization when a team is activated.                                  *)
(*                                                                         *)
(* The personal organization of a user has a slug made of the user's id,   *)
(* and slugs are unique: it is identified with the user here.              *)
(***************************************************************************)
EXTENDS Naturals, Sequences

CONSTANTS
    Users,
    Shared,     \* organizations other than the personal ones
    Teams,
    Sessions,
    UserOf,     \* the user of each session
    Requests,   \* requests under way
    MaxRequests,\* bound: requests served
    None

\* What the constants are.
Assumptions ==
    /\ UserOf \in [Sessions -> Users] /\ MaxRequests \in Nat
    /\ Users \intersect Shared = {} /\ None \notin Users \union Shared \union Teams

VARIABLES
    members, \* of each organization; none if it does not exist
    teams,   \* the organization of each team, or None
    active,  \* activeOrganizationId and activeTeamId of each session
    request, \* what each request has still to call, and what it read
    served

vars == <<members, teams, active, request, served>>

-----------------------------------------------------------------------------
Organizations == Users \union Shared

NoContext == [org |-> None, team |-> None]

NoView == [org |-> None, teams |-> {}, team |-> None]

Free == [state |-> "free", session |-> None, read |-> NoContext, todo |-> <<>>,
         rescue |-> FALSE, fault |-> FALSE, view |-> NoView]

\* A call of the library.
Call(op, org, team) == [op |-> op, org |-> org, team |-> team]
SetOrg(o) == Call("setActiveOrganization", o, None)
SetTeam(t) == Call("setActiveTeam", None, t)

\* activateOrganization
Activate(o) == <<SetOrg(o), SetTeam(None)>>

user(r) == UserOf[request[r].session]
ListOrganizations(u) == {o \in Organizations : u \in members[o]}
\* The personal workspace of u exists.
Personal(u) == u \in members[u]
TeamsOf(o) == {t \in Teams : teams[t] = o}

-----------------------------------------------------------------------------
(* The functions: what is to be called, by the session that was read.      *)

CreateOrganization(o) == <<Call("createOrganization", o, None)>> \o Activate(o)
SelectOrganization(o) == Activate(o)
AcceptInvitation(o) == <<Call("acceptInvitation", o, None)>> \o Activate(o)
SelectTeam(t) == <<SetTeam(t)>>
CreateTeam(context, t) == <<Call("createTeam", context.org, t), SetTeam(t)>>

\* This session leaves the team; the others that are in it do not.
DeleteTeam(context, t) ==
    (IF context.team = t THEN <<SetTeam(None)>> ELSE <<>>)
      \o <<Call("removeTeam", context.org, t)>>

RemoveOrganizationMember(context) == <<Call("removeMember", context.org, None)>>

\* getOrganizationWorkspace
Workspace == <<Call("listOrganizations", None, None)>>

\* ensurePersonalWorkspace
Ensure == <<Call("ensure", None, None)>>

Functions(context) ==
    {Ensure, Workspace}
      \union (UNION {{CreateOrganization(o), SelectOrganization(o), AcceptInvitation(o)} :
                       o \in Shared})
      \union {SelectTeam(t) : t \in Teams \union {None}}
      \union (IF context.org = None THEN {} ELSE
                {RemoveOrganizationMember(context)}
                  \union UNION {{CreateTeam(context, t), DeleteTeam(context, t)} : t \in Teams})

\* hooks.server.ts reads the session, and the function begins.
Begin(r, s) ==
    /\ request[r] = Free /\ served < MaxRequests
    /\ served' = served + 1
    /\ \E todo \in Functions(active[s]) :
         request' = [request EXCEPT ![r] = [Free EXCEPT !.state = "running", !.session = s,
                                                        !.read = active[s], !.todo = todo]]
    /\ UNCHANGED <<members, teams, active>>

-----------------------------------------------------------------------------
(* The calls.                                                              *)

Next1(r) == Head(request[r].todo)

\* The next call of r is op.
Calls(r, op) ==
    /\ request[r].state = "running" /\ request[r].todo # <<>>
    /\ Next1(r).op = op

\* r goes on with these calls.
Continue(r, todo) == request' = [request EXCEPT ![r].todo = todo]
Done(r) == Continue(r, Tail(request[r].todo))

SetActiveOrganization(r) ==
    /\ Calls(r, "setActiveOrganization")
    /\ user(r) \in members[Next1(r).org]
    /\ active' = [active EXCEPT ![request[r].session].org = Next1(r).org]
    /\ Done(r)
    /\ UNCHANGED <<members, teams, served>>

SetActiveTeam(r) ==
    /\ Calls(r, "setActiveTeam")
    /\ Next1(r).team # None => teams[Next1(r).team] # None
    /\ active' = [active EXCEPT ![request[r].session].team = Next1(r).team]
    /\ Done(r)
    /\ UNCHANGED <<members, teams, served>>

\* An organization is made with the user in it, or the user joins it.
Join(r) ==
    /\ \/ Calls(r, "createOrganization") /\ members[Next1(r).org] = {}
       \/ Calls(r, "acceptInvitation") /\ members[Next1(r).org] # {}
    /\ members' = [members EXCEPT ![Next1(r).org] = @ \union {user(r)}]
    /\ Done(r)
    /\ UNCHANGED <<teams, active, served>>

\* Another one is removed from the organization, never its last member.
RemoveMember(r) ==
    /\ Calls(r, "removeMember")
    /\ user(r) \in members[Next1(r).org]
    /\ \E u \in members[Next1(r).org] \ {user(r)} :
         members' = [members EXCEPT ![Next1(r).org] = @ \ {u}]
    /\ Done(r)
    /\ UNCHANGED <<teams, active, served>>

NewTeam(r) ==
    /\ Calls(r, "createTeam") /\ teams[Next1(r).team] = None
    /\ user(r) \in members[Next1(r).org]
    /\ teams' = [teams EXCEPT ![Next1(r).team] = Next1(r).org]
    /\ Done(r)
    /\ UNCHANGED <<members, active, served>>

RemoveTeam(r) ==
    /\ Calls(r, "removeTeam") /\ teams[Next1(r).team] = Next1(r).org
    /\ teams' = [teams EXCEPT ![Next1(r).team] = None]
    /\ Done(r)
    /\ UNCHANGED <<members, active, served>>

-----------------------------------------------------------------------------
(* The page load: ensurePersonalWorkspace.                                 *)

EnsureWorkspace(r) ==
    /\ Calls(r, "ensure")
    /\ LET organizations == ListOrganizations(user(r))
       IN  \/ /\ request[r].read.org \in organizations
              /\ Done(r)
           \/ /\ request[r].read.org \notin organizations
              /\ \E o \in organizations : Continue(r, Activate(o))
           \/ /\ organizations = {}
              /\ request' = [request EXCEPT ![r].todo = CreateOrganization(user(r)),
                                            ![r].rescue = TRUE]
    /\ UNCHANGED <<members, teams, active, served>>

\* What was thrown while the workspace was made: another request may have
\* made it.
Rescued(q, exists) ==
    IF q.rescue /\ exists
    THEN [q EXCEPT !.rescue = FALSE, !.todo = Activate(UserOf[q.session])]
    ELSE [q EXCEPT !.state = "thrown"]

\* The workspace exists: createOrganization refuses a slug that is taken.
SlugTaken(r) ==
    /\ Calls(r, "createOrganization") /\ members[Next1(r).org] # {}
    /\ request' = [request EXCEPT ![r] = Rescued(request[r], Personal(user(r)))]
    /\ UNCHANGED <<members, teams, active, served>>

\* A call fails: the database, the rate limit, or it is refused.
Fails(r) ==
    /\ request[r].state = "running" /\ request[r].todo # <<>>
    /\ request' = [request EXCEPT ![r] =
         [Rescued(request[r], Personal(user(r))) EXCEPT !.fault = TRUE]]
    /\ UNCHANGED <<members, teams, active, served>>

-----------------------------------------------------------------------------
(* The page: getOrganizationWorkspace, which reads step by step.           *)

ReadOrganizations(r) ==
    /\ Calls(r, "listOrganizations")
    /\ LET o == request[r].read.org
       IN  IF o \in ListOrganizations(user(r))
           THEN request' = [request EXCEPT ![r].view.org = o,
                                           ![r].todo = <<Call("listTeams", o, None)>>]
           ELSE Done(r)
    /\ UNCHANGED <<members, teams, active, served>>

\* Faulty: the team of the session is the one that is shown.
TeamOfSession(r, listed) == request[r].read.team

\* A team that is not of the organization that is shown is no active team.
ActiveTeam(r, listed) ==
    IF request[r].read.team \in listed THEN request[r].read.team ELSE None

ReadTeams(r) ==
    /\ Calls(r, "listTeams") /\ user(r) \in members[Next1(r).org]
    /\ LET listed == TeamsOf(Next1(r).org)
           team == ActiveTeam(r, listed)
           todo == IF team = None THEN <<>>
                   ELSE <<Call("listTeamMembers", Next1(r).org, team)>>
           view == [request[r].view EXCEPT !.teams = listed, !.team = team]
       IN  request' = [request EXCEPT ![r].view = view, ![r].todo = todo]
    /\ UNCHANGED <<members, teams, active, served>>

ReadTeamMembers(r) ==
    /\ Calls(r, "listTeamMembers") /\ teams[Next1(r).team] # None
    /\ Done(r)
    /\ UNCHANGED <<members, teams, active, served>>

\* The request is answered.
Answer(r) ==
    /\ request[r].state = "thrown" \/ (request[r].state = "running" /\ request[r].todo = <<>>)
    /\ request' = [request EXCEPT ![r] = Free]
    /\ UNCHANGED <<members, teams, active, served>>

\* The hook of the sign-up made the personal organization, or failed; a user
\* who has been here before is in it.
Init ==
    /\ \E provisioned \in SUBSET Users : \E back \in SUBSET provisioned :
         /\ members = [o \in Organizations |-> IF o \in provisioned THEN {o} ELSE {}]
         /\ active = [s \in Sessions |->
              IF UserOf[s] \in back THEN [org |-> UserOf[s], team |-> None] ELSE NoContext]
    /\ teams = [t \in Teams |-> None]
    /\ request = [r \in Requests |-> Free]
    /\ served = 0

Next ==
    \E r \in Requests :
      \/ \E s \in Sessions : Begin(r, s)
      \/ SetActiveOrganization(r) \/ SetActiveTeam(r) \/ Join(r) \/ RemoveMember(r)
      \/ NewTeam(r) \/ RemoveTeam(r)
      \/ EnsureWorkspace(r) \/ SlugTaken(r) \/ Fails(r)
      \/ ReadOrganizations(r) \/ ReadTeams(r) \/ ReadTeamMembers(r)
      \/ Answer(r)

Spec == Init /\ [][Next]_vars

-----------------------------------------------------------------------------
(* Properties.                                                             *)

(* The team the page shows as active is one of the organization it shows,  *)
(* whatever was left in the session by a function that failed halfway, a   *)
(* team deleted by another member or another tab that switched             *)
(* (getOrganizationWorkspace, selectOrganization, deleteTeam).             *)
ShownTeamIsOfOrganization ==
    \A r \in Requests :
      LET view == request[r].view
      IN  view.team # None => view.org # None /\ view.team \in view.teams

(* The first pages of a user, loaded at once, each end with the personal   *)
(* workspace: that another one was faster is no failure                    *)
(* (ensurePersonalWorkspace).                                              *)
FirstPagesAgree ==
    \A r \in Requests :
      LET q == request[r]
      IN  q.state = "thrown" /\ ~q.fault =>
            q.todo # <<>> /\ Head(q.todo).op = "createOrganization"
                          /\ Head(q.todo).org \in Shared

-----------------------------------------------------------------------------
\* What holds of every state, and is why the first pages agree.

Calling == [op : {"setActiveOrganization", "setActiveTeam", "createOrganization",
                  "acceptInvitation", "createTeam", "removeTeam", "removeMember",
                  "listOrganizations", "ensure", "listTeams", "listTeamMembers"},
            org : Organizations \union {None}, team : Teams \union {None}]
Contexts == [org : Organizations \union {None}, team : Teams \union {None}]
Views == [org : Organizations \union {None}, teams : SUBSET Teams, team : Teams \union {None}]
ServedRequests ==
    [state : {"free", "running", "thrown"}, session : Sessions \union {None}, read : Contexts,
     todo : Seq(Calling), rescue : BOOLEAN, fault : BOOLEAN, view : Views]

TypeOK ==
    /\ members \in [Organizations -> SUBSET Users] /\ teams \in [Teams -> Organizations \union {None}]
    /\ active \in [Sessions -> Contexts]
    /\ request \in [Requests -> ServedRequests] /\ served \in Nat
    /\ \A r \in Requests : request[r].state = "running" => request[r].session \in Sessions

\* Nobody but the user is ever in a personal organization.
PersonalIsPersonal == \A u \in Users : members[u] \subseteq {u}

\* What a request has to call: it makes no personal organization but that of
\* its user, which it may find made by another, and it joins shared ones; it
\* asks for the teams of the organization it shows.
CallsAreItsOwn ==
    \A r \in Requests : \A i \in DOMAIN request[r].todo :
      LET call == request[r].todo[i]
          q == request[r]
      IN  /\ call.op = "createOrganization" =>
               \/ call.org \in Shared
               \/ q.rescue /\ call.org = UserOf[q.session]
          /\ call.op = "acceptInvitation" => call.org \in Shared
          /\ call.op = "listTeams" => q.view.org # None

OrganizationsInv ==
    TypeOK /\ PersonalIsPersonal /\ CallsAreItsOwn /\ ShownTeamIsOfOrganization
      /\ FirstPagesAgree
=============================================================================
