---------------------------- MODULE SessionPicker -----------------------------
(***************************************************************************)
(* The suggestions of the prompt for "/session " (client/src/ui/tui/       *)
(* autocomplete.ts): the client sets the first sessions whenever the       *)
(* current session changes, and the whole list is loaded from the server   *)
(* when somebody asks.  One load serves every request that comes while it  *)
(* runs; a change of session begins a new generation, and what the older   *)
(* load returns, or that it failed, is nobody's business any more.         *)
(***************************************************************************)
EXTENDS Naturals, Sequences

CONSTANTS
    Requests,  \* getSuggestions calls under way
    MaxLoads,  \* bound: loads
    MaxChanges \* bound: generations

\* What the constants are.
Assumptions ==
    /\ {MaxLoads, MaxChanges} \subseteq Nat

VARIABLES
    generation, \* sessionSuggestionGeneration
    loader,     \* whether there is a sessionSuggestionLoader
    complete,   \* sessionSuggestionsComplete
    load,       \* sessionSuggestionLoad: which of the loads, 0 for null
    sessions,   \* context.sessions: which load they came from, 0 for the first ones
    loads,      \* each load: when it was begun, and its state
    request     \* what each request waits for: its generation and load, or 0

vars == <<generation, loader, complete, load, sessions, loads, request>>

Free == [generation |-> 0, load |-> 0]

-----------------------------------------------------------------------------
\* setSessionSuggestions
SetSuggestions ==
    /\ generation < MaxChanges
    /\ sessions' = 0 /\ complete' = FALSE
    /\ load' = 0
    /\ generation' = generation + 1
    /\ UNCHANGED <<loader, loads, request>>

\* setSessionSuggestionLoader
SetLoader(on) ==
    /\ generation < MaxChanges
    /\ loader' = on /\ complete' = ~on
    /\ load' = 0
    /\ generation' = generation + 1
    /\ UNCHANGED <<sessions, loads, request>>

\* getSuggestions, loadSessionSuggestions: joins the load or begins one.
Ask(r) ==
    /\ request[r] = Free /\ ~complete /\ loader
    /\ IF load # 0 THEN UNCHANGED <<load, loads>>
       ELSE /\ Len(loads) < MaxLoads
            /\ load' = Len(loads) + 1
            /\ loads' = Append(loads, [begun |-> generation, state |-> "running"])
    /\ request' = [request EXCEPT ![r] = [generation |-> generation, load |-> load']]
    /\ UNCHANGED <<generation, loader, complete, sessions>>

\* The server answers a load, or it fails.
Settle(n, state) ==
    /\ n \in DOMAIN loads /\ loads[n].state = "running"
    /\ loads' = [loads EXCEPT ![n].state = state]
    /\ UNCHANGED <<generation, loader, complete, load, sessions, request>>

\* Faulty: whatever arrives is shown.
AnyGeneration(r) == TRUE

SameGeneration(r) == request[r].generation = generation

Loaded(r) ==
    /\ request[r] # Free /\ loads[request[r].load].state = "ok"
    /\ IF SameGeneration(r) THEN sessions' = request[r].load /\ complete' = TRUE
       ELSE UNCHANGED <<sessions, complete>>
    /\ request' = [request EXCEPT ![r] = Free]
    /\ UNCHANGED <<generation, loader, load, loads>>

Failed(r) ==
    /\ request[r] # Free /\ loads[request[r].load].state = "failed"
    /\ IF SameGeneration(r) THEN load' = 0 ELSE UNCHANGED load
    /\ request' = [request EXCEPT ![r] = Free]
    /\ UNCHANGED <<generation, loader, complete, sessions, loads>>

Init ==
    /\ generation = 0 /\ loader = FALSE /\ complete = FALSE
    /\ load = 0 /\ sessions = 0 /\ loads = <<>>
    /\ request = [r \in Requests |-> Free]

Next ==
    \/ SetSuggestions
    \/ \E on \in BOOLEAN : SetLoader(on)
    \/ \E r \in Requests : Ask(r) \/ Loaded(r) \/ Failed(r)
    \/ \E n \in 1..MaxLoads, state \in {"ok", "failed"} : Settle(n, state)

Spec == Init /\ [][Next]_vars

-----------------------------------------------------------------------------
(* What the prompt takes for the whole list of sessions was asked for      *)
(* after the last change of session, never before it: the picker does not  *)
(* lack the session that was just made; and a load that failed is asked    *)
(* again by whoever comes next (loadSessionSuggestions).                   *)
SuggestionsAreCurrent ==
    /\ complete /\ loader => sessions # 0 /\ loads[sessions].begun = generation
    /\ load # 0 /\ loads[load].state = "failed" =>
         \E r \in Requests : request[r] = [generation |-> generation, load |-> load]

-----------------------------------------------------------------------------
\* What holds of every state, and is what keeps the suggestions current.

TypeOK ==
    /\ generation \in Nat /\ load \in Nat /\ sessions \in Nat
    /\ loader \in BOOLEAN /\ complete \in BOOLEAN
    /\ loads \in Seq([begun : Nat, state : {"running", "ok", "failed"}])
    /\ request \in [Requests -> [generation : Nat, load : Nat]]

\* A load that is joined belongs to the generation it is joined in.
JoinedInTime ==
    /\ load # 0 => load \in DOMAIN loads /\ loads[load].begun = generation
    /\ \A r \in Requests : request[r] # Free =>
         /\ request[r].load \in DOMAIN loads
         /\ loads[request[r].load].begun = request[r].generation

\* Whoever began a load that has not succeeded still waits for it.
LoadIsAwaited ==
    load # 0 /\ loads[load].state # "ok" =>
      \E r \in Requests : request[r] = [generation |-> generation, load |-> load]

ListIsOfGeneration ==
    complete /\ loader => sessions \in DOMAIN loads /\ loads[sessions].begun = generation

PickerInv == TypeOK /\ JoinedInTime /\ LoadIsAwaited /\ ListIsOfGeneration
=============================================================================
