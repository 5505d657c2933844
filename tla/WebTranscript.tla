---------------------------- MODULE WebTranscript -----------------------------
(***************************************************************************)
(* The transcript of the web page: from messages to blocks (buildTranscript*)
(* in web/src/lib/chat/transcript.ts), and which blocks are shown at what  *)
(* time (activity-summary.ts, AssistantTranscriptItem.svelte): a tool that *)
(* is quick is not shown while it runs, one that was shown stays a moment  *)
(* after it is done, and then goes into a summary with its neighbours.     *)
(*                                                                         *)
(* EventJoin has how events become messages; here they grow by what those  *)
(* events add.  Calls are numbered, but matched by the provider's id, which*)
(* it may use again in another turn.                                       *)
(***************************************************************************)
EXTENDS ReasoningText, FiniteSets, Functions

CONSTANTS
    Ids,      \* ids of calls
    Delay,    \* TOOL_REVEAL_DELAY_MS
    Hold,     \* TOOL_COMPLETION_HOLD_MS
    MaxParts, \* bound: fragments and calls
    MaxSteps, \* bound: steps and turns
    MaxLoads, \* bound: the stored messages are loaded again
    MaxTime,  \* bound: the clock
    None

\* What the constants are.
Assumptions ==
    /\ TextAssumptions
    /\ {Delay, Hold} \subseteq Nat \ {0}
    /\ {MaxParts, MaxSteps, MaxLoads, MaxTime} \subseteq Nat

VARIABLES
    messages, \* the messages of the page
    running,  \* a turn runs
    step,
    parts,    \* how many fragments and calls there were
    loads,
    now,
    clocks    \* the items on the screen: what each takes for now, and its timer

vars == <<messages, running, step, parts, loads, now, clocks>>

-----------------------------------------------------------------------------
(* buildTranscript.  A part: "result" is the number of the call a result   *)
(* is of.                                                                  *)

Part(kind, n) == [kind |-> kind, text |-> <<n>>, id |-> None, step |-> step, status |-> None,
                  started |-> None, completed |-> None, result |-> None]
IsTool(block) == block.kind \in {"call", "result"}

\* mergeReasoningText
MergeReasoning(existing, fragment) == Merge(existing, fragment)

\* The blocks of an assistant's message.
Blocks(content) ==
    LET Add(blocks, part) ==
            IF part.kind = "reasoning" /\ blocks # <<>> /\ Last(blocks).kind = "reasoning"
            THEN [blocks EXCEPT ![Len(blocks)].text = MergeReasoning(@, part.text)]
            ELSE Append(blocks, part)
    IN FoldLeft(Add, <<>>, content)

OnlyReasoning(blocks) == \A i \in DOMAIN blocks : blocks[i].kind = "reasoning"
Item(index, role, blocks) == [id |-> <<index, role>>, role |-> role, blocks |-> blocks]

\* Steps of a turn are one item, but for those of reasoning alone.
AddAssistant(items, index, blocks) ==
    IF blocks = <<>> THEN items
    ELSE IF ~OnlyReasoning(blocks) /\ items # <<>> /\ Last(items).role = "assistant"
    THEN [items EXCEPT ![Len(items)].blocks = @ \o blocks]
    ELSE Append(items, Item(index, IF OnlyReasoning(blocks) THEN "reasoning" ELSE "assistant", blocks))

\* The calls without result that have the result's id, latest first.
Open(items, result) ==
    {at \in UNION {{i} \X DOMAIN items[i].blocks : i \in DOMAIN items} :
        LET block == items[at[1]].blocks[at[2]] IN
        block.kind = "call" /\ block.result = None /\ block.id = result.id}
Before(p, q) == p[1] < q[1] \/ (p[1] = q[1] /\ p[2] < q[2])

\* mergeToolResultIntoCall
MergeInto(items, at, result) ==
    [items EXCEPT ![at[1]].blocks[at[2]] =
        [@ EXCEPT !.result = result.result, !.status = result.status,
                  !.started = IF @ = None THEN result.started ELSE @,
                  !.completed = IF @ = None THEN result.completed ELSE @]]

AddResult(items, index, result) ==
    LET open == Open(items, result) IN
    IF open = {} THEN Append(items, Item(index, "tool", <<result>>))
    ELSE MergeInto(items, CHOOSE p \in open : \A q \in open : p = q \/ Before(q, p), result)

\* activityOnlyBlocks
IsActivity(item) ==
    /\ item.role \in {"assistant", "reasoning"}
    /\ \A b \in DOMAIN item.blocks : item.blocks[b].kind # "text"

\* coalesceAdjacentActivityMessages
Coalesced(items) ==
    LET Add(acc, item) ==
            IF acc # <<>> /\ IsActivity(item) /\ IsActivity(Last(acc))
            THEN LET blocks == Last(acc).blocks \o item.blocks IN
                 [acc EXCEPT ![Len(acc)] =
                    [Last(acc) EXCEPT !.blocks = blocks,
                        !.role = IF \E b \in DOMAIN blocks : IsTool(blocks[b])
                                 THEN "assistant" ELSE "reasoning"]]
            ELSE Append(acc, item)
    IN FoldLeft(Add, <<>>, items)

Transcript(source) ==
    LET Add(items, index) ==
            LET message == source[index] IN
            CASE message.role = "assistant" -> AddAssistant(items, index, Blocks(message.content))
              [] message.role = "tool" -> AddResult(items, index, message.content[1])
              [] message.role = "user" -> Append(items, Item(index, "user", message.content))
    IN Coalesced(FoldLeft(Add, <<>>, [index \in DOMAIN source |-> index]))

-----------------------------------------------------------------------------
(* What is shown.                                                          *)

IsRunning(block) == block.status = "ready"
IsTerminal(block) == block.status = "completed" \/ block.result # None

\* toolPresentation
Presentation(block, at) ==
    IF ~IsTool(block) THEN "visible"
    ELSE IF IsRunning(block)
    THEN IF block.started # None /\ at < block.started + Delay THEN "hidden" ELSE "visible"
    ELSE IF ~IsTerminal(block) THEN "visible"
    ELSE IF /\ block.started # None /\ block.completed # None
            /\ block.completed - block.started >= Delay /\ at < block.completed + Hold
    THEN "visible" ELSE "collapsible"

\* nextToolPresentationDeadline
Deadlines(block, at) ==
    IF Presentation(block, at) = "hidden" THEN {block.started + Delay}
    ELSE IF /\ IsTool(block) /\ Presentation(block, at) = "visible"
            /\ block.started # None /\ block.completed # None
    THEN {block.completed + Hold} \ 0 .. at
    ELSE {}

\* isCollapsibleActivityBlock: reasoning, or a tool no other tool of whose step runs.
IsCollapsible(blocks, b, at) ==
    LET block == blocks[b] IN
    \/ block.kind = "reasoning"
    \/ /\ IsTool(block) /\ IsTerminal(block)
       /\ \A c \in DOMAIN blocks : ~(IsTool(blocks[c]) /\ blocks[c].step = block.step /\ IsRunning(blocks[c]))
       /\ Presentation(block, at) = "collapsible"

\* groupBlocks: the positions of the blocks, in groups; a hidden block ends a group.
Groups(blocks, active, at) ==
    LET Stays(b) == ~IsCollapsible(blocks, b, at) \/
                    (active /\ b = Len(blocks) /\ blocks[b].kind = "reasoning")
        Add(acc, b) ==
            IF Presentation(blocks[b], at) = "hidden" THEN [acc EXCEPT !.open = FALSE]
            ELSE IF Stays(b) THEN [groups |-> Append(acc.groups, <<b>>), open |-> FALSE]
            ELSE IF acc.open
            THEN [acc EXCEPT !.groups[Len(acc.groups)] = Append(@, b)]
            ELSE [groups |-> Append(acc.groups, <<b>>), open |-> TRUE]
    IN FoldLeft(Add, [groups |-> <<>>, open |-> FALSE], [b \in DOMAIN blocks |-> b]).groups

\* Faulty: the timer is that of the first block that will change.
TimerOfFirst(blocks, at) ==
    LET waiting == {b \in DOMAIN blocks : Deadlines(blocks[b], at) # {}} IN
    IF waiting = {} THEN None
    ELSE LET b == CHOOSE b \in waiting : \A c \in waiting : b <= c
         IN CHOOSE d \in Deadlines(blocks[b], at) : TRUE

\* The effect of an item: a timer for the first deadline.
Timer(blocks, at) ==
    LET deadlines == UNION {Deadlines(blocks[b], at) : b \in DOMAIN blocks} IN
    IF deadlines = {} THEN None ELSE CHOOSE d \in deadlines : \A e \in deadlines : d <= e

\* The items of a transcript are components that are kept by their ids; an item
\* that is new takes the time of its first appearance.
Shown(source, old) ==
    LET items == Transcript(source) IN
    [id \in {items[i].id : i \in DOMAIN items} |->
        LET item == CHOOSE item \in ToSet(items) : item.id = id
            at == IF id \in DOMAIN old THEN old[id].at ELSE now
        IN [at |-> at, timer |-> Timer(item.blocks, at)]]

-----------------------------------------------------------------------------
(* What the events do to the messages.                                     *)

Message(role, content) == [role |-> role, content |-> content, live |-> TRUE]
Show(source) == messages' = source /\ clocks' = Shown(source, clocks)

\* appendLiveAssistantPart
AddPart(part) ==
    IF messages # <<>> /\ Last(messages).live /\ Last(messages).role = "assistant"
    THEN [messages EXCEPT ![Len(messages)].content = Append(@, part)]
    ELSE Append(messages, Message("assistant", <<part>>))

Prompt ==
    /\ ~running /\ step < MaxSteps
    /\ running' = TRUE /\ step' = step + 1
    /\ Show(Append(messages, Message("user", <<Part("text", 0)>>)))
    /\ UNCHANGED <<parts, loads, now>>

Fragment ==
    /\ running /\ parts < MaxParts
    /\ parts' = parts + 1
    /\ \E kind \in {"reasoning", "text"} : Show(AddPart(Part(kind, parts')))
    /\ UNCHANGED <<running, step, loads, now>>

Calls == UNION {{<<m, p>> : p \in {q \in DOMAIN messages[m].content : messages[m].content[q].kind = "call"}} :
                    m \in {n \in DOMAIN messages : messages[n].role = "assistant"}}
Call(at) == messages[at[1]].content[at[2]]

\* The calls of a step have different ids.
Start ==
    /\ running /\ parts < MaxParts
    /\ parts' = parts + 1
    /\ \E id \in Ids \ {Call(at).id : at \in {c \in Calls : Call(c).step = step}} :
          Show(AddPart([Part("call", parts') EXCEPT !.id = id, !.status = "ready", !.started = now]))
    /\ UNCHANGED <<running, step, loads, now>>

\* tool_execution.finished: the status of the call, and its result.
Finish ==
    /\ running
    /\ \E at \in Calls :
          /\ Call(at).step = step /\ Call(at).status = "ready"
          /\ LET done == [Call(at) EXCEPT !.status = "completed", !.completed = now]
                 result == [done EXCEPT !.kind = "result", !.result = done.text[1]]
             IN Show(Append([messages EXCEPT ![at[1]].content[at[2]] = done],
                            Message("tool", <<result>>)))
    /\ UNCHANGED <<running, step, parts, loads, now>>

\* The calls of a step have ended before the next step begins.
NextStep ==
    /\ running /\ step < MaxSteps
    /\ \A at \in Calls : Call(at).step = step => Call(at).status = "completed"
    /\ \E at \in Calls : Call(at).step = step
    /\ step' = step + 1
    /\ UNCHANGED <<messages, running, parts, loads, now, clocks>>

\* The turn ends, or is aborted while tools run.
EndTurn ==
    /\ running
    /\ running' = FALSE
    /\ UNCHANGED <<messages, step, parts, loads, now, clocks>>

\* The messages are loaded: what is stored has no times and no status.
Load ==
    /\ ~running /\ loads < MaxLoads
    /\ loads' = loads + 1
    /\ LET Stored(part) == [part EXCEPT !.status = None, !.started = None, !.completed = None]
       IN Show([m \in DOMAIN messages |->
                  [messages[m] EXCEPT !.live = FALSE,
                      !.content = [p \in DOMAIN @ |-> Stored(@[p])]]])
    /\ UNCHANGED <<running, step, parts, now>>

Tick ==
    /\ now < MaxTime
    /\ now' = now + 1
    /\ UNCHANGED <<messages, running, step, parts, loads, clocks>>

\* A timer of an item fires, at its time or later.
Fire ==
    /\ \E id \in DOMAIN clocks :
          /\ clocks[id].timer # None /\ clocks[id].timer <= now
          /\ clocks' = Shown(messages, [clocks EXCEPT ![id].at = now])
    /\ UNCHANGED <<messages, running, step, parts, loads, now>>

-----------------------------------------------------------------------------
Init ==
    /\ messages = <<>> /\ running = FALSE /\ step = 0 /\ parts = 0 /\ loads = 0 /\ now = 0
    /\ clocks = <<>>

Next ==
    \/ Prompt \/ Fragment \/ Start \/ Finish \/ NextStep \/ EndTurn \/ Load \/ Tick \/ Fire

Spec == Init /\ [][Next]_vars

-----------------------------------------------------------------------------
(* Properties.                                                             *)

Flat(items) == FlattenSeq([i \in DOMAIN items |-> items[i].blocks])
Said(blocks) == FlattenSeq([b \in DOMAIN blocks |-> blocks[b].text])

(* However messages are joined to items and items to each other, and       *)
(* whatever ids a provider uses again: every fragment and call is there    *)
(* once and in its order, and a call has the result that is its own, which *)
(* is no block by itself (buildTranscript, coalesceAdjacentActivityMessages,*)
(* groupBlocks).                                                           *)
EachPartOnce ==
    LET items == Transcript(messages)
        blocks == Flat(items)
        spoken == SelectSeq(messages, LAMBDA m : m.role # "tool")
        finished == {messages[m].content[1].result : m \in {n \in DOMAIN messages : messages[n].role = "tool"}}
    IN /\ Said(blocks) = Said(FlattenSeq([m \in DOMAIN spoken |-> spoken[m].content]))
       /\ \A b \in DOMAIN blocks :
             /\ blocks[b].kind # "result"
             /\ blocks[b].kind = "call" =>
                   blocks[b].result = IF blocks[b].text[1] \in finished THEN blocks[b].text[1] ELSE None
       /\ \A i \in DOMAIN items :
             LET at == clocks[items[i].id].at
                 mine == items[i].blocks
             IN FlattenSeq(Groups(mine, running, at)) =
                   SelectSeq([b \in DOMAIN mine |-> b], LAMBDA b : Presentation(mine[b], at) # "hidden")

(* An item takes an old time for now until its timer fires: a tool that    *)
(* should be shown, or go into a summary, has a timer that is due, however *)
(* blocks come, change and move between items (the effect of               *)
(* AssistantTranscriptItem).                                               *)
PresentationCatchesUp ==
    LET items == Transcript(messages) IN
    \A i \in DOMAIN items :
        LET clock == clocks[items[i].id] IN
        \A b \in DOMAIN items[i].blocks :
            Presentation(items[i].blocks[b], now) # Presentation(items[i].blocks[b], clock.at) =>
                clock.timer # None /\ clock.timer <= now
=============================================================================
