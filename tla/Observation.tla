---------------------------- MODULE Observation -----------------------------
(***************************************************************************)
(* ObservationState (crates/zcode-agentd/src/observation.rs): the tool     *)
(* calls and the reasoning text of a runtime as its session events tell    *)
(* them, with events that come twice, that cannot be read, and that do not *)
(* fit, and the snapshot that callers poll.                                *)
(*                                                                         *)
(* A reasoning delta is one character, its own event; lengths count these. *)
(* Tool names are numbers, ordered as strings are in the code.             *)
(***************************************************************************)
EXTENDS Naturals, Sequences, FiniteSets

CONSTANTS
    Events,         \* event ids
    Calls,          \* turn and tool call ids, as one identity
    Names,          \* tool names, numbers
    Arguments,      \* projected arguments
    IdMax,          \* MAX_IDENTITIES
    TypeMax,        \* MAX_TOOL_TYPES
    RecentMax,      \* MAX_RECENT_CALLS
    RawMax,         \* MAX_REASONING_BYTES
    TailMax,        \* MAX_REASONING_CHARS
    ShownMax,       \* tools in a snapshot: 3 in the code
    MaxDropped      \* bound on the events that are lost

NamesAssumption == Names \subseteq Nat
LimitsAssumption ==
    /\ IdMax \in Nat /\ TypeMax \in Nat /\ RecentMax \in Nat \ {0}
    /\ RawMax \in Nat /\ TailMax \in 0 .. RawMax

VARIABLES
    snapshotSeq, nextCallSeq,
    seenEvents,         \* seen_source_events
    seenCalls,          \* seen_calls: name and number of each call
    tools,              \* the ToolGroup of each name: count, latest, recent
    raw, truncated,     \* reasoning_raw, reasoning_truncated
    toolsComplete, reasoningComplete, dropped,
    called,             \* the calls the runtime told of
    thought             \* the reasoning it told of

seen == <<seenEvents, seenCalls, nextCallSeq>>
reasoning == <<raw, truncated, reasoningComplete>>
history == <<called, thought>>
vars == <<snapshotSeq, seen, tools, reasoning, toolsComplete, dropped, history>>

NoGroup == [count |-> 0, latest |-> 0, recent |-> <<>>]
Grouped == {n \in Names : tools[n] # NoGroup}

Init ==
    /\ snapshotSeq = 0 /\ nextCallSeq = 0
    /\ seenEvents = {} /\ seenCalls = <<>>
    /\ tools = [n \in Names |-> NoGroup]
    /\ raw = <<>> /\ truncated = FALSE
    /\ toolsComplete = TRUE /\ reasoningComplete = TRUE /\ dropped = 0
    /\ called = {} /\ thought = <<>>

LastOf(s, n) == IF Len(s) > n THEN SubSeq(s, Len(s) - n + 1, Len(s)) ELSE s
FirstOf(s, n) == IF Len(s) > n THEN SubSeq(s, 1, n) ELSE s

Bump == snapshotSeq' = snapshotSeq + 1
KnownCall(call) == call \in DOMAIN seenCalls

-----------------------------------------------------------------------------
(***************************************************************************)
(* What is lost                                                            *)
(***************************************************************************)

\* drop_event.
DropEvent(tool) ==
    /\ dropped < MaxDropped /\ dropped' = dropped + 1
    /\ IF tool THEN toolsComplete' = FALSE /\ UNCHANGED reasoningComplete
               ELSE reasoningComplete' = FALSE /\ UNCHANGED toolsComplete
    /\ Bump

\* observe_loss: a line that is malformed or too long may have been anything.
ObserveLoss ==
    /\ dropped < MaxDropped /\ dropped' = dropped + 1
    /\ toolsComplete' = FALSE /\ reasoningComplete' = FALSE
    /\ Bump
    /\ \/ UNCHANGED history
       \/ \E c \in Calls : called' = called \cup {c} /\ UNCHANGED thought
    /\ UNCHANGED <<seen, tools, raw, truncated>>

\* An event without a valid id.
NoEventId(tool) ==
    /\ DropEvent(tool)
    /\ UNCHANGED <<seen, tools, raw, truncated, history>>

\* Mutant of Full: one identity too many.
FullBeyond(ids) == Cardinality(ids) > IdMax

Full(ids) == Cardinality(ids) >= IdMax

\* observe_message comes to an event it has not seen, and has room for.
New(e) == e \notin seenEvents /\ ~Full(seenEvents)

\* There is no room to remember the event.
TooManyEvents(e, tool) ==
    /\ e \notin seenEvents /\ Full(seenEvents)
    /\ DropEvent(tool)
    /\ IF tool THEN \E c \in Calls : called' = called \cup {c} /\ UNCHANGED thought
               ELSE thought' = Append(thought, e) /\ UNCHANGED called
    /\ UNCHANGED <<seen, tools, raw, truncated>>

-----------------------------------------------------------------------------
(***************************************************************************)
(* Reasoning                                                               *)
(***************************************************************************)

\* Mutant of ObserveReasoning: the text that is cut off is still called complete.
ObserveReasoningComplete(e) ==
    LET combined == Append(raw, e) IN
    /\ New(e)
    /\ seenEvents' = seenEvents \cup {e} /\ UNCHANGED <<seenCalls, nextCallSeq>>
    /\ raw' = LastOf(combined, RawMax)
    /\ truncated' = (truncated \/ Len(combined) > RawMax \/ Len(raw') > TailMax)
    /\ UNCHANGED <<reasoningComplete, dropped>>
    /\ Bump
    /\ thought' = Append(thought, e)
    /\ UNCHANGED <<tools, toolsComplete, called>>

\* observe_reasoning: the window of raw text, and the tail that is shown of it.
ObserveReasoning(e) ==
    LET combined == Append(raw, e) IN
    /\ New(e)
    /\ seenEvents' = seenEvents \cup {e} /\ UNCHANGED <<seenCalls, nextCallSeq>>
    /\ raw' = LastOf(combined, RawMax)
    /\ truncated' = (truncated \/ Len(combined) > RawMax \/ Len(raw') > TailMax)
    /\ IF Len(combined) > RawMax
         THEN /\ reasoningComplete' = FALSE
              /\ dropped < MaxDropped /\ dropped' = dropped + 1
         ELSE UNCHANGED <<reasoningComplete, dropped>>
    /\ Bump
    /\ thought' = Append(thought, e)
    /\ UNCHANGED <<tools, toolsComplete, called>>

\* A reasoning event without its delta.
NoDelta(e) ==
    /\ New(e)
    /\ seenEvents' = seenEvents \cup {e} /\ UNCHANGED <<seenCalls, nextCallSeq>>
    /\ DropEvent(FALSE)
    /\ thought' = Append(thought, e)
    /\ UNCHANGED <<tools, raw, truncated, called>>

-----------------------------------------------------------------------------
(***************************************************************************)
(* Tool calls                                                              *)
(***************************************************************************)

\* The call or the tool has no valid id.
NoCallId(e) ==
    /\ New(e)
    /\ seenEvents' = seenEvents \cup {e} /\ UNCHANGED <<seenCalls, nextCallSeq>>
    /\ DropEvent(TRUE)
    /\ \E c \in Calls : called' = called \cup {c}
    /\ UNCHANGED <<tools, raw, truncated, thought>>

\* Mutant of Fresh: a call is known by its event alone.
FreshAlways(c) == TRUE

Fresh(c) == ~KnownCall(c)

\* The call came before: its arguments are brought up to date, if it is still shown.
UpdateCall(e, c, arguments) ==
    /\ New(e) /\ ~Fresh(c)
    /\ seenEvents' = seenEvents \cup {e} /\ UNCHANGED <<seenCalls, nextCallSeq>>
    /\ LET name == seenCalls[c].name
           shown == {i \in 1 .. Len(tools[name].recent) :
                        tools[name].recent[i].seq = seenCalls[c].seq}
       IN IF \E i \in shown : tools[name].recent[i].arguments # arguments
            THEN /\ tools' = [tools EXCEPT ![name].recent =
                        [i \in DOMAIN @ |-> IF i \in shown
                            THEN [@[i] EXCEPT !.arguments = arguments] ELSE @[i]]]
                 /\ Bump
            ELSE UNCHANGED <<tools, snapshotSeq>>
    /\ UNCHANGED <<reasoning, toolsComplete, dropped, history>>

NoRoom(n) ==
    \/ Full(DOMAIN seenCalls)
    \/ n \notin Grouped /\ Cardinality(Grouped) >= TypeMax

\* There is no room for the call, or for its tool.
TooManyCalls(e, c, n) ==
    /\ New(e) /\ Fresh(c) /\ NoRoom(n)
    /\ seenEvents' = seenEvents \cup {e} /\ UNCHANGED <<seenCalls, nextCallSeq>>
    /\ DropEvent(TRUE)
    /\ called' = called \cup {c}
    /\ UNCHANGED <<tools, raw, truncated, thought>>

\* Mutant of NewGroup: the newest call is at the end.
NewGroupBack(g, c, arguments) ==
    [count |-> g.count + 1, latest |-> nextCallSeq + 1,
     recent |-> FirstOf(Append(g.recent,
                  [seq |-> nextCallSeq + 1, call |-> c, arguments |-> arguments]), RecentMax)]

NewGroup(g, c, arguments) ==
    [count |-> g.count + 1, latest |-> nextCallSeq + 1,
     recent |-> FirstOf(<<[seq |-> nextCallSeq + 1, call |-> c, arguments |-> arguments]>>
                          \o g.recent, RecentMax)]

\* Mutant of ObserveTool: the snapshot keeps its number.
ObserveToolUnseen(e, c, n, arguments) ==
    /\ New(e) /\ Fresh(c) /\ ~NoRoom(n)
    /\ seenEvents' = seenEvents \cup {e}
    /\ nextCallSeq' = nextCallSeq + 1
    /\ seenCalls' = [k \in DOMAIN seenCalls \cup {c} |->
                        IF k = c THEN [name |-> n, seq |-> nextCallSeq + 1] ELSE seenCalls[k]]
    /\ tools' = [tools EXCEPT ![n] = NewGroup(@, c, arguments)]
    /\ UNCHANGED snapshotSeq
    /\ called' = called \cup {c}
    /\ UNCHANGED <<reasoning, toolsComplete, dropped, thought>>

\* observe_tool: a new call of a tool.
ObserveTool(e, c, n, arguments) ==
    /\ New(e) /\ Fresh(c) /\ ~NoRoom(n)
    /\ seenEvents' = seenEvents \cup {e}
    /\ nextCallSeq' = nextCallSeq + 1
    /\ seenCalls' = [k \in DOMAIN seenCalls \cup {c} |->
                        IF k = c THEN [name |-> n, seq |-> nextCallSeq + 1] ELSE seenCalls[k]]
    /\ tools' = [tools EXCEPT ![n] = NewGroup(@, c, arguments)]
    /\ Bump
    /\ called' = called \cup {c}
    /\ UNCHANGED <<reasoning, toolsComplete, dropped, thought>>

Next ==
    \/ ObserveLoss
    \/ \E tool \in BOOLEAN : NoEventId(tool) \/ \E e \in Events : TooManyEvents(e, tool)
    \/ \E e \in Events :
          \/ ObserveReasoning(e) \/ NoDelta(e) \/ NoCallId(e)
          \/ \E c \in Calls, a \in Arguments : UpdateCall(e, c, a)
          \/ \E c \in Calls, n \in Names : TooManyCalls(e, c, n)
          \/ \E c \in Calls, n \in Names, a \in Arguments : ObserveTool(e, c, n, a)

Spec == Init /\ [][Next]_vars

-----------------------------------------------------------------------------
(***************************************************************************)
(* The snapshot and the properties                                         *)
(***************************************************************************)

\* snapshot: tools by their calls, then the newest, then the name.
Before(m, n) ==
    \/ tools[m].count > tools[n].count
    \/ tools[m].count = tools[n].count /\ tools[m].latest > tools[n].latest
    \/ tools[m].count = tools[n].count /\ tools[m].latest = tools[n].latest /\ m < n

Sorted ==
    [i \in 1 .. Cardinality(Grouped) |->
        CHOOSE n \in Grouped : Cardinality({m \in Grouped : Before(m, n)}) = i - 1]

Shown == FirstOf(Sorted, ShownMax)

Snapshot ==
    LET shown == Shown IN
    [tools |-> [i \in DOMAIN shown |-> [name |-> shown[i], group |-> tools[shown[i]]]],
     reasoning |-> LastOf(raw, TailMax), truncated |-> truncated,
     toolsComplete |-> toolsComplete, reasoningComplete |-> reasoningComplete,
     dropped |-> dropped]

\* A tool history that is called complete knows every call of the runtime and counts
\* it once, under its tool, however often its events came.
CompleteCountsCalls ==
    toolsComplete =>
        /\ DOMAIN seenCalls = called
        /\ \A n \in Names :
              tools[n].count = Cardinality({c \in called : seenCalls[c].name = n})

\* Reasoning that is called complete is in the window, and shown unless truncated.
CompleteReasoning ==
    /\ reasoningComplete => raw = thought
    /\ reasoningComplete /\ ~truncated => Snapshot.reasoning = thought

\* The calls that are shown of a tool are its newest, newest first, and each is known
\* under the number it has there.
RecentAreNewest ==
    \A n \in Grouped :
        LET recent == tools[n].recent IN
        /\ recent[1].seq = tools[n].latest
        /\ \A i \in 1 .. Len(recent) - 1 : recent[i].seq > recent[i + 1].seq
        /\ Len(recent) = IF tools[n].count < RecentMax THEN tools[n].count ELSE RecentMax
        /\ \A i \in DOMAIN recent : seenCalls[recent[i].call] = [name |-> n, seq |-> recent[i].seq]

\* The tables stay within their limits.
WithinLimits ==
    /\ Cardinality(seenEvents) <= IdMax /\ Cardinality(DOMAIN seenCalls) <= IdMax
    /\ Cardinality(Grouped) <= TypeMax

\* A caller that polls the number misses no change: a snapshot that differs has a
\* higher number.
ChangesAreNumbered ==
    [][snapshotSeq' >= snapshotSeq /\ (Snapshot' # Snapshot => snapshotSeq' > snapshotSeq)]_vars
=============================================================================
