------------------------------ MODULE Activity ------------------------------
(***************************************************************************)
(* The PassiveActivityTracker of a run (crates/zcode-agentd/src/lib.rs):   *)
(* what the runtime's session and telemetry channels report, in whatever   *)
(* way the two are interleaved, and what callers of wait and of the        *)
(* finalizer read from it.                                                 *)
(*                                                                         *)
(* A text delta is one chunk and lengths count chunks; clocks and the      *)
(* window of 60 seconds are left out.                                      *)
(***************************************************************************)
EXTENDS Naturals, Sequences, FiniteSets, SequencesExt

CONSTANTS
    Chunks,         \* text deltas, by the ids of their events
    Unnamed,        \* those of them whose event has no usable id
    Messages,       \* assistant message ids
    Calls,          \* tool call ids
    Requests,       \* model requests, by their ids
    IdMax,          \* MAX_ACTIVITY_IDENTITIES
    TextMax,        \* MAX_LATEST_TEXT_BYTES
    MaxDeltas,      \* bound on the deltas of a channel
    MaxTurns        \* bound on the turns

BoundsAssumption ==
    IdMax \in Nat \ {0} /\ TextMax \in Nat \ {0} /\ MaxDeltas \in Nat /\ MaxTurns \in Nat

Channels == {"SESSION", "TELEMETRY"}
ModelRequest == "model-request"   \* a request that is started without an id
Response == "RESPONSE"      \* the response of a turn.completed, as a text of its own
NoText == <<>>

VARIABLES
    samples,    \* source of the sample of each identity that is remembered
    order,      \* sample_order
    tail,       \* latest_text_tail
    truncated,  \* latest_text_truncated
    buffers,    \* assistant_buffers
    progress,   \* latest_progress
    terminal,   \* terminal_text
    tools,      \* active_tools
    models,     \* active_model_requests
    deltas,     \* deltas each channel has delivered
    toolAt,     \* how far each channel is with each tool call
    modelAt,    \* how far each channel is with each model request
    turnAt,     \* turns each channel has ended
    text,       \* all the text that was appended, once it was admitted
    identities, \* all the identities that were seen
    taken,      \* the text that callers took
    gaps        \* a caller was told that its text is truncated

sampling == <<samples, order, identities>>
texts == <<tail, truncated, buffers, progress, terminal, text>>
channels == <<deltas, toolAt, modelAt, turnAt>>
readers == <<taken, gaps>>
vars == <<sampling, texts, tools, models, channels, readers>>

Init ==
    /\ samples = <<>> /\ order = <<>> /\ identities = {}
    /\ tail = NoText /\ truncated = FALSE /\ terminal = NoText /\ text = NoText
    /\ buffers = [m \in Messages |-> NoText] /\ progress = NoText
    /\ tools = {} /\ models = {}
    /\ deltas = [c \in Channels |-> 0]
    /\ toolAt = [c \in Channels |-> [t \in Calls |-> "NEW"]]
    /\ modelAt = [c \in Channels |-> [r \in Requests |-> "NEW"]]
    /\ turnAt = [c \in Channels |-> 0]
    /\ taken = NoText /\ gaps = FALSE

-----------------------------------------------------------------------------
(***************************************************************************)
(* observe_at: samples                                                     *)
(***************************************************************************)

\* Mutant of Admitted: an identity that is known is taken again.
AdmittedAlways(id, c) == TRUE

\* A sample is new, or the session's own in place of the telemetry's.
Admitted(id, c) ==
    id \in DOMAIN samples => samples[id] = "TELEMETRY" /\ c = "SESSION"

\* The oldest identity goes when there are too many.
Evict(known, queue) ==
    IF Len(queue) > IdMax
      THEN <<[i \in DOMAIN known \ {Head(queue)} |-> known[i]], Tail(queue)>>
      ELSE <<known, queue>>

\* The identity is remembered, in its place if it has one.
Remember(id, c) ==
    LET known == [i \in DOMAIN samples \cup {id} |->
                     IF i = id /\ Admitted(id, c) THEN c ELSE samples[i]]
        queue == IF id \in DOMAIN samples THEN order ELSE Append(order, id)
        kept == Evict(known, queue)
    IN /\ samples' = kept[1] /\ order' = kept[2]
       /\ identities' = identities \cup {id}

-----------------------------------------------------------------------------
(***************************************************************************)
(* Text                                                                    *)
(***************************************************************************)

\* The last TextMax chunks of a text.
Bounded(s) == IF Len(s) > TextMax THEN SubSeq(s, Len(s) - TextMax + 1, Len(s)) ELSE s

\* Mutant of AppendText: the text that is cut off is not reported.
AppendTextSilently(chunk) ==
    /\ terminal' = Append(terminal, chunk)
    /\ tail' = Bounded(Append(tail, chunk))
    /\ text' = Append(text, chunk)
    /\ UNCHANGED truncated

\* append_latest_text.
AppendText(chunk) ==
    /\ terminal' = Append(terminal, chunk)
    /\ tail' = Bounded(Append(tail, chunk))
    /\ truncated' = (truncated \/ Len(tail) + 1 > TextMax)
    /\ text' = Append(text, chunk)

\* A text delta of the session; the telemetry reports its length alone.  A delta without
\* an id is admitted always and not remembered.
TextDelta(c, chunk, m) ==
    /\ deltas[c] < MaxDeltas
    /\ deltas' = [deltas EXCEPT ![c] = @ + 1]
    /\ IF chunk \in Unnamed THEN UNCHANGED sampling ELSE Remember(chunk, c)
    /\ IF c = "SESSION" /\ (chunk \in Unnamed \/ Admitted(chunk, c))
         THEN /\ AppendText(chunk)
              /\ buffers' = [buffers EXCEPT ![m] = Bounded(Append(@, chunk))]
         ELSE UNCHANGED <<terminal, tail, truncated, text, buffers>>
    /\ UNCHANGED <<progress, tools, models, toolAt, modelAt, turnAt, readers>>

\* Mutant of MessageFinished: the buffer stays.
MessageFinishedKeeps(m) ==
    /\ buffers[m] # NoText
    /\ progress' = buffers[m]
    /\ UNCHANGED <<buffers, tail, truncated, terminal, text, sampling, tools, models, channels, readers>>

\* The end of a message moves its buffer to latest_progress.
MessageFinished(m) ==
    /\ buffers[m] # NoText
    /\ progress' = buffers[m]
    /\ buffers' = [buffers EXCEPT ![m] = NoText]
    /\ UNCHANGED <<tail, truncated, terminal, text, sampling, tools, models, channels, readers>>

\* take_snapshot: the text is consumed, with the flag.
TakeSnapshot ==
    /\ tail # NoText
    /\ taken' = taken \o tail /\ gaps' = (gaps \/ truncated)
    /\ tail' = NoText /\ truncated' = FALSE
    /\ UNCHANGED <<buffers, progress, terminal, text, sampling, tools, models, channels>>

-----------------------------------------------------------------------------
(***************************************************************************)
(* Tools, model requests and turns                                         *)
(***************************************************************************)

Over == {"COMPLETED", "FAILED"}

\* What a channel reports of a tool call next.
ToolPhases(at) ==
    CASE at = "NEW" -> {"SCHEDULED", "STARTED"}
      [] at = "SCHEDULED" -> {"STARTED", "FAILED"}
      [] at = "STARTED" -> Over
      [] at \in Over -> {}

\* Mutant of ToolTransition: a phase that another channel reported changes nothing.
ToolTransitionAdmitted(c, t, p) ==
    tools' = IF p # "SCHEDULED" /\ ~Admitted(<<t, p>>, c) THEN tools
             ELSE IF p \in Over THEN tools \ {t} ELSE tools \cup {t}

\* The transition is made whether the sample was admitted or not.
ToolTransition(c, t, p) == tools' = IF p \in Over THEN tools \ {t} ELSE tools \cup {t}

\* A tool call's phase; only its start and its end are sampled.
ToolUpdated(c, t, p) ==
    /\ p \in ToolPhases(toolAt[c][t])
    /\ toolAt' = [toolAt EXCEPT ![c][t] = p]
    /\ IF p = "SCHEDULED" THEN UNCHANGED sampling ELSE Remember(<<t, p>>, c)
    /\ ToolTransition(c, t, p)
    /\ UNCHANGED <<texts, models, deltas, modelAt, turnAt, readers>>

\* permission.resolved takes the call from the active ones, until it starts.
PermissionResolved(c, t) ==
    /\ toolAt[c][t] = "SCHEDULED"
    /\ tools' = tools \ {t}
    /\ UNCHANGED <<sampling, texts, models, channels, readers>>

\* model_request_started, which may name no request, and then neither does its end.
ModelStarted(c, r, named) ==
    /\ modelAt[c][r] = "NEW"
    /\ modelAt' = [modelAt EXCEPT ![c][r] = IF named THEN "STARTED" ELSE "UNNAMED"]
    /\ models' = models \cup {IF named THEN r ELSE ModelRequest}
    /\ UNCHANGED <<sampling, texts, tools, deltas, toolAt, turnAt, readers>>

\* model_request_completed; one that names no request ends them all.
ModelCompleted(c, r, named) ==
    /\ modelAt[c][r] \in IF named THEN {"STARTED"} ELSE {"STARTED", "UNNAMED"}
    /\ modelAt' = [modelAt EXCEPT ![c][r] = "COMPLETED"]
    /\ models' = IF named THEN models \ {r} ELSE {}
    /\ UNCHANGED <<sampling, texts, tools, deltas, toolAt, turnAt, readers>>

\* turn.completed, with the response in the session's, or turn.failed: a channel says
\* nothing more of what it had begun.
TurnEnded(c, response) ==
    /\ turnAt[c] < MaxTurns
    /\ turnAt' = [turnAt EXCEPT ![c] = @ + 1]
    /\ toolAt' = [toolAt EXCEPT ![c] = [t \in Calls |->
                     IF @[t] = "NEW" THEN "NEW" ELSE "FAILED"]]
    /\ modelAt' = [modelAt EXCEPT ![c] = [r \in Requests |->
                     IF @[r] = "NEW" THEN "NEW" ELSE "COMPLETED"]]
    /\ tools' = {} /\ models' = {}
    /\ terminal' = IF c = "SESSION" /\ response THEN <<Response>> ELSE terminal
    /\ UNCHANGED <<tail, truncated, buffers, progress, text, sampling, deltas, readers>>

\* take_terminal_text, of the finalizer.
TakeTerminalText ==
    /\ terminal # NoText
    /\ terminal' = NoText
    /\ UNCHANGED <<tail, truncated, buffers, progress, text, sampling, tools, models, channels, readers>>

Next ==
    \/ \E c \in Channels :
          \/ \E k \in Chunks, m \in Messages : TextDelta(c, k, m)
          \/ \E t \in Calls, p \in {"SCHEDULED", "STARTED"} \cup Over : ToolUpdated(c, t, p)
          \/ \E t \in Calls : PermissionResolved(c, t)
          \/ \E r \in Requests, named \in BOOLEAN :
                ModelStarted(c, r, named) \/ ModelCompleted(c, r, named)
          \/ \E response \in BOOLEAN : TurnEnded(c, response)
    \/ \E m \in Messages : MessageFinished(m)
    \/ TakeSnapshot \/ TakeTerminalText

Spec == Init /\ [][Next]_vars

-----------------------------------------------------------------------------
(***************************************************************************)
(* Properties                                                              *)
(***************************************************************************)

\* Callers that take the text share it: together with what is left they have all of
\* it, each chunk once, unless one of them is or was told that some is missing.
TextTakenOnce == gaps \/ truncated \/ taken \o tail = text

\* A delta that is delivered again, or by both channels, is text once, as long as the
\* tracker has had to forget nothing and its event has an id.
TextAdmittedOnce ==
    Cardinality(identities) <= IdMax =>
        \A i, j \in 1 .. Len(text) : text[i] = text[j] => i = j \/ text[i] \in Unnamed

\* A message in flight is not shown as progress: a chunk is in one place at most,
\* while every delta comes once.
ProgressIsFinished ==
    (\A i, j \in 1 .. Len(text) : text[i] = text[j] => i = j) =>
        \A m \in Messages : \A i \in 1 .. Len(buffers[m]), j \in 1 .. Len(progress) :
            buffers[m][i] # progress[j]

\* Once both channels are done with what they had begun, nothing is shown as active,
\* in whatever order their reports came.
NothingActiveWhenDone ==
    /\ (\A c \in Channels, t \in Calls : toolAt[c][t] \in Over \cup {"NEW"}) => tools = {}
    /\ (\A c \in Channels, r \in Requests : modelAt[c][r] \in {"NEW", "COMPLETED"})
          => models = {}
=============================================================================
