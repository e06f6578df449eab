----------------------------- MODULE MCRecords ------------------------------
(***************************************************************************)
(* What the daemon records of a runtime, on small instances: EventLog      *)
(* (extended), Interaction, Activity, Observation and DiagnosticLog.       *)
(*                                                                         *)
(* The modules share no state: each states what the others may do to it as *)
(* actions of its environment.  So the parts are explored one at a time:   *)
(* every one starts in its initial state and only the one in focus moves.  *)
(***************************************************************************)
EXTENDS EventLog

CONSTANTS
    FaultFinishers, FaultEvents,                        \* EventLog with faults
    Responders, Keys, CacheMax, MaxSeq, MaxAskRuns,     \* Interaction
    k1, k2, k3,
    Chunks, Unnamed, Messages, ToolCalls, ModelRequests, SampleMax, TextMax,
    MaxDeltas, MaxTurns,                                \* Activity
    Events, Calls, Names, Arguments, IdMax, TypeMax, RecentMax, RawMax,
    TailMax, ShownMax, MaxDropped,                      \* Observation
    QueueMax, FileCap, MaxLines, MaxFaults              \* DiagnosticLog

VARIABLES
    focus,   \* the part that moves, fixed by the initial state

    \* Interaction
    askPhase, askRun, askRows, askIngress, askSinkError, askAlive, askSeq,
    askInPump, askCache, askRefused, askAsked, askAnswers, askOperation,
    askPc, askReq, askRet,

    \* Activity
    actSamples, actOrder, actTail, actTruncated, actBuffers, actProgress,
    actTerminal, actTools, actModels, actDeltas, actToolAt, actModelAt,
    actTurnAt, actText, actIdentities, actTaken, actGaps,

    \* Observation
    obsSnapshotSeq, obsNextCallSeq, obsSeenEvents, obsSeenCalls, obsTools,
    obsRaw, obsTruncated, obsToolsComplete, obsReasoningComplete,
    obsDropped, obsCalled, obsThought,

    \* DiagnosticLog
    diagSubmitted, diagQueue, diagDropped, diagPc, diagLine, diagCount,
    diagMain, diagFirst, diagSecond, diagLog, diagReported, diagFaults

\* The log of one run whose writes to the store may fail, over the same variables.
Faulty == INSTANCE EventLog WITH
    Finishers <- FaultFinishers, MaxRuns <- 1, MaxEvents <- FaultEvents,
    StoreFaults <- TRUE

Ask == INSTANCE Interaction WITH
    Responders <- Responders, Keys <- Keys, CacheMax <- CacheMax,
    MaxSeq <- MaxSeq, MaxRuns <- MaxAskRuns, Nobody <- Nobody,
    phase <- askPhase, run <- askRun, rows <- askRows,
    ingress <- askIngress, sinkError <- askSinkError, alive <- askAlive,
    seq <- askSeq, inPump <- askInPump, cache <- askCache,
    refused <- askRefused, asked <- askAsked, answers <- askAnswers,
    operation <- askOperation, pc <- askPc, req <- askReq, ret <- askRet

Act == INSTANCE Activity WITH
    Chunks <- Chunks, Unnamed <- Unnamed, Messages <- Messages, Calls <- ToolCalls,
    Requests <- ModelRequests, IdMax <- SampleMax, TextMax <- TextMax,
    MaxDeltas <- MaxDeltas, MaxTurns <- MaxTurns, samples <- actSamples,
    order <- actOrder, tail <- actTail, truncated <- actTruncated,
    buffers <- actBuffers, progress <- actProgress,
    terminal <- actTerminal, tools <- actTools, models <- actModels,
    deltas <- actDeltas, toolAt <- actToolAt, modelAt <- actModelAt,
    turnAt <- actTurnAt, text <- actText, identities <- actIdentities,
    taken <- actTaken, gaps <- actGaps

Obs == INSTANCE Observation WITH
    Events <- Events, Calls <- Calls, Names <- Names,
    Arguments <- Arguments, IdMax <- IdMax, TypeMax <- TypeMax,
    RecentMax <- RecentMax, RawMax <- RawMax, TailMax <- TailMax,
    ShownMax <- ShownMax, MaxDropped <- MaxDropped,
    snapshotSeq <- obsSnapshotSeq, nextCallSeq <- obsNextCallSeq,
    seenEvents <- obsSeenEvents, seenCalls <- obsSeenCalls,
    tools <- obsTools, raw <- obsRaw, truncated <- obsTruncated,
    toolsComplete <- obsToolsComplete,
    reasoningComplete <- obsReasoningComplete, dropped <- obsDropped,
    called <- obsCalled, thought <- obsThought

Diag == INSTANCE DiagnosticLog WITH
    Capacity <- QueueMax, FileCap <- FileCap, MaxLines <- MaxLines,
    MaxFaults <- MaxFaults, submitted <- diagSubmitted,
    queue <- diagQueue, dropped <- diagDropped, pc <- diagPc,
    line <- diagLine, count <- diagCount, main <- diagMain,
    first <- diagFirst, second <- diagSecond, log <- diagLog,
    reported <- diagReported, faults <- diagFaults

ASSUME AskBounds == Ask!BoundsAssumption /\ Ask!NobodyAssumption /\ Ask!KeysAssumption
ASSUME ActBounds == Act!BoundsAssumption
ASSUME ObsBounds == Obs!NamesAssumption /\ Obs!LimitsAssumption
ASSUME DiagBounds == Diag!LogBounds

askVars == <<askPhase, askRun, askRows, askIngress, askSinkError, askAlive,
             askSeq, askInPump, askCache, askRefused, askAsked, askAnswers,
             askOperation, askPc, askReq, askRet>>
actVars == <<actSamples, actOrder, actTail, actTruncated, actBuffers,
             actProgress, actTerminal, actTools, actModels, actDeltas,
             actToolAt, actModelAt, actTurnAt, actText, actIdentities,
             actTaken, actGaps>>
obsVars == <<obsSnapshotSeq, obsNextCallSeq, obsSeenEvents, obsSeenCalls,
             obsTools, obsRaw, obsTruncated, obsToolsComplete,
             obsReasoningComplete, obsDropped, obsCalled, obsThought>>
diagVars == <<diagSubmitted, diagQueue, diagDropped, diagPc, diagLine,
              diagCount, diagMain, diagFirst, diagSecond, diagLog,
              diagReported, diagFaults>>
mcVars == <<focus, vars, askVars, actVars, obsVars, diagVars>>

MCInit ==
    /\ focus \in {"LOG", "FAULTS", "ASK", "ACT", "OBS", "DIAG"}
    /\ IF focus = "FAULTS" THEN Faulty!Init ELSE Init
    /\ Ask!Init /\ Act!Init /\ Obs!Init /\ Diag!Init

\* One run with every request, or a first run that leaves at most one row behind and
\* a second with up to two requests and answers of one kind.  In the first run the
\* keys come in the order of their names, which stand for no order.
AskBounded ==
    IF askRun = 1
    THEN /\ askAsked[1] \in {k1, Ask!NoKey} /\ askAsked[2] # k3
         /\ askAsked[3] = k3 => askAsked[2] = k2
    ELSE /\ \A t \in Responders : askReq[t].decision # "deny"
         /\ \A i \in DOMAIN askRows :
            /\ {askRows[i].key, askAsked[i]} \subseteq {k1, k2, Ask!NoKey}
            /\ i > 1 => askRows[i].run # 1
            /\ i > 2 => askAsked[i] = Ask!NoKey

\* Text alone, up to four deltas of both channels, or tools, model requests and turns
\* alone.
ActBounded ==
    \/ actDeltas["SESSION"] + actDeltas["TELEMETRY"] <= 4 /\ \A c \in DOMAIN actDeltas :
          /\ actTurnAt[c] = 0
          /\ \A t \in ToolCalls : actToolAt[c][t] = "NEW"
          /\ \A r \in ModelRequests : actModelAt[c][r] = "NEW"
    \/ \A c \in DOMAIN actDeltas : actDeltas[c] = 0

InLog ==
    /\ focus = "LOG" /\ Next
    /\ UNCHANGED <<focus, askVars, actVars, obsVars, diagVars>>
InFaults ==
    /\ focus = "FAULTS" /\ Faulty!Next
    /\ UNCHANGED <<focus, askVars, actVars, obsVars, diagVars>>
InAsk ==
    /\ focus = "ASK" /\ Ask!Next /\ AskBounded'
    /\ UNCHANGED <<focus, vars, actVars, obsVars, diagVars>>
InAct ==
    /\ focus = "ACT" /\ Act!Next /\ ActBounded'
    /\ UNCHANGED <<focus, vars, askVars, obsVars, diagVars>>
InObs ==
    /\ focus = "OBS" /\ Obs!Next
    /\ UNCHANGED <<focus, vars, askVars, actVars, diagVars>>
InDiag ==
    /\ focus = "DIAG" /\ Diag!Next
    /\ UNCHANGED <<focus, vars, askVars, actVars, obsVars>>

MCNext == InLog \/ InFaults \/ InAsk \/ InAct \/ InObs \/ InDiag

MCSpec == MCInit /\ [][MCNext]_mcVars

-----------------------------------------------------------------------------
(***************************************************************************)
(* Properties, of which each part is stated in full in its module          *)
(***************************************************************************)

\* The log of a run has no hole, ends with its one terminal event, is numbered in order
\* and never hands out a number twice, through failed writes, late finishers, crashes
\* and resumes.
LogIsSound == LogIsPrefix /\ TerminalEventLast /\ NumberedInOrder /\ NextSeqFree

\* A permission request is neither lost nor answered twice.  In the first run a row
\* that says RESPONDED says what the runtime was told, and a pending one can be
\* answered; in a later run a caller that read its request before the resume may
\* answer another.
RequestsSettled ==
    /\ Ask!AnsweredOnce /\ Ask!NoSilentLoss
    /\ askRun = 1 => Ask!RespondedIsDelivered /\ Ask!PendingIsAnswerable

\* Two channels tell of the same work in any order: text is admitted, shown and taken
\* once, or a gap is declared, and nothing that is over is shown as active.
ActivityIsTrue ==
    /\ Act!TextTakenOnce /\ Act!TextAdmittedOnce
    /\ Act!ProgressIsFinished /\ Act!NothingActiveWhenDone

\* What a snapshot calls complete is complete, what it shows as recent is the newest,
\* and its tables keep their limits.
SnapshotIsTrue ==
    /\ Obs!CompleteCountsCalls /\ Obs!CompleteReasoning
    /\ Obs!RecentAreNewest /\ Obs!WithinLimits

\* A snapshot that differs has a higher number.
ChangesAreNumbered == Obs!ChangesAreNumbered

\* Every diagnostic line is in the log, in order, on its way, or counted as lost, and
\* no rotation, failed halfway or not, loses the newest or outgrows a file.
DiagnosticsKept ==
    /\ Diag!EveryLineAccounted /\ Diag!LogInOrder
    /\ Diag!NewestOnDisk /\ Diag!FilesBounded
=============================================================================
