------------------------- MODULE TurnControlProofs --------------------------
(***************************************************************************)
(* Theorems about the turns of a runtime, for any number of turns and      *)
(* messages.                                                               *)
(***************************************************************************)
EXTENDS TurnControl, TLAPS

Boundaries == {"NONE", "COMPLETED", "FAILED"}
Snapshots == [gen : 0 .. MaxTurns, active : BOOLEAN, boundary : Boundaries]
Phases == {"RUNNING", "STOP_REQUESTED", "STOP_ACKNOWLEDGED", "FORCE_TERMINATING", "TERMINAL"}

\* The types of what the invariants below speak of.
TurnTypes ==
    /\ seen \in [Threads -> Snapshots]
    /\ turn \in Snapshots
    /\ ends \in [1 .. MaxTurns -> Boundaries]
    /\ life \in [phase : Phases, gen : 0 .. MaxTurns, boundary : Boundaries]
RowTypes ==
    /\ at = [t \in Threads |-> at[t]]
    /\ stopAsked \in BOOLEAN /\ asked \in BOOLEAN
    /\ queued \in Nat
    /\ result \in {"NONE", "COMPLETED", "FAILED", "CANCELLED"}

\* A turn that is active has not ended, and neither has one to come.
Unended ==
    /\ turn.active => turn.gen > 0 /\ ends[turn.gen] = "NONE"
    /\ \A g \in 1 .. MaxTurns : g > turn.gen => ends[g] = "NONE"

\* A snapshot that shows a boundary shows how that turn ended.
Truthful(snapshot) ==
    ~snapshot.active /\ snapshot.boundary # "NONE"
      => snapshot.gen > 0 /\ snapshot.boundary = ends[snapshot.gen]
Snapped == Truthful(turn) /\ \A t \in Threads : Truthful(seen[t])

TurnInv == TurnTypes /\ Unended /\ Snapped /\ AcknowledgedTurn

\* The monitor comes into being when the start is over.
Starting == {"CREATE", "RESUME", "MODEL", "SUBSCRIBE", "PROMPT", "PROMPTED", "REGISTER"}
Early == at["START"] \in Starting => at["MONITOR"] = "IDLE"

\* Who works on the turns or accepts a message holds the operation mutex.
Held ==
    /\ at["MONITOR"] \in {"RECHECK", "ADMIT", "DELIVER", "CLAIMED", "SENT", "FINISH"}
         => op = "MONITOR"
    /\ at["START"] \in {"DELIVER", "CLAIMED", "SENT"} => op = "START"
    /\ at["CALLER"] = "INSERT" => op = "CALLER"
    /\ at["STOPPER"] \in {"REQUEST", "REQUESTED", "TURN", "WRITE", "BOUNDARY", "STOP",
                         "CLOSE_WRITE", "CLOSED"} => op = "STOPPER"

\* The gate closes for a stop that is in the store, or for good at the end.
Closed ==
    /\ life.phase \notin {"RUNNING", "TERMINAL"} => stopAsked
    /\ at["STOPPER"] # "IDLE" => stopAsked
    /\ result # "NONE" => life.phase = "TERMINAL"
    /\ life.phase = "TERMINAL" => result # "NONE" \/ at["MONITOR"] = "FINISH"

\* The monitor judges turns that have ended, and ends a completed one with nothing
\* left behind unless a stop has come in between.
Judged ==
    /\ at["MONITOR"] \in {"LOCK", "RECHECK", "ADMIT", "DELIVER", "FINISH"}
         => seen["MONITOR"].boundary # "NONE"
    /\ (at["MONITOR"] = "DELIVER" /\ seen["MONITOR"].boundary = "COMPLETED" /\ ~stopAsked)
         => queued > 0
    /\ (/\ at["MONITOR"] = "FINISH" /\ seen["MONITOR"].boundary = "COMPLETED"
        /\ ~stopAsked /\ result = "NONE")
         => queued = 0 /\ ~asked /\ life.phase = "TERMINAL"

GateInv == RowTypes /\ Early /\ Held /\ Closed /\ Judged /\ CompletedLeavesNothing

-----------------------------------------------------------------------------
(***************************************************************************)
(* The turn a stop is acknowledged by                                      *)
(***************************************************************************)

\* The lifecycle is left alone, or closed, forced or ended, or acknowledges a turn.
LifeStep ==
    \/ UNCHANGED life
    \/ \E t \in Threads : life' = Requested(life, seen[t])
    \/ life' = Forced(life)
    \/ life' = [life EXCEPT !.phase = "TERMINAL"]
    \/ life' = AcknowledgedOrForced(life, turn)
    \/ life' = AcknowledgedOrForced(Requested(life, seen["STOPPER"]), seen["STOPPER"])

\* The threads change no turn, and look at the present one.
ThreadStep ==
    /\ UNCHANGED runtime
    /\ UNCHANGED seen \/ \E t \in Threads : seen' = [seen EXCEPT ![t] = turn]
    /\ LifeStep

\* Every step is one of the runtime's or one of a thread.
LEMMA NextShape ==
    ASSUME TurnNext
    PROVE  TurnStarts \/ TurnEnds \/ ThreadStep
<1> USE DEF ThreadStep, LifeStep, Threads, runtime, row, start, MoveTo
<1>1. CASE StartStep
  BY <1>1 DEF StartStep, StartFails, Create, ModelFits, Resume, Subscribe, SendPrompt, Sends,
              PromptStarted, Register, StartLocks, Ends
<1>2. CASE \E t \in {"START", "MONITOR"} : DeliverStep(t)
  BY <1>2 DEF DeliverStep, NoMessage, ClaimMessage, SendMessage, Sends, Delivered, DeliverFails,
              BackToLook, Ends
<1>3. CASE MonitorStep
  BY <1>3 DEF MonitorStep, Look, MonitorLocks, Recheck, Admit, Defer, Ready, Finish, Ends
<1>4. CASE QueueCheck \/ QueueInsert \/ AskStop \/ Ask \/ Answer \/ AnswerFails
  BY <1>4 DEF QueueCheck, QueueInsert, AskStop, Ask, Answer, AnswerFails, Ends
<1>5. CASE StopperStep \/ StopWrite \/ CloseWrite
  BY <1>5 DEF StopperStep, CloseGate, StopLocks, StopTimeout, StopSnapshot, StopRequest, StopTurn,
              StopWrite, StopBoundary, StopTurnFails, CloseSession, CloseWrite, StopFinish, Ends
<1> QED
  BY <1>1, <1>2, <1>3, <1>4, <1>5 DEF TurnNext

LEMMA TurnsBegin == ASSUME TurnsAssumption PROVE TurnInit => TurnInv
BY DEF TurnsAssumption, TurnInit, TurnInv, TurnTypes, Snapshots, Boundaries, Phases, Unended,
       Snapped, Truthful, AcknowledgedTurn, NoTurn, Threads

\* What a step does to the lifecycle keeps its type and what it acknowledged.
LEMMA LifeKept ==
    ASSUME TurnsAssumption, TurnInv, LifeStep
    PROVE  /\ life' \in [phase : Phases, gen : 0 .. MaxTurns, boundary : Boundaries]
           /\ life'.phase = "STOP_ACKNOWLEDGED"
                => life'.gen > 0 /\ life'.boundary # "NONE" /\ life'.boundary = ends[life'.gen]
<1> USE DEF TurnInv, TurnTypes, Snapshots, Phases, AcknowledgedTurn, Snapped, Truthful, Threads
<1>1. CASE UNCHANGED life
  BY <1>1
<1>2. CASE \E t \in Threads : life' = Requested(life, seen[t])
  <2>1. PICK t \in Threads : life' = Requested(life, seen[t])
    BY <1>2
  <2>2. seen[t] \in Snapshots
    BY DEF TurnInv
  <2>3. life.phase = "RUNNING"
          => life' = [phase |-> "STOP_REQUESTED", gen |-> seen[t].gen, boundary |-> life.boundary]
    BY <2>1 DEF Requested
  <2> QED
    BY <2>1, <2>2, <2>3 DEF Requested
<1>3. CASE life' = Forced(life) \/ life' = [life EXCEPT !.phase = "TERMINAL"]
  BY <1>3 DEF Forced
<1>4. CASE life' = AcknowledgedOrForced(life, turn)
  BY <1>4 DEF AcknowledgedOrForced, Acknowledges, Acknowledged, Forced
<1>5. CASE life' = AcknowledgedOrForced(Requested(life, seen["STOPPER"]), seen["STOPPER"])
  BY <1>5 DEF AcknowledgedOrForced, Acknowledges, Acknowledged, Forced, Requested
<1> QED
  BY <1>1, <1>2, <1>3, <1>4, <1>5 DEF LifeStep

LEMMA TurnStep == ASSUME TurnsAssumption PROVE TurnInv /\ [TurnNext]_turnVars => TurnInv'
<1> SUFFICES ASSUME TurnInv, [TurnNext]_turnVars PROVE TurnInv'
  OBVIOUS
<1>1. CASE TurnStarts
  BY <1>1 DEF TurnStarts, TurnsAssumption, TurnInv, TurnTypes, Snapshots, Boundaries, Unended,
              Snapped, Truthful, AcknowledgedTurn, Threads
<1>2. CASE TurnEnds
  <2>1. PICK b \in {"COMPLETED", "FAILED"} :
          /\ turn' = [turn EXCEPT !.active = FALSE, !.boundary = b]
          /\ ends' = [ends EXCEPT ![turn.gen] = b]
    BY <1>2 DEF TurnEnds
  <2>2. /\ turn.active /\ turn.gen \in 1 .. MaxTurns /\ ends[turn.gen] = "NONE"
        /\ seen' = seen /\ life' = life
    BY <1>2 DEF TurnEnds, TurnsAssumption, TurnInv, TurnTypes, Snapshots, Unended
  <2>3. TurnTypes' /\ turn'.gen = turn.gen /\ ~turn'.active /\ turn'.boundary = b
    BY <2>1, <2>2 DEF TurnInv, TurnTypes, Snapshots, Boundaries
  <2>4. \A g \in 1 .. MaxTurns : ends[g] # "NONE" => ends'[g] = ends[g]
    BY <2>1, <2>2 DEF TurnInv, TurnTypes
  <2>5. Unended' /\ Truthful(turn)'
    BY <2>1, <2>2, <2>3 DEF TurnInv, TurnTypes, Unended, Truthful
  <2>6. \A t \in Threads : Truthful(seen[t])'
    BY <2>2, <2>4 DEF TurnsAssumption, TurnInv, TurnTypes, Snapshots, Snapped, Truthful
  <2>7. AcknowledgedTurn'
    BY <2>2, <2>4 DEF TurnsAssumption, TurnInv, TurnTypes, AcknowledgedTurn
  <2> QED
    BY <2>3, <2>5, <2>6, <2>7 DEF TurnInv, Snapped
<1>3. CASE ThreadStep
  <2>1. seen' \in [Threads -> Snapshots] /\ \A t \in Threads : Truthful(seen[t])'
    BY <1>3 DEF ThreadStep, runtime, TurnInv, TurnTypes, Snapped, Truthful
  <2>2. TurnTypes'
    BY <1>3, <2>1, LifeKept DEF ThreadStep, runtime, TurnInv, TurnTypes
  <2>3. Unended' /\ Truthful(turn)'
    BY <1>3 DEF ThreadStep, runtime, TurnInv, Unended, Snapped, Truthful
  <2>4. AcknowledgedTurn'
    BY <1>3, LifeKept DEF ThreadStep, runtime, AcknowledgedTurn
  <2> QED
    BY <2>1, <2>2, <2>3, <2>4 DEF TurnInv, Snapped
<1>4. CASE UNCHANGED turnVars
  BY <1>4 DEF turnVars, TurnInv, TurnTypes, Unended, Snapped, Truthful, AcknowledgedTurn
<1> QED
  BY <1>1, <1>2, <1>3, <1>4, NextShape

\* A stop is acknowledged by the end of the turn it was meant for and records how that
\* turn ended, however many turns the runtime starts meanwhile.
THEOREM StopMeetsItsTurn == ASSUME TurnsAssumption PROVE TurnSpec => []AcknowledgedTurn
<1>1. TurnInv => AcknowledgedTurn
  BY DEF TurnInv
<1> QED
  BY <1>1, TurnsBegin, TurnStep, PTL DEF TurnSpec

-----------------------------------------------------------------------------
(***************************************************************************)
(* What a completed run leaves behind                                      *)
(***************************************************************************)

\* Steps of the start.
LEMMA GateStart ==
    ASSUME TurnInv, GateInv, StartStep
    PROVE  GateInv'
<1> USE DEF TurnInv, TurnTypes, GateInv, RowTypes, Early, Starting, Held, Closed, Judged,
            CompletedLeavesNothing, Threads, Phases, MoveTo, runtime, row, start
<1>1. CASE StartFails
  BY <1>1 DEF StartFails, Ends
<1>2. CASE Create
  BY <1>2 DEF Create
<1>3. CASE ModelFits
  BY <1>3 DEF ModelFits
<1>4. CASE Resume
  BY <1>4 DEF Resume
<1>5. CASE Subscribe
  BY <1>5 DEF Subscribe
<1>6. CASE SendPrompt
  BY <1>6 DEF SendPrompt, Sends
<1>7. CASE PromptStarted
  BY <1>7 DEF PromptStarted
<1>8. CASE Register
  BY <1>8 DEF Register
<1>9. CASE StartLocks
  BY <1>9 DEF StartLocks
<1> QED
  BY <1>1, <1>2, <1>3, <1>4, <1>5, <1>6, <1>7, <1>8, <1>9 DEF StartStep

\* Steps of a delivery, by the start or by the monitor.
LEMMA GateDeliver ==
    ASSUME TurnInv, GateInv,
           NEW t \in {"START", "MONITOR"}, DeliverStep(t)
    PROVE  GateInv'
<1> USE DEF TurnInv, TurnTypes, GateInv, RowTypes, Early, Starting, Held, Closed, Judged,
            CompletedLeavesNothing, Threads, Phases, MoveTo, runtime, row, start
<1>1. CASE NoMessage(t)
  BY <1>1 DEF NoMessage, BackToLook
<1>2. CASE ClaimMessage(t)
  <2>1. queued' \in Nat /\ life.phase = "RUNNING" /\ result = "NONE"
    BY <1>2 DEF ClaimMessage
  <2>2. at["MONITOR"] # "FINISH" /\ (at["MONITOR"] = "DELIVER" => t = "MONITOR")
    BY <1>2 DEF ClaimMessage
  <2>3. at' = [at EXCEPT ![t] = "CLAIMED"] /\ at[t] = "DELIVER"
        /\ UNCHANGED <<op, seen, life, stopAsked, asked, result>>
    BY <1>2 DEF ClaimMessage
  <2> QED
    BY <2>1, <2>2, <2>3
<1>3. CASE SendMessage(t)
  BY <1>3 DEF SendMessage, Sends
<1>4. CASE Delivered(t)
  BY <1>4 DEF Delivered, BackToLook
<1>5. CASE DeliverFails(t)
  BY <1>5 DEF DeliverFails, Ends
<1> QED
  BY <1>1, <1>2, <1>3, <1>4, <1>5 DEF DeliverStep

\* Steps of the monitor.
LEMMA GateMonitor ==
    ASSUME TurnInv, GateInv, MonitorStep
    PROVE  GateInv'
<1> USE DEF TurnInv, TurnTypes, GateInv, RowTypes, Early, Starting, Held, Closed, Judged,
            CompletedLeavesNothing, Threads, Phases, MoveTo, runtime, row, start
<1>1. CASE Look
  BY <1>1 DEF Look, Snapshots, Boundaries
<1>2. CASE MonitorLocks
  BY <1>2 DEF MonitorLocks
<1>3. CASE Recheck
  BY <1>3 DEF Recheck
<1>4. CASE Admit
  BY <1>4 DEF Admit, Defer, Ready
<1>5. CASE Finish
  BY <1>5 DEF Finish, Ends, Snapshots, Boundaries
<1> QED
  BY <1>1, <1>2, <1>3, <1>4, <1>5 DEF MonitorStep

\* Steps of the stopping thread.
LEMMA GateStop ==
    ASSUME TurnInv, GateInv, StopperStep \/ StopWrite \/ CloseWrite
    PROVE  GateInv'
<1> USE DEF TurnInv, TurnTypes, GateInv, RowTypes, Early, Starting, Held, Closed, Judged,
            CompletedLeavesNothing, Threads, Phases, MoveTo, runtime, row, start
<1>1. CASE CloseGate
  BY <1>1 DEF CloseGate, Requested
<1>2. CASE StopLocks
  BY <1>2 DEF StopLocks
<1>3. CASE StopTimeout
  BY <1>3 DEF StopTimeout, Ends
<1>4. CASE StopSnapshot
  BY <1>4 DEF StopSnapshot
<1>5. CASE StopRequest
  BY <1>5 DEF StopRequest, Requested, AcknowledgedOrForced, Acknowledges, Acknowledged,
         Forced
<1>6. CASE StopTurn
  BY <1>6 DEF StopTurn, AcknowledgedOrForced, Acknowledges, Acknowledged, Forced
<1>7. CASE StopBoundary
  BY <1>7 DEF StopBoundary, AcknowledgedOrForced, Acknowledges, Acknowledged, Forced
<1>8. CASE StopTurnFails
  BY <1>8 DEF StopTurnFails, Forced
<1>9. CASE StopFinish
  BY <1>9 DEF StopFinish, Ends
<1>10. CASE StopWrite
  BY <1>10 DEF StopWrite, Forced
<1>11. CASE CloseSession \/ CloseWrite
  BY <1>11 DEF CloseSession, CloseWrite
<1> QED
  BY <1>1, <1>2, <1>3, <1>4, <1>5, <1>6, <1>7, <1>8, <1>9, <1>10, <1>11 DEF StopperStep

\* Steps of callers and of the runtime.
LEMMA GateOther ==
    ASSUME TurnInv, GateInv,
           \/ QueueCheck \/ QueueInsert \/ AskStop
           \/ TurnStarts \/ TurnEnds \/ Ask \/ Answer \/ AnswerFails
    PROVE  GateInv'
<1> USE DEF TurnInv, TurnTypes, GateInv, RowTypes, Early, Starting, Held, Closed, Judged,
            CompletedLeavesNothing, Threads, Phases, MoveTo, runtime, row, start
<1>1. CASE QueueCheck
  BY <1>1 DEF QueueCheck
<1>2. CASE QueueInsert
  <2>1. queued' \in Nat /\ (stopAsked \/ result # "NONE" => queued' = queued)
    BY <1>2 DEF QueueInsert
  <2>2. at["MONITOR"] \notin {"RECHECK", "ADMIT", "DELIVER", "CLAIMED", "SENT", "FINISH"}
    BY <1>2 DEF QueueInsert
  <2>3. at' = [at EXCEPT !["CALLER"] = "IDLE"] /\ op' = "FREE" /\ op = "CALLER"
        /\ UNCHANGED <<seen, life, stopAsked, asked, result>>
    BY <1>2 DEF QueueInsert
  <2>4. RowTypes' /\ Early' /\ Held' /\ Closed' /\ Judged'
    BY <2>1, <2>2, <2>3
  <2>5. CompletedLeavesNothing'
    BY <2>1, <2>3
  <2> QED
    BY <2>4, <2>5
<1>3. CASE AskStop
  BY <1>3 DEF AskStop
<1>4. CASE TurnStarts
  BY <1>4 DEF TurnStarts
<1>5. CASE TurnEnds
  BY <1>5 DEF TurnEnds
<1>6. CASE Ask
  BY <1>6 DEF Ask
<1>7. CASE Answer
  BY <1>7 DEF Answer
<1>8. CASE AnswerFails
  BY <1>8 DEF AnswerFails, Ends
<1> QED
  BY <1>1, <1>2, <1>3, <1>4, <1>5, <1>6, <1>7, <1>8

LEMMA GateInit == TurnInit => GateInv
<1> SUFFICES ASSUME TurnInit PROVE GateInv
  OBVIOUS
<1>1. /\ at = [t \in Threads |-> at[t]]
      /\ at["MONITOR"] = "IDLE" /\ at["CALLER"] = "IDLE" /\ at["STOPPER"] = "IDLE"
      /\ at["START"] \in {"CREATE", "RESUME"}
  BY DEF TurnInit, Threads
<1>2. queued \in Nat /\ stopAsked = FALSE /\ asked = FALSE /\ result = "NONE"
      /\ life.phase = "RUNNING"
  BY DEF TurnInit
<1> QED
  BY <1>1, <1>2 DEF GateInv, RowTypes, Early, Starting, Held, Closed, Judged,
                    CompletedLeavesNothing

LEMMA GateStep == TurnInv /\ GateInv /\ [TurnNext]_turnVars => GateInv'
<1> SUFFICES ASSUME TurnInv, GateInv, [TurnNext]_turnVars PROVE GateInv'
  OBVIOUS
<1>1. CASE UNCHANGED turnVars
  BY <1>1 DEF turnVars, GateInv, RowTypes, Early, Held, Closed, Judged, CompletedLeavesNothing
<1>2. CASE TurnNext
  BY <1>2, GateStart, GateDeliver, GateMonitor, GateStop, GateOther DEF TurnNext
<1> QED
  BY <1>1, <1>2

\* A run that completes leaves no accepted message and no open request behind, however
\* many messages are accepted while its turns end.
THEOREM NothingLeftBehind == ASSUME TurnsAssumption PROVE TurnSpec => []CompletedLeavesNothing
<1>1. GateInv => CompletedLeavesNothing
  BY DEF GateInv
<1> QED
  BY <1>1, TurnsBegin, TurnStep, GateInit, GateStep, PTL DEF TurnSpec
=============================================================================
