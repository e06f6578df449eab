---------------------------- MODULE TurnControl -----------------------------
(***************************************************************************)
(* The session and the turns of one runtime (crates/zcode-agentd/src/      *)
(* lib.rs): how the session is created or resumed, the TurnTracker, the    *)
(* messages the monitor delivers when a turn has ended, and the            *)
(* cooperative stop, with the RuntimeLifecycle and the operation mutex     *)
(* that hold them together.                                                *)
(*                                                                         *)
(* The process lives until the daemon stops it; its own exit, and a cancel *)
(* that races the registration, are in Scheduler and RuntimeOwner.         *)
(* The row of the task is its stop flag and its result, its messages are a *)
(* number, its open requests a flag.                                       *)
(***************************************************************************)
EXTENDS Naturals

CONSTANTS
    MaxTurns,       \* bound on the turns of the runtime
    MaxMessages     \* bound on the messages of the callers

TurnsAssumption == MaxTurns \in Nat /\ MaxMessages \in Nat

VARIABLES
    at,         \* where each thread is
    op,         \* holder of the operation mutex
    seen,       \* the TurnSnapshot each thread works with
    handled,    \* handled_generation of the monitor
    resumed,    \* the task has a session from an earlier run
    session,    \* the session: created, known (diagnostic), subscribed, registered
    active,     \* the runtime is in the scheduler's active map
    turn,       \* the TurnTracker
    ends,       \* how each turn ended
    life,       \* the RuntimeLifecycle: phase, turn_generation, observed_boundary
    stopAsked,  \* tasks.stop_requested
    queued,     \* messages that wait
    accepted,   \* messages accepted so far
    asked,      \* the task has an open request
    result      \* how the run ended

turnVars == <<at, op, seen, handled, resumed, session, active, turn, ends, life, stopAsked,
              queued, accepted, asked, result>>
runtime == <<turn, ends>>
row == <<stopAsked, queued, accepted, asked, result>>
start == <<resumed, session, active>>

Threads == {"START", "MONITOR", "CALLER", "STOPPER"}
NoTurn == [gen |-> 0, active |-> FALSE, boundary |-> "NONE"]

TurnInit ==
    /\ resumed \in BOOLEAN
    /\ at = [t \in Threads |-> IF t # "START" THEN "IDLE"
                               ELSE IF resumed THEN "RESUME" ELSE "CREATE"]
    /\ op = "FREE"
    /\ seen = [t \in Threads |-> NoTurn]
    /\ handled = 0
    /\ session = {}
    /\ active = FALSE
    /\ turn = NoTurn
    /\ ends = [n \in 1 .. MaxTurns |-> "NONE"]
    /\ life = [phase |-> "RUNNING", gen |-> 0, boundary |-> "NONE"]
    /\ stopAsked = FALSE
    /\ queued = IF resumed THEN 1 ELSE 0
    /\ accepted = 0
    /\ asked = FALSE
    /\ result = "NONE"

-----------------------------------------------------------------------------
(***************************************************************************)
(* The runtime, as the pump reports it to TurnTracker::observe             *)
(***************************************************************************)

\* turn.started, of a turn that was asked for or not, even over another turn.
TurnStarts ==
    /\ turn.gen < MaxTurns
    /\ "subscribed" \in session
    /\ turn' = [gen |-> turn.gen + 1, active |-> TRUE, boundary |-> "NONE"]
    /\ UNCHANGED <<at, op, seen, handled, start, ends, life, row>>

\* turn.completed and turn.failed, which count for an active turn only.
TurnEnds ==
    /\ turn.active
    /\ \E b \in {"COMPLETED", "FAILED"} :
          /\ turn' = [turn EXCEPT !.active = FALSE, !.boundary = b]
          /\ ends' = [ends EXCEPT ![turn.gen] = b]
    /\ UNCHANGED <<at, op, seen, handled, start, life, row>>

\* A permission request passes the gate (admit_event) and becomes a row.
Ask ==
    /\ life.phase = "RUNNING"
    /\ active /\ turn.active /\ ~stopAsked
    /\ asked' = TRUE
    /\ UNCHANGED <<at, op, seen, handled, start, runtime, life, stopAsked, queued, accepted,
                   result>>

\* respond_request holds the operation mutex from its look at the gate to the end; it is
\* taken as one step (Interaction has it in detail).
Answer ==
    /\ asked /\ active /\ op = "FREE"
    /\ life.phase = "RUNNING" /\ ~stopAsked
    /\ asked' = FALSE
    /\ UNCHANGED <<at, op, seen, handled, start, runtime, life, stopAsked, queued, accepted,
                   result>>

-----------------------------------------------------------------------------
(***************************************************************************)
(* RuntimeLifecycle                                                        *)
(***************************************************************************)

MoveTo(t, place) == at' = [at EXCEPT ![t] = place]

\* request_stop.
Requested(l, snapshot) ==
    IF l.phase = "RUNNING" THEN [l EXCEPT !.phase = "STOP_REQUESTED", !.gen = snapshot.gen] ELSE l

\* Mutant of Acknowledges: any turn that has ended will do.
AcknowledgesAny(l, snapshot) ==
    /\ l.phase \in {"STOP_REQUESTED", "STOP_ACKNOWLEDGED"}
    /\ ~snapshot.active /\ snapshot.boundary # "NONE"

\* acknowledge_boundary holds of a snapshot.
Acknowledges(l, snapshot) ==
    /\ l.phase \in {"STOP_REQUESTED", "STOP_ACKNOWLEDGED"}
    /\ snapshot.gen = l.gen
    /\ ~snapshot.active /\ snapshot.boundary # "NONE"

Acknowledged(l, snapshot) ==
    [l EXCEPT !.phase = "STOP_ACKNOWLEDGED", !.boundary = snapshot.boundary]

\* force_terminating.
Forced(l) ==
    IF l.phase \in {"FORCE_TERMINATING", "TERMINAL"} THEN l
    ELSE [l EXCEPT !.phase = "FORCE_TERMINATING"]

\* acknowledge_boundary, or force_terminating where it fails.
AcknowledgedOrForced(l, snapshot) ==
    IF Acknowledges(l, snapshot) THEN Acknowledged(l, snapshot) ELSE Forced(l)

\* finish_routed_terminal, unless another thread was first, and release_active.
Ends(outcome) ==
    /\ result' = IF result # "NONE" THEN result ELSE IF stopAsked THEN "CANCELLED" ELSE outcome
    /\ life' = [life EXCEPT !.phase = "TERMINAL"]
    /\ active' = FALSE

-----------------------------------------------------------------------------
(***************************************************************************)
(* Start of the session                                                    *)
(***************************************************************************)

\* The start gives up: the process is stopped and the task ends.
StartFails ==
    /\ at["START"] \in {"CREATE", "RESUME", "MODEL", "SUBSCRIBE", "PROMPT", "PROMPTED"}
    /\ MoveTo("START", "FAILED")
    /\ session' = IF at["START"] = "RESUME" THEN session \cup {"known"} ELSE session
    /\ Ends("FAILED")
    /\ UNCHANGED <<op, seen, handled, resumed, runtime, stopAsked, queued, accepted, asked>>

\* session/create is answered; the session is kept for diagnosis from here.
Create ==
    /\ at["START"] = "CREATE"
    /\ session' = session \cup {"created", "known"}
    /\ MoveTo("START", "MODEL")
    /\ UNCHANGED <<op, seen, handled, resumed, active, runtime, life, row>>

\* validate_requested_model holds of the answer.
ModelFits ==
    /\ at["START"] = "MODEL"
    /\ MoveTo("START", "SUBSCRIBE")
    /\ UNCHANGED <<op, seen, handled, start, runtime, life, row>>

\* session/resume, of the session the task was left with.
Resume ==
    /\ at["START"] = "RESUME"
    /\ session' = session \cup {"created", "known"}
    /\ MoveTo("START", "SUBSCRIBE")
    /\ UNCHANGED <<op, seen, handled, resumed, active, runtime, life, row>>

\* session/subscribe is answered: commands are accepted for the session.
Subscribe ==
    /\ at["START"] = "SUBSCRIBE"
    /\ session' = session \cup {"subscribed", "registered"}
    /\ MoveTo("START", IF resumed THEN "REGISTER" ELSE "PROMPT")
    /\ UNCHANGED <<op, seen, handled, resumed, active, runtime, life, row>>

\* send_turn_before: the generation is read before the request is made.
Sends(t, place) ==
    /\ "registered" \in session
    /\ seen' = [seen EXCEPT ![t] = turn]
    /\ MoveTo(t, place)

\* wait_started_after.
Started(t) == turn.gen > seen[t].gen

SendPrompt ==
    /\ at["START"] = "PROMPT"
    /\ Sends("START", "PROMPTED")
    /\ UNCHANGED <<op, handled, start, runtime, life, row>>

PromptStarted ==
    /\ at["START"] = "PROMPTED" /\ Started("START")
    /\ MoveTo("START", "REGISTER")
    /\ UNCHANGED <<op, seen, handled, start, runtime, life, row>>

\* The runtime becomes visible to callers; a resumed one gets its message first.
Register ==
    /\ at["START"] = "REGISTER"
    /\ active' = TRUE
    /\ at' = IF resumed THEN [at EXCEPT !["START"] = "LOCK"]
             ELSE [at EXCEPT !["START"] = "DONE", !["MONITOR"] = "LOOK"]
    /\ UNCHANGED <<op, seen, handled, resumed, session, runtime, life, row>>

StartLocks ==
    /\ at["START"] = "LOCK" /\ op = "FREE"
    /\ op' = "START"
    /\ MoveTo("START", "DELIVER")
    /\ UNCHANGED <<seen, handled, start, runtime, life, row>>

-----------------------------------------------------------------------------
(***************************************************************************)
(* deliver_next_message, by the start or by the monitor                    *)
(***************************************************************************)

\* Back to where the monitor looks for the next turn, which the start begins.
BackToLook ==
    /\ op' = "FREE"
    /\ at' = IF at["START"] # "DONE"
               THEN [at EXCEPT !["START"] = "DONE", !["MONITOR"] = "LOOK"]
               ELSE [at EXCEPT !["MONITOR"] = "LOOK"]

\* Nothing to deliver: the monitor ends the run, the start is done.
NoMessage(t) ==
    /\ at[t] = "DELIVER" /\ life.phase = "RUNNING" /\ queued = 0
    /\ IF t = "MONITOR" THEN MoveTo(t, "FINISH") /\ UNCHANGED op ELSE BackToLook
    /\ UNCHANGED <<seen, handled, start, runtime, life, row>>

ClaimMessage(t) ==
    /\ at[t] = "DELIVER" /\ life.phase = "RUNNING" /\ queued > 0
    /\ queued' = queued - 1
    /\ MoveTo(t, "CLAIMED")
    /\ UNCHANGED <<op, seen, handled, start, runtime, life, stopAsked, accepted, asked, result>>

SendMessage(t) ==
    /\ at[t] = "CLAIMED" /\ life.phase = "RUNNING"
    /\ Sends(t, "SENT")
    /\ UNCHANGED <<op, handled, start, runtime, life, row>>

\* complete_message, unless a stop has settled the message meanwhile.
Delivered(t) ==
    /\ at[t] = "SENT" /\ Started(t) /\ ~stopAsked
    /\ BackToLook
    /\ UNCHANGED <<seen, handled, start, runtime, life, row>>

\* The gate is closed, the request fails, no turn starts in time or the message was
\* settled by a stop: the run ends.
DeliverFails(t) ==
    /\ \/ at[t] = "DELIVER" /\ life.phase # "RUNNING"
       \/ at[t] \in {"CLAIMED", "SENT"}
    /\ Ends("FAILED")
    /\ op' = "FREE"
    /\ MoveTo(t, "FAILED")
    /\ UNCHANGED <<seen, handled, resumed, session, runtime, stopAsked, queued, accepted, asked>>

-----------------------------------------------------------------------------
(***************************************************************************)
(* The monitor                                                             *)
(***************************************************************************)

\* It sees that a turn has ended which it has not handled.
Look ==
    /\ at["MONITOR"] = "LOOK"
    /\ ~turn.active /\ turn.gen > handled /\ turn.boundary # "NONE"
    /\ seen' = [seen EXCEPT !["MONITOR"] = turn]
    /\ MoveTo("MONITOR", "LOCK")
    /\ UNCHANGED <<op, handled, start, runtime, life, row>>

MonitorLocks ==
    /\ at["MONITOR"] = "LOCK" /\ op = "FREE"
    /\ op' = "MONITOR"
    /\ MoveTo("MONITOR", "RECHECK")
    /\ UNCHANGED <<seen, handled, start, runtime, life, row>>

\* Under the mutex it looks again; a failed turn of a stopped run is the stopper's.
Recheck ==
    /\ at["MONITOR"] = "RECHECK"
    /\ IF seen["MONITOR"].boundary = "FAILED" /\ life.phase # "RUNNING"
         THEN MoveTo("MONITOR", "DONE") /\ op' = "FREE" /\ UNCHANGED handled
         ELSE IF turn # seen["MONITOR"]
         THEN MoveTo("MONITOR", "LOOK") /\ op' = "FREE" /\ UNCHANGED handled
         ELSE /\ handled' = turn.gen
              /\ MoveTo("MONITOR", IF turn.boundary = "COMPLETED" THEN "ADMIT" ELSE "DELIVER")
              /\ UNCHANGED op
    /\ UNCHANGED <<seen, start, runtime, life, row>>

\* Mutant of Defer: the turn counts as handled.
DeferHandled ==
    /\ life.phase = "RUNNING" /\ asked
    /\ MoveTo("MONITOR", "LOOK") /\ op' = "FREE"
    /\ UNCHANGED <<handled, life>>

\* An open request: the turn is looked at again later.
Defer ==
    /\ life.phase = "RUNNING" /\ asked
    /\ handled' = handled - 1
    /\ MoveTo("MONITOR", "LOOK") /\ op' = "FREE"
    /\ UNCHANGED life

\* Nothing is open: the gate closes with the same look.
Ready ==
    /\ life.phase = "RUNNING" /\ ~asked /\ queued = 0
    /\ life' = [life EXCEPT !.phase = "TERMINAL"]
    /\ MoveTo("MONITOR", "FINISH")
    /\ UNCHANGED <<handled, op>>

\* begin_natural_completion, in the lifecycle mutex.
Admit ==
    /\ at["MONITOR"] = "ADMIT"
    /\ \/ life.phase # "RUNNING" /\ MoveTo("MONITOR", "FINISH") /\ UNCHANGED <<handled, op, life>>
       \/ Defer
       \/ life.phase = "RUNNING" /\ ~asked /\ queued > 0 /\ MoveTo("MONITOR", "DELIVER")
            /\ UNCHANGED <<handled, op, life>>
       \/ Ready
    /\ UNCHANGED <<seen, start, runtime, row>>

\* finish_turn and finish_locked_monitor_terminal.
Finish ==
    /\ at["MONITOR"] = "FINISH"
    /\ Ends(seen["MONITOR"].boundary)
    /\ op' = "FREE"
    /\ MoveTo("MONITOR", "DONE")
    /\ UNCHANGED <<seen, handled, resumed, session, runtime, stopAsked, queued, accepted, asked>>

-----------------------------------------------------------------------------
(***************************************************************************)
(* queue_message and request_stop_or_close                                 *)
(***************************************************************************)

\* Mutant of QueueCheck: the gate is read without the operation mutex.
QueueCheckUnlocked ==
    /\ at["CALLER"] = "IDLE" /\ active /\ accepted < MaxMessages
    /\ life.phase = "RUNNING"
    /\ MoveTo("CALLER", "INSERT")
    /\ UNCHANGED <<op, seen, handled, start, runtime, life, row>>

\* A caller takes the operation mutex and passes the gate.
QueueCheck ==
    /\ at["CALLER"] = "IDLE" /\ active /\ accepted < MaxMessages
    /\ op = "FREE" /\ op' = "CALLER"
    /\ life.phase = "RUNNING"
    /\ MoveTo("CALLER", "INSERT")
    /\ UNCHANGED <<seen, handled, start, runtime, life, row>>

\* insert_message, which a stopped or ended task refuses.
QueueInsert ==
    /\ at["CALLER"] = "INSERT"
    /\ IF stopAsked \/ result # "NONE"
         THEN UNCHANGED <<queued, accepted>>
         ELSE queued' = queued + 1 /\ accepted' = accepted + 1
    /\ MoveTo("CALLER", "IDLE")
    /\ op' = IF op = "CALLER" THEN "FREE" ELSE op
    /\ UNCHANGED <<seen, handled, start, runtime, life, stopAsked, asked, result>>

\* request_stop in the store, which settles messages and requests.
AskStop ==
    /\ at["STOPPER"] = "IDLE" /\ active /\ result = "NONE"
    /\ stopAsked' = TRUE /\ queued' = 0 /\ asked' = FALSE
    /\ MoveTo("STOPPER", "CLOSE")
    /\ UNCHANGED <<op, seen, handled, start, runtime, life, accepted, result>>

\* The gate is closed before the mutex is taken, with a snapshot that may be old.
CloseGate ==
    /\ at["STOPPER"] = "CLOSING"
    /\ life' = Requested(life, seen["STOPPER"])
    /\ MoveTo("STOPPER", "LOCK")
    /\ UNCHANGED <<op, seen, handled, start, runtime, row>>

\* The mutex comes free: the runtime may be gone by then.
StopLocks ==
    /\ at["STOPPER"] = "LOCK" /\ op = "FREE"
    /\ IF active THEN op' = "STOPPER" /\ MoveTo("STOPPER", "REQUEST")
                 ELSE MoveTo("STOPPER", "DONE") /\ UNCHANGED op
    /\ UNCHANGED <<seen, handled, start, runtime, life, row>>

\* The control deadline passes: fail_closed_control ends the run without the mutex.
StopTimeout ==
    /\ at["STOPPER"] = "LOCK" /\ op # "FREE"
    /\ IF active THEN Ends("CANCELLED") ELSE UNCHANGED <<result, life, active>>
    /\ MoveTo("STOPPER", "DONE")
    /\ UNCHANGED <<op, seen, handled, resumed, session, runtime, stopAsked, queued, accepted,
                   asked>>

\* respond_request could not deliver the answer in time: the request stays open, and
\* fail_closed_control ends the run.
AnswerFails ==
    /\ asked /\ active /\ op = "FREE"
    /\ life.phase = "RUNNING" /\ ~stopAsked
    /\ Ends("FAILED")
    /\ UNCHANGED <<at, op, seen, handled, resumed, session, runtime, stopAsked, queued, accepted,
                   asked>>

\* turn_snapshot, for the gate and again at the begin of request_cooperative_stop.
StopSnapshot ==
    /\ at["STOPPER"] \in {"CLOSE", "REQUEST"}
    /\ seen' = [seen EXCEPT !["STOPPER"] = turn]
    /\ MoveTo("STOPPER", IF at["STOPPER"] = "CLOSE" THEN "CLOSING" ELSE "REQUESTED")
    /\ UNCHANGED <<op, handled, start, runtime, life, row>>

\* request_stop again, which keeps the turn of the first; a turn that has ended is
\* acknowledged, an active one stopped.
StopRequest ==
    /\ at["STOPPER"] = "REQUESTED"
    /\ LET snapshot == seen["STOPPER"]
           closed == Requested(life, snapshot)
       IN  IF snapshot.active
             THEN life' = closed /\ MoveTo("STOPPER", "TURN")
             ELSE life' = AcknowledgedOrForced(closed, snapshot) /\ MoveTo("STOPPER", "STOP")
    /\ UNCHANGED <<op, seen, handled, start, runtime, row>>

\* stop_turn: session/stop, unless the turn has just ended.
StopTurn ==
    /\ at["STOPPER"] = "TURN"
    /\ IF turn.active
         THEN /\ seen' = [seen EXCEPT !["STOPPER"] = turn]
              /\ MoveTo("STOPPER", "WRITE") /\ UNCHANGED life
         ELSE /\ life' = AcknowledgedOrForced(life, turn)
              /\ MoveTo("STOPPER", "STOP") /\ UNCHANGED seen
    /\ UNCHANGED <<op, handled, start, runtime, row>>

\* session/stop is written, or it cannot be.  Driver::send has no deadline: a runtime that
\* does not read may keep the stopper here, with the operation mutex, for ever.
StopWrite ==
    /\ at["STOPPER"] = "WRITE"
    /\ \/ MoveTo("STOPPER", "BOUNDARY") /\ UNCHANGED life
       \/ MoveTo("STOPPER", "STOP") /\ life' = Forced(life)
    /\ UNCHANGED <<op, seen, handled, start, runtime, row>>

\* wait_boundary_after: the boundary of this turn, or of a later one.
StopBoundary ==
    /\ at["STOPPER"] = "BOUNDARY"
    /\ turn.gen >= seen["STOPPER"].gen /\ ~turn.active /\ turn.boundary # "NONE"
    /\ life' = AcknowledgedOrForced(life, turn)
    /\ MoveTo("STOPPER", "STOP")
    /\ UNCHANGED <<op, seen, handled, start, runtime, row>>

\* Mutant of StopTurnFails: the wait for the boundary has no deadline.
StopTurnWaits ==
    /\ at["STOPPER"] = "TURN"
    /\ life' = Forced(life)
    /\ MoveTo("STOPPER", "STOP")
    /\ UNCHANGED <<op, seen, handled, start, runtime, row>>

\* No time is left, the request fails, or no boundary comes in time.
StopTurnFails ==
    /\ at["STOPPER"] \in {"REQUEST", "TURN", "BOUNDARY"}
    /\ life' = Forced(life)
    /\ MoveTo("STOPPER", "STOP")
    /\ UNCHANGED <<op, seen, handled, start, runtime, row>>

\* session/close, where it was asked for and time is left; it is written like session/stop,
\* and whether it fails is not looked at.
CloseSession ==
    /\ at["STOPPER"] = "STOP"
    /\ MoveTo("STOPPER", "CLOSE_WRITE")
    /\ UNCHANGED <<op, seen, handled, start, runtime, life, row>>

CloseWrite ==
    /\ at["STOPPER"] = "CLOSE_WRITE"
    /\ MoveTo("STOPPER", "CLOSED")
    /\ UNCHANGED <<op, seen, handled, start, runtime, life, row>>

\* The runtime is stopped and the task finished.
StopFinish ==
    /\ at["STOPPER"] \in {"STOP", "CLOSED"}
    /\ Ends("CANCELLED")
    /\ op' = "FREE"
    /\ MoveTo("STOPPER", "DONE")
    /\ UNCHANGED <<seen, handled, resumed, session, runtime, stopAsked, queued, accepted, asked>>

-----------------------------------------------------------------------------

StartStep ==
    \/ StartFails \/ Create \/ ModelFits \/ Resume \/ Subscribe
    \/ SendPrompt \/ PromptStarted \/ Register \/ StartLocks
DeliverStep(t) ==
    NoMessage(t) \/ ClaimMessage(t) \/ SendMessage(t) \/ Delivered(t) \/ DeliverFails(t)
MonitorStep == Look \/ MonitorLocks \/ Recheck \/ Admit \/ Finish
StopperStep ==
    \/ CloseGate \/ StopLocks \/ StopTimeout \/ StopSnapshot \/ StopRequest \/ StopTurn \/ StopBoundary
    \/ StopTurnFails \/ CloseSession \/ StopFinish

TurnNext ==
    \/ StartStep
    \/ \E t \in {"START", "MONITOR"} : DeliverStep(t)
    \/ MonitorStep
    \/ QueueCheck \/ QueueInsert
    \/ AskStop \/ StopperStep \/ StopWrite \/ CloseWrite
    \/ TurnStarts \/ TurnEnds \/ Ask \/ Answer \/ AnswerFails

TurnSpec == TurnInit /\ [][TurnNext]_turnVars

\* The threads of the daemon are scheduled, and their waits have deadlines.  Neither
\* the runtime nor a caller owes anything, so a write of the stopper to the runtime may
\* never return; those of the start and of the delivery of a message are taken to.
TurnFairSpec ==
    /\ TurnSpec
    /\ WF_turnVars(StartStep) /\ WF_turnVars(DeliverStep("START")) /\ WF_turnVars(DeliverStep("MONITOR"))
    /\ WF_turnVars(MonitorStep) /\ WF_turnVars(QueueInsert) /\ WF_turnVars(StopperStep)

-----------------------------------------------------------------------------
(***************************************************************************)
(* Properties                                                              *)
(***************************************************************************)

\* A stop is acknowledged by the end of the turn it was meant for, and records how
\* that turn ended, although the runtime may start turns over it meanwhile.
AcknowledgedTurn ==
    life.phase = "STOP_ACKNOWLEDGED"
      => life.gen > 0 /\ life.boundary # "NONE" /\ life.boundary = ends[life.gen]

\* A run that completes leaves no accepted message and no open request behind.
CompletedLeavesNothing == result = "COMPLETED" => queued = 0 /\ ~asked

\* The stopper hangs in a write to a runtime that does not read.
WriteHangs == at["STOPPER"] \in {"WRITE", "CLOSE_WRITE"}

\* A turn that has ended, with nothing open, is followed by the next message or by the
\* end of the run, also after a request had held it up, unless a stopper hangs and keeps
\* the operation mutex.
EndedTurnHandled ==
    \/ <>[]WriteHangs
    \/ (at["MONITOR"] = "LOOK" /\ ~turn.active /\ turn.boundary # "NONE" /\ ~asked)
         ~> (turn.active \/ asked \/ result # "NONE")

\* A stop ends the run within its deadlines, whoever holds the operation mutex and whatever
\* turns the runtime starts or leaves open, unless its own write to the runtime hangs.
StopEndsRun == <>[]WriteHangs \/ (stopAsked ~> result # "NONE")
=============================================================================
