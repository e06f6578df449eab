------------------------ MODULE MCSchedulerScenarios ------------------------
(***************************************************************************)
(* Scheduler in five scenarios, each with the callers and inputs that make *)
(* its own cases happen: all of them together are too many for one         *)
(* instance, and each alone would be an instance of its own.               *)
(***************************************************************************)
EXTENDS MCScheduler

VARIABLE scenario   \* fixed by the initial state

mcVars == <<allVars, scenario>>

Quiet(t) == pc[t] = "IDLE"
Unused(messages) == \A m \in messages : messageState[m] = "ABSENT"
TwoTasks == nextId > FirstId + 1
Submitted(tasks) == \A a \in Agents \ tasks : phase[a] = "ABSENT"

\* CANCEL: tasks that compete for a workspace, and one canceller.  END: one task with
\* two messages and two cancellers.  RESUME: one task, resumed by a message while
\* another is queued.  CRASH: one task with a message and a canceller in a daemon that
\* crashes.  ROUTE: the damaged task and a canceller.  Messages come in the order of
\* their names, which stand for no order.
Within ==
    /\ ~Unused({m2}) => ~Unused({m1})
    /\ scenario # "RESUME" => \A t \in Resumers : Quiet(t)
    /\ scenario = "RESUME" => \A t \in Cancellers : Quiet(t)
    /\ scenario # "END" => Quiet(canceller2)
    /\ scenario # "CRASH" => crashes = 0
    /\ scenario = "END" => nextId <= FirstId + 1
    /\ scenario \in {"CANCEL", "RESUME", "CRASH"} => nextId <= FirstId + 2
    /\ TwoTasks /\ scenario = "RESUME"
         => Unused({m2}) /\ restored # {} /\ outcome[FirstId] = "COMPLETED"
    /\ TwoTasks /\ scenario = "CRASH"
         => Unused(Messages) /\ crashes <= 1 /\ \A t \in Cancellers : Quiet(t)
    /\ scenario = "ROUTE" => Submitted(Damaged)
    /\ scenario \in {"CANCEL", "ROUTE"} => Unused(Messages)
    /\ scenario = "CRASH" => Unused({m2})

MCInit == SchedInit /\ scenario \in {"CANCEL", "END", "RESUME", "CRASH", "ROUTE"}
MCStep(A) == UNCHANGED scenario /\ A /\ Within'
MCNext == MCStep(SchedNext)

\* The fairness of the daemon (DaemonFairness) for scenario END, whose only runtime is
\* FirstRun, and that its turn ends at some time.  Nothing is promised of the other
\* scenarios, which are there for the safety properties.
FirstRun == <<FirstId, 1>>
Ending(A) == scenario = "END" /\ MCStep(A)

MCFairness ==
    /\ WF_mcVars(Ending(StarterStep(Loop)))
    /\ \A t \in {Loop, FirstRun} \cup Cancellers : WF_mcVars(Ending(CommonStep(t)))
    /\ \A t \in Cancellers : WF_mcVars(Ending(CancelStep(t)))
    /\ WF_mcVars(Ending(MonitorStep(FirstRun)))
    /\ WF_mcVars(Ending(ObserveTerminal(FirstRun) \/ ObserveCompleted(FirstRun) \/ ObserveFailed(FirstRun)))

MCSpec == MCInit /\ [][MCNext]_mcVars /\ MCFairness

\* The deadline of a delivery ran out between claim and send while the queue of an
\* exited runtime was drained: the message stays SENDING and the monitor waits for it.
Stuck(rt) ==
    /\ pc[rt] = "WATCHING" /\ Draining(rt)
    /\ \E m \in OpenMessages(rt[1]) : messageState[m] = "SENDING"

\* A task that was admitted ends, whatever two callers cancel or close while it is
\* started, is sent messages, completes or fails, and whichever start fails; unless it
\* gets stuck on a message that nobody will send or fail any more.
EveryTaskEnds ==
    scenario = "END" /\ Busy(FirstId) ~> phase[FirstId] = "TERMINAL" \/ Stuck(FirstRun)
=============================================================================
