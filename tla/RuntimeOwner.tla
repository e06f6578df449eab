---------------------------- MODULE RuntimeOwner ----------------------------
(***************************************************************************)
(* RuntimeOwner (crates/zcode-agentd/src/lib.rs): the event pump reads     *)
(* what the driver receives, keeps the turn tracker and hands every event  *)
(* to the lifecycle sink through the publisher; any number of threads      *)
(* finish the process; the publisher lets one terminal through.            *)
(*                                                                         *)
(* The driver is seen through its promises: stop_and_reap leaves an empty  *)
(* group or fails, as it must where the leader had left descendants        *)
(* (DriverStop), and the exit of the child arrives behind its output       *)
(* (DriverRequests).  The sink is called under the publisher's  *)
(* mutex, so the records are numbered in the order they are emitted: their *)
(* sequence number is their place in emitted.                              *)
(***************************************************************************)
EXTENDS Naturals, Sequences, FiniteSets, SequencesExt

CONSTANTS
    Finishers,      \* threads that call finish_turn or stop
    Senders,        \* threads in send_turn
    Stoppers,       \* threads in stop_turn
    Dropper,        \* the thread that drops the owner
    MaxEvents       \* bound on the events a runtime sends

EventsAssumption == MaxEvents \in Nat

Ending == Finishers \cup {Dropper}
Commands == Senders \cup Stoppers
Boundary == {"COMPLETED", "FAILED_TURN"}
Clean == Boundary \cup {"STOPPED"}
NoTerminal == "NONE"

VARIABLES
    group,      \* the runtime: UP, ORPHANS (leader gone, descendants left), EMPTY
    code,       \* how its leader ended: NONE, ZERO, OTHER
    queue,      \* events the driver has for the pump
    sent,       \* events the runtime ever sent
    pump,       \* POLL, REPLY, EMIT, DONE
    turn,       \* TurnTracker: generation, active, boundary
    owner,      \* RUNNING, STOPPING, TERMINAL
    terminal,   \* the terminal of the owner
    exitSeen,   \* exit_boundary_delivered
    emitted,    \* records the sink received
    pc,         \* where a finishing thread is
    want,       \* the turn boundary it finishes with, or STOPPED
    ret,        \* the terminal it returned
    cmd,        \* where a turn command is
    mark,       \* the generation it started from
    dropped     \* NO, OWNER: only pump and driver are left; the driver went and its
                \* stop succeeded (STOPPED) or not (FAILED)

process == <<group, code>>
publisher == <<owner, terminal, exitSeen, emitted>>
finishers == <<pc, want, ret>>
commands == <<cmd, mark>>
vars == <<group, code, queue, sent, pump, turn, owner, terminal, exitSeen, emitted,
          pc, want, ret, cmd, mark, dropped>>

Init ==
    /\ group = "UP" /\ code = "NONE"
    /\ queue = <<>> /\ sent = 0 /\ pump = "POLL"
    /\ turn = [generation |-> 0, active |-> FALSE, boundary |-> "NONE"]
    /\ owner = "RUNNING" /\ terminal = NoTerminal
    /\ exitSeen = FALSE /\ emitted = <<>>
    /\ pc = [f \in Ending |-> "IDLE"]
    /\ want = [f \in Ending |-> "STOPPED"]
    /\ ret = [f \in Ending |-> NoTerminal]
    /\ cmd = [s \in Commands |-> "IDLE"]
    /\ mark = [s \in Commands |-> 0]
    /\ dropped = "NO"

-----------------------------------------------------------------------------
(***************************************************************************)
(* The runtime behind the driver                                           *)
(***************************************************************************)

RuntimeEvent == {"turn.started", "turn.completed", "turn.failed", "preferences"}

Emits(e) ==
    /\ group = "UP" /\ sent < MaxEvents
    /\ queue' = Append(queue, e)
    /\ sent' = sent + 1
    /\ UNCHANGED <<process, pump, turn, publisher, finishers, commands, dropped>>

\* The leader exits by itself; it may leave descendants.
Exits ==
    /\ group = "UP"
    /\ group' \in {"ORPHANS", "EMPTY"}
    /\ code' \in {"ZERO", "OTHER"}
    /\ UNCHANGED <<queue, sent, pump, turn, publisher, finishers, commands, dropped>>

OrphansExit ==
    /\ group = "ORPHANS"
    /\ group' = "EMPTY"
    /\ UNCHANGED <<code, queue, sent, pump, turn, publisher, finishers, commands, dropped>>

\* The child monitor reports the exit behind all output.
ReportsExit ==
    /\ code # "NONE"
    /\ ~Contains(queue, "exited") /\ pump # "DONE" /\ ~exitSeen
    /\ queue' = Append(queue, "exited")
    /\ UNCHANGED <<process, sent, pump, turn, publisher, finishers, commands, dropped>>

-----------------------------------------------------------------------------
(***************************************************************************)
(* The publisher                                                           *)
(***************************************************************************)

\* publish_terminal: the first terminal stays, later ones are dropped.
PublishTerminal(t) ==
    IF owner = "TERMINAL"
      THEN UNCHANGED <<owner, terminal, emitted>>
      ELSE /\ owner' = "TERMINAL"
           /\ terminal' = t
           /\ emitted' = Append(emitted, t)

\* Mutant of EmitDriver: events are emitted behind the terminal.
EmitDriverAlways(e, exitTerminal) ==
    /\ exitSeen' = (exitSeen \/ e = "exited")
    /\ IF e = "exited" /\ owner = "RUNNING"
         THEN /\ owner' = "TERMINAL"
              /\ terminal' = exitTerminal
              /\ emitted' = emitted \o <<e, exitTerminal>>
         ELSE emitted' = Append(emitted, e) /\ UNCHANGED <<owner, terminal>>

\* emit_driver: nothing behind a terminal; the exit ends an owner nobody is stopping.
EmitDriver(e, exitTerminal) ==
    IF owner = "TERMINAL"
      THEN UNCHANGED publisher
      ELSE /\ exitSeen' = (exitSeen \/ e = "exited")
           /\ IF e = "exited" /\ owner = "RUNNING"
                THEN /\ owner' = "TERMINAL"
                     /\ terminal' = exitTerminal
                     /\ emitted' = emitted \o <<e, exitTerminal>>
                ELSE emitted' = Append(emitted, e) /\ UNCHANGED <<owner, terminal>>

-----------------------------------------------------------------------------
(***************************************************************************)
(* The event pump                                                          *)
(***************************************************************************)

\* TurnTracker::observe: a boundary counts only for the turn that is active.
Observed(e) ==
    IF e = "turn.started"
      THEN [generation |-> turn.generation + 1, active |-> TRUE, boundary |-> "NONE"]
    ELSE IF e = "turn.completed" /\ turn.active
      THEN [turn EXCEPT !.active = FALSE, !.boundary = "COMPLETED"]
    ELSE IF e = "turn.failed" /\ turn.active
      THEN [turn EXCEPT !.active = FALSE, !.boundary = "FAILED_TURN"]
    ELSE turn

\* recv_timeout; a request for preferences is answered first.
Take ==
    /\ pump = "POLL" /\ queue # <<>>
    /\ IF Head(queue) = "preferences"
         THEN pump' = "REPLY" /\ UNCHANGED turn
         ELSE pump' = "EMIT" /\ turn' = Observed(Head(queue))
    /\ UNCHANGED <<process, queue, sent, publisher, finishers, commands, dropped>>

\* Driver::send has no deadline: a runtime that does not read may keep the pump here.
Reply ==
    /\ pump = "REPLY" /\ group # "EMPTY"
    /\ pump' = "EMIT"
    /\ UNCHANGED <<process, queue, sent, turn, publisher, finishers, commands, dropped>>

\* The answer cannot be written: the pump publishes a lost runtime and ends, and it
\* does not stop the process.
ReplyFails ==
    /\ pump = "REPLY"
    /\ PublishTerminal("LOST_STREAM")
    /\ pump' = "DONE"
    /\ UNCHANGED <<process, queue, sent, turn, exitSeen, finishers, commands, dropped>>

\* Mutant of ExitTerminal: the group is not looked at.
ExitTerminalUnobserved ==
    IF code = "ZERO" THEN IF ~turn.active /\ turn.boundary = "COMPLETED"
                            THEN "COMPLETED" ELSE "LOST_STREAM"
    ELSE "EXITED"

\* What the exit of the child means, given who is left and how the turn ended.
ExitTerminal ==
    IF group # "EMPTY" THEN "ORPHANED"
    ELSE IF code = "ZERO" THEN IF ~turn.active /\ turn.boundary = "COMPLETED"
                                 THEN "COMPLETED" ELSE "LOST_STREAM"
    ELSE "EXITED"

\* The event goes to the sink; the exit is the pump's last.
Emit ==
    /\ pump = "EMIT"
    /\ EmitDriver(Head(queue), ExitTerminal)
    /\ queue' = Tail(queue)
    /\ pump' = IF Head(queue) = "exited" THEN "DONE" ELSE "POLL"
    /\ UNCHANGED <<process, sent, turn, finishers, commands, dropped>>

\* shutdown_pump.
PumpShutdown ==
    /\ pump = "POLL" /\ dropped # "NO"
    /\ pump' = "DONE"
    /\ UNCHANGED <<process, queue, sent, turn, publisher, finishers, commands, dropped>>

-----------------------------------------------------------------------------
(***************************************************************************)
(* finish_process                                                          *)
(***************************************************************************)

Go(f, place) == pc' = [pc EXCEPT ![f] = place]
Returns(f, t) == ret' = [ret EXCEPT ![f] = t]

\* begin_stopping: an owner that has its terminal returns it.  Drop comes when no
\* other thread is inside the owner.
BeginStopping(f, boundary) ==
    /\ pc[f] = "IDLE"
    /\ f = Dropper => /\ boundary = "STOPPED"
                      /\ \A g \in Finishers : pc[g] \in {"IDLE", "DONE"}
                      /\ \A s \in Commands : cmd[s] \in {"IDLE", "OK", "ERROR"}
    /\ f # Dropper => pc[Dropper] = "IDLE"
    /\ boundary \in Boundary => turn.boundary = boundary
    /\ want' = [want EXCEPT ![f] = boundary]
    /\ IF owner = "TERMINAL"
         THEN Go(f, "DONE") /\ Returns(f, terminal) /\ UNCHANGED owner
         ELSE Go(f, "STOP") /\ owner' = "STOPPING" /\ UNCHANGED ret
    /\ UNCHANGED <<process, queue, sent, pump, turn, terminal, exitSeen, emitted,
                   commands, dropped>>

\* stop_and_reap succeeds: the group is gone.  Descendants of a leader that has exited
\* are not signalled.
GroupStopped ==
    /\ group # "ORPHANS" /\ group' = "EMPTY"
    /\ code' = IF code = "NONE" THEN "OTHER" ELSE code

\* stop_and_reap: the group is gone, or the attempt failed.
StopAndReap(f) ==
    /\ pc[f] = "STOP"
    /\ \/ /\ GroupStopped
          /\ Go(f, "BOUNDARY")
          /\ UNCHANGED want
       \/ /\ Go(f, "PUBLISH")
          /\ want' = [want EXCEPT ![f] = "STOP_FAILED"]
          /\ UNCHANGED process
    /\ UNCHANGED <<queue, sent, pump, turn, publisher, ret, commands, dropped>>

\* Mutant of WaitBoundary: the exit boundary is not waited for.
WaitNoBoundary(f) ==
    /\ pc[f] = "BOUNDARY"
    /\ Go(f, "PUBLISH")
    /\ UNCHANGED <<process, queue, sent, pump, turn, publisher, want, ret, commands, dropped>>

\* wait_for_exit_boundary: the exit is through, somebody else's terminal is, or the
\* wait times out.
WaitBoundary(f) ==
    /\ pc[f] = "BOUNDARY"
    /\ Go(f, "PUBLISH")
    /\ want' = [want EXCEPT ![f] = IF exitSeen THEN @
                                   ELSE IF owner = "TERMINAL" THEN terminal
                                   ELSE "LOST_STREAM"]
    /\ UNCHANGED <<process, queue, sent, pump, turn, publisher, ret, commands, dropped>>

\* Mutant of Publish: every finisher reports its own terminal.
PublishOwn(f) ==
    /\ pc[f] = "PUBLISH"
    /\ PublishTerminal(want[f])
    /\ Returns(f, want[f])
    /\ Go(f, "DONE")
    /\ UNCHANGED <<process, queue, sent, pump, turn, exitSeen, want, commands, dropped>>

\* The permission cache is cleared and the terminal published, if it is the first.
Publish(f) ==
    /\ pc[f] = "PUBLISH"
    /\ PublishTerminal(want[f])
    /\ Returns(f, terminal')
    /\ Go(f, "DONE")
    /\ UNCHANGED <<process, queue, sent, pump, turn, exitSeen, want, commands, dropped>>

\* The end of Drop, which tells the pump to leave.
Drop ==
    /\ pc[Dropper] = "DONE" /\ dropped = "NO"
    /\ dropped' = "OWNER"
    /\ UNCHANGED <<process, queue, sent, pump, turn, publisher, finishers, commands>>

\* Mutant of DriverDrop: dropping the driver leaves the process alone.
DriverDropNothing ==
    /\ dropped = "OWNER" /\ pump = "DONE"
    /\ dropped' = "STOPPED"
    /\ UNCHANGED <<process, queue, sent, pump, turn, publisher, finishers, commands>>

\* The driver goes with the last that holds it.  It tries to stop its process, and nobody
\* is told if it cannot.
DriverDrop ==
    /\ dropped = "OWNER" /\ pump = "DONE"
    /\ \/ GroupStopped /\ dropped' = "STOPPED"
       \/ dropped' = "FAILED" /\ UNCHANGED process
    /\ UNCHANGED <<queue, sent, pump, turn, publisher, finishers, commands>>

-----------------------------------------------------------------------------
(***************************************************************************)
(* Turn commands                                                           *)
(***************************************************************************)

Answers(s, place) == cmd' = [cmd EXCEPT ![s] = place]

\* send_turn and stop_turn look at the tracker before they ask the runtime.
CommandBegin(s) ==
    /\ cmd[s] = "IDLE" /\ pc[Dropper] = "IDLE"
    /\ mark' = [mark EXCEPT ![s] = turn.generation]
    /\ Answers(s, IF s \in Stoppers /\ ~turn.active THEN "OK" ELSE "ASKED")
    /\ UNCHANGED <<process, queue, sent, pump, turn, publisher, finishers, dropped>>

\* Mutant of CommandReady: send_turn waits for a turn that is active.
CommandReadyActive(s) ==
    IF s \in Senders THEN turn.active
    ELSE turn.generation >= mark[s] /\ ~turn.active /\ turn.boundary # "NONE"

\* wait_started_after and wait_boundary_after.
CommandReady(s) ==
    IF s \in Senders THEN turn.generation > mark[s]
    ELSE turn.generation >= mark[s] /\ ~turn.active /\ turn.boundary # "NONE"

CommandDone(s) ==
    /\ cmd[s] = "ASKED" /\ CommandReady(s)
    /\ Answers(s, "OK")
    /\ UNCHANGED <<process, queue, sent, pump, turn, publisher, finishers, mark, dropped>>

\* The request or the wait fails or runs out of time.
CommandFails(s) ==
    /\ cmd[s] = "ASKED"
    /\ Answers(s, "ERROR")
    /\ UNCHANGED <<process, queue, sent, pump, turn, publisher, finishers, mark, dropped>>

-----------------------------------------------------------------------------
PumpStep == Take \/ Emit \/ PumpShutdown \/ (group = "EMPTY" /\ ReplyFails)
FinishStep(f) == StopAndReap(f) \/ WaitBoundary(f) \/ Publish(f)

Next ==
    \/ \E e \in RuntimeEvent : Emits(e)
    \/ Exits \/ OrphansExit \/ ReportsExit
    \/ PumpStep \/ Reply \/ ReplyFails
    \/ \E f \in Ending :
          \/ \E boundary \in Clean : BeginStopping(f, boundary)
          \/ FinishStep(f)
    \/ Drop \/ DriverDrop
    \/ \E s \in Commands : CommandBegin(s) \/ CommandDone(s) \/ CommandFails(s)

Spec == Init /\ [][Next]_vars

\* Threads are scheduled; a turn, a runtime and its descendants may last for ever.  A
\* write to a runtime returns when nobody is left to read it, and otherwise need not.
FairSpec ==
    /\ Spec
    /\ WF_vars(PumpStep) /\ WF_vars(ReportsExit) /\ WF_vars(Drop) /\ WF_vars(DriverDrop)
    /\ \A f \in Ending : WF_vars(FinishStep(f))
    /\ \A s \in Commands : WF_vars(CommandDone(s))

-----------------------------------------------------------------------------
(***************************************************************************)
(* Properties                                                              *)
(***************************************************************************)

\* Exactly one terminal reaches the sink, as the last of its records, although the
\* pump and several finishers each bring their own.
TerminalOnceAndLast ==
    \A p \in 1 .. Len(emitted) :
        emitted[p] \in RuntimeEvent \cup {"exited"}
          \/ (p = Len(emitted) /\ owner = "TERMINAL" /\ emitted[p] = terminal)

\* All who finish a runtime are told the same terminal, the one in the event log.
FinishersAgree ==
    \A f \in Ending : ret[f] # NoTerminal => owner = "TERMINAL" /\ ret[f] = terminal

\* terminal_proves_process_group_reaped: what is taken for a proof is one.
TerminalProvesReaped == terminal \in Clean => group = "EMPTY"

\* A clean terminal stands behind the exit of the child in the event log, and so
\* behind everything the runtime said: no event is dropped as late.
CleanBehindExit ==
    terminal \in Clean =>
        /\ exitSeen
        /\ Len(emitted) > 1 /\ emitted[Len(emitted) - 1] = "exited"

\* A turn that begins and ends before its sender looks is not missed: the sender
\* returns although nothing further happens, and before any timeout.
FastTurnNotMissed ==
    \A s \in Senders :
        cmd[s] = "ASKED" /\ turn.generation > mark[s] ~> cmd[s] # "ASKED"

\* The group goes after its owner, also where the pump gave up on it without a stop,
\* unless the last stop failed.  What can last for ever besides is a pump that writes to a
\* runtime a finisher already failed to stop: it holds the driver.
DroppedMeansGone ==
    \/ <>[](pump = "REPLY" /\ terminal = "STOP_FAILED")
    \/ dropped # "NO" ~> group = "EMPTY" \/ dropped = "FAILED"
=============================================================================
