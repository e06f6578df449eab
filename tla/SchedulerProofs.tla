--------------------------- MODULE SchedulerProofs ---------------------------
(***************************************************************************)
(* What the scheduler guarantees for any number of tasks, callers and      *)
(* daemon crashes, while nobody resumes a finished task (Resumers = {}).   *)
(*                                                                         *)
(* The run resume_workspace shows what a resume breaks: a failed resume    *)
(* writes a copy of the old row back over a run that its own start_ready   *)
(* began, and the workspace is free while that run is still alive.         *)
(*                                                                         *)
(* The invariant follows custody of a run: claim loop, then monitor, then  *)
(* whoever ends it.  A thread gives its run up only when the run is over   *)
(* or another thread has begun to end it, and a runtime process lives only *)
(* while the task it was spawned for does.                                 *)
(***************************************************************************)
EXTENDS Scheduler, TaskStoreProofs

\* Where a thread of each kind can stand while nobody resumes a task.
LoopPlace == {"READY", "CLAIMED", "SPAWNED", "REGISTERED", "MARKED", "UNMARKED", "CLEANUP",
              "CLEANUP_STOP", "PERSIST", "RELEASE"}
MonitorPlace == {"IDLE", "WATCHING", "SENDING", "FINISH", "PERSIST", "RELEASE"}
CancellerPlace == {"IDLE", "REQUEST", "LOCK", "CLEANUP", "CLEANUP_STOP", "PERSIST", "RELEASE"}

\* From these a thread goes on to store a result.
EndingPlace == {"LOCK", "CLEANUP", "CLEANUP_STOP", "FINISH", "PERSIST"}

Job == [agent : Agents \cup {NoAgent}, epoch : {0, 1}, force : Outcome \cup {"NONE"},
        then : {"IDLE", "READY"}, message : Messages \cup {NoMessage}]

\* The only run of a task that is not resumed.
Run(a) == <<a, 1>>

SchedTypes ==
    /\ pc \in [Threads -> LoopPlace \cup MonitorPlace \cup CancellerPlace]
    /\ pc[Loop] \in LoopPlace
    /\ \A rt \in Runtimes : pc[rt] \in MonitorPlace
    /\ \A c \in Cancellers : pc[c] \in CancellerPlace
    /\ job \in [Threads -> Job]
    /\ active \in [Agents -> {0, 1}]
    /\ lifecycle \in [Runtimes -> {"RUNNING", "STOPPING", "TERMINAL"}]
    /\ live \subseteq Runtimes
    /\ crashes \in Nat

\* What a thread has prepared where it stands: the outcome it will store, the message
\* it sends, and where it goes in the end.
Prepared ==
    /\ \A t \in Threads : pc[t] \in EndingPlace => job[t].force \in Outcome
    /\ \A t \in Threads \ {Loop} : job[t].then = "IDLE"
    /\ pc[Loop] \in {"CLEANUP", "CLEANUP_STOP", "PERSIST", "RELEASE"} => job[Loop].then = "READY"
    /\ \A rt \in Runtimes : pc[rt] = "SENDING" => job[rt].message \in Messages

\* A task is claimed once; before that it has no runtime, and nobody has touched one.
Epochs ==
    \A a \in Agents :
        /\ ownerEpoch[a] \in {0, 1} /\ ownerEpoch[a] <= MaxEpoch
        /\ phase[a] \in {"ABSENT", "QUEUED"} => ownerEpoch[a] = 0
        /\ active[a] = 1 => ownerEpoch[a] = 1
        /\ ownerEpoch[a] = 0 /\ 1 <= MaxEpoch => lifecycle[Run(a)] = "RUNNING"

\* Whose run a thread works on.  The claim loop works on a run that has no monitor.
LoopJob ==
    pc[Loop] # "READY"
      => /\ daemon = "UP"
         /\ Agent(Loop) \in Agents /\ Epoch(Loop) = 1
         /\ ownerEpoch[Agent(Loop)] = 1
         /\ pc[Runtime(Loop)] = "IDLE"

MonitorJob ==
    \A rt \in Runtimes :
        pc[rt] # "IDLE" => Runtime(rt) = rt /\ rt[2] = 1 /\ ownerEpoch[rt[1]] = 1

CancellerJob ==
    \A c \in Cancellers :
        /\ pc[c] = "IDLE" => job[c] = Idle
        /\ pc[c] # "IDLE" => Agent(c) \in Agents /\ phase[Agent(c)] # "ABSENT"
        /\ Epoch(c) = 1 => pc[c] # "IDLE" /\ ownerEpoch[Agent(c)] = 1
        /\ pc[c] \in {"LOCK", "CLEANUP", "CLEANUP_STOP"} => Epoch(c) = 1
        /\ pc[c] \in {"PERSIST", "RELEASE"} /\ Epoch(c) = 0
             => ownerEpoch[Agent(c)] = 0 /\ phase[Agent(c)] \in {"CANCELLING", "TERMINAL"}

Released == \A t \in Threads : pc[t] = "RELEASE" => phase[Agent(t)] = "TERMINAL"

\* The run of a task that the claim loop has not registered: no canceller has seen it,
\* so nobody else can end it.
Unregistered(a) ==
    /\ pc[Loop] \in {"CLAIMED", "SPAWNED", "PERSIST"}
    /\ Agent(Loop) = a /\ active[a] = 0
    /\ \A c \in Cancellers : Runtime(c) # Run(a)

Fresh ==
    pc[Loop] \in {"CLAIMED", "SPAWNED"}
      => phase[Agent(Loop)] \in ActivePhase /\ Unregistered(Agent(Loop))

InCharge(t, a) == Runtime(t) = Run(a) /\ pc[t] \notin {"IDLE", "READY", "REQUEST", "RELEASE"}
Ender(t, a) == Runtime(t) = Run(a) /\ pc[t] \in EndingPlace

\* A task that left the queue is in the hands of a thread; a run whose stop has begun,
\* in those of one that will end it.
InHand(a) ==
    /\ ownerEpoch[a] = 0 => \E c \in Cancellers : Agent(c) = a /\ pc[c] = "PERSIST"
    /\ ownerEpoch[a] = 1
         => /\ active[a] = 1 \/ Unregistered(a)
            /\ \E t \in Threads : InCharge(t, a)
            /\ lifecycle[Run(a)] # "RUNNING" => \E t \in Threads : Ender(t, a)

Custody ==
    daemon = "UP" => \A a \in Agents \ Damaged : phase[a] \in ActivePhase => InHand(a)

\* A runtime lives only while its task does, and whoever stores the result of a run
\* has stopped its runtime.
LiveRuns ==
    /\ crashes = 0 => daemon = "UP" /\ stray = {}
    /\ \A rt \in live \ stray :
          /\ rt[2] = 1 /\ rt[1] \notin Damaged
          /\ ownerEpoch[rt[1]] = 1 /\ phase[rt[1]] \in ActivePhase
          /\ \A t \in Threads :
                Runtime(t) = rt => pc[t] \notin {"CLAIMED", "PERSIST", "RELEASE"}

\* While the daemon does not run, the row of every runtime's task has its identity.
Known == daemon # "UP" => \A rt \in live \ stray : hasRuntime[rt[1]]

SchedInv ==
    /\ SchedTypes /\ Prepared /\ Epochs /\ LoopJob /\ MonitorJob /\ CancellerJob
    /\ Released /\ Fresh /\ Custody /\ LiveRuns

\* Who is who while nobody resumes a task.
LEMMA Kinds ==
    ASSUME Resumers = {}
    PROVE  /\ Starters = {Loop} /\ Threads = {Loop} \cup Cancellers \cup Runtimes
           /\ Loop \notin Cancellers /\ Loop \notin Runtimes
           /\ Cancellers \cap Runtimes = {}
           /\ \A rt \in Runtimes : rt = <<rt[1], rt[2]>> /\ rt[1] \in Agents
           /\ \A a \in Agents : Run(a) \in Runtimes <=> 1 <= MaxEpoch
           /\ Run(NoAgent) \notin Runtimes
BY ThreadAssumption, MonitorAssumption, NoAgentAssumption, EpochAssumption
   DEF Starters, Threads, Runtimes, Run

\* A run of a task that was claimed is a run of the instance.
LEMMA RunOfClaimed ==
    ASSUME Resumers = {}, Epochs, NEW a \in Agents, ownerEpoch[a] = 1
    PROVE  Run(a) \in Runtimes
BY Kinds DEF Epochs

\* A thread at work works on a task, whatever its epoch.
LEMMA AtWork ==
    ASSUME Resumers = {}, SchedInv, NEW t \in Threads, pc[t] \notin {"IDLE", "READY"}
    PROVE  /\ Agent(t) \in Agents
           /\ Epoch(t) = 1 \/ pc[t] \notin {"REQUEST", "PERSIST", "RELEASE"}
                => Epoch(t) = 1 /\ Runtime(t) = Run(Agent(t)) /\ ownerEpoch[Agent(t)] = 1
           /\ t \in Runtimes => Runtime(t) = t
<1>1. /\ Threads = {Loop} \cup Cancellers \cup Runtimes
      /\ Loop \notin Runtimes /\ Cancellers \cap Runtimes = {}
      /\ \A rt \in Runtimes : rt = <<rt[1], rt[2]>> /\ rt[1] \in Agents
  BY Kinds
<1>2. SchedTypes /\ LoopJob /\ MonitorJob /\ CancellerJob
  BY DEF SchedInv
<1>3. CASE t = Loop
  BY <1>1, <1>2, <1>3 DEF LoopJob, Runtime, Run
<1>4. CASE t \in Cancellers
  BY <1>1, <1>2, <1>4 DEF SchedTypes, CancellerPlace, Job, CancellerJob, Epoch, Runtime, Run
<1>5. CASE t \in Runtimes
  BY <1>1, <1>2, <1>5 DEF MonitorJob, Runtime, Run
<1> QED
  BY <1>1, <1>3, <1>4, <1>5

\* What a step may do to the rest while a thread moves: a task stays where it is, or
\* moves on among the phases of a run; a registration goes only once its task ended.
PhaseKept ==
    \A a \in Agents :
        \/ phase'[a] = phase[a]
        \/ /\ phase[a] \in ActivePhase
           /\ \/ phase'[a] = "CANCELLING"
              \/ ownerEpoch[a] = 1 /\ phase'[a] \in ActivePhase

Keeps ==
    /\ UNCHANGED <<daemon, ownerEpoch, crashes, stray>>
    /\ PhaseKept
    /\ \A a \in Agents :
          active'[a] # active[a] => phase[a] = "TERMINAL" /\ active'[a] = 0
    /\ live' \subseteq live

NotInCharge == {"IDLE", "READY", "REQUEST", "RELEASE"}

\* A thread that stays in charge of its run, and goes on ending it if it was.
LEMMA Advance ==
    ASSUME Resumers = {}, SchedInv, NEW t \in Threads, NEW p,
           SchedTypes', Prepared', Keeps,
           pc' = [pc EXCEPT ![t] = p],
           job'[t].agent = Agent(t), job'[t].epoch = Epoch(t),
           \A u \in Threads \ {t} : job'[u] = job[u],
           pc[t] \notin {"IDLE", "READY", "RELEASE", "PERSIST"},
           pc[t] = "REQUEST" => Epoch(t) = 1,
           p \notin NotInCharge \cup {"CLAIMED", "SPAWNED"},
           pc[t] \in {"CLAIMED", "SPAWNED"} => p = "PERSIST",
           pc[t] \in EndingPlace => p \in EndingPlace,
           p = "PERSIST" => Runtime(t) \notin live' \ stray,
           \A rt \in Runtimes :
              lifecycle'[rt] # lifecycle[rt] => rt = Runtime(t) /\ p \in EndingPlace
    PROVE  SchedInv'
<1> USE DEF Keeps, NotInCharge
<1>1. SchedTypes /\ Prepared /\ Epochs /\ LoopJob /\ MonitorJob /\ CancellerJob
      /\ Released /\ Fresh /\ Custody /\ LiveRuns
  BY DEF SchedInv
<1>2. /\ \A u \in Threads : Agent(u)' = Agent(u) /\ Epoch(u)' = Epoch(u)
      /\ \A u \in Threads : Runtime(u)' = Runtime(u)
      /\ pc'[t] = p /\ \A u \in Threads \ {t} : pc'[u] = pc[u]
  BY <1>1 DEF SchedTypes, Agent, Epoch, Runtime
<1>3. /\ Starters = {Loop} /\ Threads = {Loop} \cup Cancellers \cup Runtimes
      /\ Loop \notin Cancellers /\ Loop \notin Runtimes /\ Cancellers \cap Runtimes = {}
  BY Kinds
<1>4. /\ \A u \in Threads : pc[u] \notin {"IDLE", "READY"} => Agent(u) \in Agents
      /\ Runtime(t) = Run(Agent(t)) \/ Epoch(t) # 1
      /\ \A a \in Agents : Runtime(t) = Run(a) => a = Agent(t) /\ ownerEpoch[a] = 1
  BY AtWork DEF Runtime, Run
<1>5. Epochs'
  <2> SUFFICES ASSUME NEW a \in Agents
               PROVE  /\ phase'[a] \in {"ABSENT", "QUEUED"} => ownerEpoch[a] = 0
                      /\ ownerEpoch[a] = 0 /\ 1 <= MaxEpoch => lifecycle'[Run(a)] = "RUNNING"
    BY <1>1 DEF Epochs
  <2> QED
    BY <1>1, <1>4, Kinds DEF Epochs, PhaseKept, ActivePhase
<1>6. LoopJob' /\ MonitorJob'
  BY <1>1, <1>2, <1>3 DEF LoopJob, MonitorJob
<1>7. \A a \in Agents : phase[a] \in {"CANCELLING", "TERMINAL"}
                           => ownerEpoch[a] = 1 \/ phase'[a] \in {"CANCELLING", "TERMINAL"}
  BY DEF PhaseKept
<1>8. CancellerJob'
  <2> SUFFICES ASSUME NEW c \in Cancellers
               PROVE  /\ pc'[c] = "IDLE" => job'[c] = Idle
                      /\ pc'[c] # "IDLE" => phase'[Agent(c)] # "ABSENT"
                      /\ Epoch(c) = 1 => pc'[c] # "IDLE"
                      /\ pc'[c] \in {"LOCK", "CLEANUP", "CLEANUP_STOP"} => Epoch(c) = 1
                      /\ pc'[c] \in {"PERSIST", "RELEASE"} /\ Epoch(c) = 0
                           => /\ ownerEpoch[Agent(c)] = 0
                              /\ phase'[Agent(c)] \in {"CANCELLING", "TERMINAL"}
    BY <1>1, <1>2, <1>3, <1>4 DEF CancellerJob
  <2>1. \A a \in Agents : phase[a] # "ABSENT" => phase'[a] # "ABSENT"
    BY DEF PhaseKept, ActivePhase
  <2>2. c = t => Epoch(c) = 1
    BY AtWork
  <2> QED
    BY <1>1, <1>2, <1>3, <1>4, <1>7, <2>1, <2>2 DEF CancellerJob
<1>9. Released'
  BY <1>1, <1>2, <1>3, <1>4 DEF Released, PhaseKept, ActivePhase
<1>10. \A a \in Agents : Unregistered(a) => Unregistered(a)'
  BY <1>1, <1>2, <1>3 DEF Unregistered
<1>11. Fresh'
  <2>1. \A a \in Agents : phase[a] \in ActivePhase => phase'[a] \in ActivePhase
    BY DEF PhaseKept, ActivePhase
  <2> QED
    BY <1>1, <1>2, <1>3, <1>4, <1>10, <2>1 DEF Fresh
<1>12. Custody'
  <2> SUFFICES ASSUME daemon = "UP", NEW a \in Agents \ Damaged, phase'[a] \in ActivePhase
               PROVE  InHand(a)'
    BY DEF Custody
  <2>1. phase[a] \in ActivePhase /\ InHand(a)
    BY <1>1 DEF PhaseKept, Custody
  <2>2. ownerEpoch[a] = 0 => \E c \in Cancellers : Agent(c)' = a /\ pc'[c] = "PERSIST"
    BY <1>2, <1>3, <2>1 DEF InHand
  <2>3. \A u \in Threads : InCharge(u, a) => InCharge(u, a)'
    BY <1>2 DEF InCharge
  <2>4. \A u \in Threads : Ender(u, a) => Ender(u, a)'
    BY <1>2 DEF Ender
  <2>5. ownerEpoch[a] = 1 => (active[a] = 1 \/ Unregistered(a))'
    BY <1>10, <2>1 DEF InHand, ActivePhase
  <2>6. ownerEpoch[a] = 1 /\ lifecycle'[Run(a)] # "RUNNING" => \E u \in Threads : Ender(u, a)'
    <3>1. CASE lifecycle'[Run(a)] = lifecycle[Run(a)]
      BY <2>1, <2>4, <3>1 DEF InHand
    <3>2. CASE lifecycle'[Run(a)] # lifecycle[Run(a)] /\ ownerEpoch[a] = 1
      <4>1. Run(a) \in Runtimes
        BY <1>1, <3>2, RunOfClaimed
      <4>2. Runtime(t) = Run(a) /\ p \in EndingPlace
        BY <3>2, <4>1
      <4> QED
        BY <1>2, <4>2 DEF Ender
    <3> QED
      BY <3>1, <3>2
  <2> QED
    BY <2>1, <2>2, <2>3, <2>5, <2>6 DEF InHand
<1>13. LiveRuns'
  <2> SUFFICES ASSUME NEW rt \in live' \ stray'
               PROVE  /\ rt[2] = 1 /\ rt[1] \notin Damaged /\ ownerEpoch[rt[1]] = 1
                      /\ phase'[rt[1]] \in ActivePhase
                      /\ \A u \in Threads :
                            Runtime(u) = rt => pc'[u] \notin {"CLAIMED", "PERSIST", "RELEASE"}
    BY <1>1, <1>2 DEF LiveRuns
  <2>1. rt \in live /\ rt \in Runtimes /\ rt[1] \in Agents
    BY <1>1, Kinds DEF SchedTypes
  <2> QED
    BY <1>1, <1>2, <2>1 DEF LiveRuns, PhaseKept, ActivePhase
<1> QED
  BY <1>5, <1>6, <1>8, <1>9, <1>11, <1>12, <1>13 DEF SchedInv

\* A thread that gives its run up to somebody who ends it, or after its end.
LEMMA GiveUp ==
    ASSUME Resumers = {}, SchedInv, NEW t \in Threads, NEW p \in {"IDLE", "READY"},
           SchedTypes', Prepared', Keeps,
           pc' = [pc EXCEPT ![t] = p],
           job' = [job EXCEPT ![t] = Idle] \/ (t \in Runtimes /\ job' = job),
           pc[t] \notin {"CLAIMED", "SPAWNED", "PERSIST"},
           \A a \in Agents \ Damaged : Runtime(t) = Run(a) /\ phase[a] \in ActivePhase
                                        => \E u \in Threads \ {t} : Ender(u, a),
           \A rt \in Runtimes : lifecycle'[rt] # lifecycle[rt]
                              => ownerEpoch[rt[1]] = 1 /\ phase[rt[1]] = "TERMINAL"
    PROVE  SchedInv'
<1> USE DEF Keeps
<1>1. SchedTypes /\ Prepared /\ Epochs /\ LoopJob /\ MonitorJob /\ CancellerJob
      /\ Released /\ Fresh /\ Custody /\ LiveRuns
  BY DEF SchedInv
<1>2. /\ Starters = {Loop} /\ Threads = {Loop} \cup Cancellers \cup Runtimes
      /\ Loop \notin Cancellers /\ Loop \notin Runtimes /\ Cancellers \cap Runtimes = {}
  BY Kinds
<1>3. /\ \A u \in Threads \ {t} : job'[u] = job[u]
      /\ \A u \in Threads \ {t} : Agent(u)' = Agent(u) /\ Epoch(u)' = Epoch(u)
      /\ \A u \in Threads \ {t} : Runtime(u)' = Runtime(u)
      /\ t \notin Runtimes => job'[t] = Idle /\ Agent(t)' = NoAgent /\ Epoch(t)' = 0
      /\ pc'[t] = p /\ \A u \in Threads \ {t} : pc'[u] = pc[u]
  BY <1>1 DEF SchedTypes, Agent, Epoch, Runtime, Idle
<1>4. t = Loop <=> p = "READY"
  BY <1>1, <1>2, <1>3 DEF SchedTypes, LoopPlace, MonitorPlace, CancellerPlace
<1>5. \A u \in Threads : pc[u] \notin {"IDLE", "READY"} => Agent(u) \in Agents
  BY AtWork
<1>6. Epochs'
  <2> SUFFICES ASSUME NEW a \in Agents
               PROVE  /\ phase'[a] \in {"ABSENT", "QUEUED"} => ownerEpoch[a] = 0
                      /\ active'[a] = 1 => ownerEpoch[a] = 1
                      /\ ownerEpoch[a] = 0 /\ 1 <= MaxEpoch => lifecycle'[Run(a)] = "RUNNING"
    BY <1>1 DEF Epochs
  <2>1. Run(a)[1] = a
    BY DEF Run
  <2> QED
    BY <1>1, <2>1, Kinds DEF Epochs, PhaseKept, ActivePhase
<1>7. LoopJob' /\ MonitorJob'
  BY <1>1, <1>2, <1>3, <1>4 DEF LoopJob, MonitorJob
<1>8. CancellerJob'
  <2>1. \A a \in Agents : /\ phase[a] # "ABSENT" => phase'[a] # "ABSENT"
                          /\ phase[a] \in {"CANCELLING", "TERMINAL"} /\ ownerEpoch[a] = 0
                               => phase'[a] \in {"CANCELLING", "TERMINAL"}
    BY DEF PhaseKept, ActivePhase
  <2>2. ASSUME NEW c \in Cancellers, c # t
        PROVE  /\ pc[c] = "IDLE" => job'[c] = Idle
               /\ pc[c] # "IDLE" => Agent(c) \in Agents /\ phase'[Agent(c)] # "ABSENT"
               /\ Epoch(c) = 1 => pc[c] # "IDLE" /\ ownerEpoch[Agent(c)] = 1
               /\ pc[c] \in {"LOCK", "CLEANUP", "CLEANUP_STOP"} => Epoch(c) = 1
               /\ pc[c] \in {"PERSIST", "RELEASE"} /\ Epoch(c) = 0
                    => /\ ownerEpoch[Agent(c)] = 0
                       /\ phase'[Agent(c)] \in {"CANCELLING", "TERMINAL"}
    <3>1. /\ pc[c] = "IDLE" => job[c] = Idle
          /\ pc[c] # "IDLE" => Agent(c) \in Agents /\ phase[Agent(c)] # "ABSENT"
          /\ Epoch(c) = 1 => pc[c] # "IDLE" /\ ownerEpoch[Agent(c)] = 1
          /\ pc[c] \in {"LOCK", "CLEANUP", "CLEANUP_STOP"} => Epoch(c) = 1
          /\ pc[c] \in {"PERSIST", "RELEASE"} /\ Epoch(c) = 0
               => ownerEpoch[Agent(c)] = 0 /\ phase[Agent(c)] \in {"CANCELLING", "TERMINAL"}
      BY <1>1 DEF CancellerJob
    <3>2. job'[c] = job[c]
      BY <1>2, <1>3, <2>2
    <3> QED
      BY ONLY <2>1, <3>1, <3>2
  <2>3. t \in Cancellers => pc'[t] = "IDLE" /\ job'[t] = Idle /\ Epoch(t)' = 0
    BY <1>2, <1>3, <1>4
  <2> QED
    BY <1>2, <1>3, <2>2, <2>3 DEF CancellerJob
<1>9. Released'
  BY <1>1, <1>2, <1>3, <1>5 DEF Released, PhaseKept, ActivePhase
<1>10. \A a \in Agents : Unregistered(a) => Unregistered(a)'
  <2>1. \A a \in Agents : Runtime(t) # Run(a) /\ t \in Cancellers => Runtime(t)' # Run(a)
    BY <1>2, <1>3 DEF Runtime, Run
  <2> QED
    BY <1>1, <1>2, <1>3, <2>1 DEF Unregistered
<1>11. Fresh'
  <2>1. \A a \in Agents : phase[a] \in ActivePhase => phase'[a] \in ActivePhase
    BY DEF PhaseKept, ActivePhase
  <2> QED
    BY <1>1, <1>2, <1>3, <1>4, <1>5, <1>10, <2>1 DEF Fresh
<1>12. Custody'
  <2> SUFFICES ASSUME daemon = "UP", NEW a \in Agents \ Damaged, phase'[a] \in ActivePhase
               PROVE  InHand(a)'
    BY DEF Custody
  <2>1. phase[a] \in ActivePhase /\ InHand(a) /\ active'[a] = active[a]
    BY <1>1 DEF PhaseKept, Custody, ActivePhase
  <2>2. ownerEpoch[a] = 0 => \E c \in Cancellers : Agent(c)' = a /\ pc'[c] = "PERSIST"
    BY <1>2, <1>3, <2>1 DEF InHand
  <2>3. \A u \in Threads \ {t} : /\ InCharge(u, a) => InCharge(u, a)'
                                 /\ Ender(u, a) => Ender(u, a)' /\ InCharge(u, a)'
    BY <1>3 DEF InCharge, Ender, EndingPlace
  <2>4. ownerEpoch[a] = 1 => \E u \in Threads : InCharge(u, a)'
    BY <2>1, <2>3 DEF InHand, InCharge
  <2>5. ownerEpoch[a] = 1 => lifecycle'[Run(a)] = lifecycle[Run(a)]
    BY <1>1, <2>1, RunOfClaimed, Kinds DEF Run, ActivePhase
  <2>6. ownerEpoch[a] = 1 /\ lifecycle'[Run(a)] # "RUNNING" => \E u \in Threads : Ender(u, a)'
    BY <2>1, <2>3, <2>5 DEF InHand, Ender
  <2> QED
    BY <1>10, <2>1, <2>2, <2>4, <2>6 DEF InHand
<1>13. LiveRuns'
  <2> SUFFICES ASSUME NEW rt \in live' \ stray'
               PROVE  /\ rt[2] = 1 /\ rt[1] \notin Damaged /\ ownerEpoch[rt[1]] = 1
                      /\ phase'[rt[1]] \in ActivePhase
                      /\ \A u \in Threads :
                            Runtime(u)' = rt => pc'[u] \notin {"CLAIMED", "PERSIST", "RELEASE"}
    BY <1>1 DEF LiveRuns
  <2>1. rt \in live /\ rt \in Runtimes /\ rt[1] \in Agents
    BY <1>1, Kinds DEF SchedTypes
  <2> QED
    BY <1>1, <1>3, <2>1 DEF LiveRuns, PhaseKept, ActivePhase
<1> QED
  BY <1>6, <1>7, <1>8, <1>9, <1>11, <1>12, <1>13 DEF SchedInv

\* A thread that has seen its task end: what is left is to release the run.
LEMMA Done ==
    ASSUME Resumers = {}, SchedInv, NEW t \in Threads, SchedTypes', Prepared',
           UNCHANGED <<daemon, ownerEpoch, crashes, stray, active, lifecycle>>,
           pc' = [pc EXCEPT ![t] = "RELEASE"],
           job'[t].agent = Agent(t), job'[t].epoch = Epoch(t),
           \A u \in Threads \ {t} : job'[u] = job[u],
           pc[t] \in {"PERSIST", "FINISH"},
           phase'[Agent(t)] = "TERMINAL" /\ phase[Agent(t)] \in ActivePhase \cup {"TERMINAL"},
           \A a \in Agents \ {Agent(t)} : phase'[a] = phase[a],
           live' \subseteq live, Runtime(t) \notin live' \ stray
    PROVE  SchedInv'
<1>1. SchedTypes /\ Prepared /\ Epochs /\ LoopJob /\ MonitorJob /\ CancellerJob
      /\ Released /\ Fresh /\ Custody /\ LiveRuns
  BY DEF SchedInv
<1>2. /\ \A u \in Threads : Agent(u)' = Agent(u) /\ Epoch(u)' = Epoch(u)
      /\ \A u \in Threads : Runtime(u)' = Runtime(u)
      /\ pc'[t] = "RELEASE" /\ \A u \in Threads \ {t} : pc'[u] = pc[u]
  BY <1>1 DEF SchedTypes, Agent, Epoch, Runtime
<1>3. /\ Starters = {Loop} /\ Threads = {Loop} \cup Cancellers \cup Runtimes
      /\ Loop \notin Cancellers /\ Loop \notin Runtimes /\ Cancellers \cap Runtimes = {}
  BY Kinds
<1>4. /\ \A u \in Threads : pc[u] \notin {"IDLE", "READY"} => Agent(u) \in Agents
      /\ \A u \in Threads, a \in Agents : Runtime(u) = Run(a) => Agent(u) = a
      /\ \A a \in Agents : phase'[a] # phase[a] => a = Agent(t) /\ phase'[a] = "TERMINAL"
  BY AtWork DEF Runtime, Run
<1>5. Epochs'
  BY <1>1, <1>4 DEF Epochs
<1>6. LoopJob' /\ MonitorJob'
  BY <1>1, <1>2, <1>3 DEF LoopJob, MonitorJob
<1>7. CancellerJob'
  <2> SUFFICES ASSUME NEW c \in Cancellers
               PROVE  /\ pc'[c] = "IDLE" => job'[c] = Idle
                      /\ pc'[c] # "IDLE" => Agent(c) \in Agents /\ phase'[Agent(c)] # "ABSENT"
                      /\ Epoch(c) = 1 => pc'[c] # "IDLE" /\ ownerEpoch[Agent(c)] = 1
                      /\ pc'[c] \in {"LOCK", "CLEANUP", "CLEANUP_STOP"} => Epoch(c) = 1
                      /\ pc'[c] \in {"PERSIST", "RELEASE"} /\ Epoch(c) = 0
                           => /\ ownerEpoch[Agent(c)] = 0
                              /\ phase'[Agent(c)] \in {"CANCELLING", "TERMINAL"}
    BY <1>2, <1>3 DEF CancellerJob
  <2>1. c = t => pc[c] = "PERSIST"
    BY <1>1 DEF SchedTypes, CancellerPlace
  <2> QED
    BY <1>1, <1>2, <1>3, <1>4, <2>1 DEF CancellerJob
<1>8. Released'
  BY <1>1, <1>2, <1>3, <1>4 DEF Released
<1>9. \A a \in Agents \ {Agent(t)} : Unregistered(a) => Unregistered(a)'
  BY <1>1, <1>2, <1>3 DEF Unregistered
<1>10. Fresh'
  <2>1. pc'[Loop] \in {"CLAIMED", "SPAWNED"} => pc[Loop] = pc'[Loop] /\ t # Loop
    BY <1>2, <1>3
  <2>2. CASE pc'[Loop] \in {"CLAIMED", "SPAWNED"} /\ Agent(Loop) = Agent(t)
    <3>1. ownerEpoch[Agent(t)] = 1 /\ pc[Runtime(Loop)] = "IDLE" /\ Runtime(Loop) = Run(Agent(t))
      BY <1>1, <2>1, <2>2 DEF LoopJob, Runtime, Run
    <3>2. t \notin Runtimes
      <4> SUFFICES ASSUME t \in Runtimes PROVE FALSE
        OBVIOUS
      <4>1. Runtime(t) = t /\ Epoch(t) = 1 /\ Runtime(t) = Run(Agent(t))
        BY AtWork, <1>1 DEF MonitorJob, Runtime
      <4> QED
        BY <3>1, <4>1
    <3>3. t \in Cancellers /\ pc[t] = "PERSIST"
      BY <1>1, <1>3, <2>1, <2>2, <3>2 DEF SchedTypes, CancellerPlace
    <3>4. Epoch(t) = 1
      BY <1>1, <3>1, <3>3 DEF CancellerJob, SchedTypes, Job, Epoch
    <3> QED
      BY <1>1, <2>1, <2>2, <3>3, <3>4 DEF Fresh, Unregistered, Runtime, Run
  <2> QED
    BY <1>1, <1>2, <1>3, <1>4, <2>1, <2>2 DEF Fresh, Unregistered, LoopJob
<1>11. Custody'
  <2> SUFFICES ASSUME daemon = "UP", NEW a \in Agents \ Damaged, phase'[a] \in ActivePhase
               PROVE  InHand(a)'
    BY DEF Custody
  <2>1. a # Agent(t) /\ InHand(a)
    BY <1>1 DEF Custody, ActivePhase
  <2>2. \A u \in Threads : /\ InCharge(u, a) => InCharge(u, a)'
                           /\ Ender(u, a) => Ender(u, a)'
    BY <1>2, <1>4, <2>1 DEF InCharge, Ender
  <2>3. \A c \in Cancellers : Agent(c) = a /\ pc[c] = "PERSIST"
                              => Agent(c)' = a /\ pc'[c] = "PERSIST"
    BY <1>2, <1>3, <2>1
  <2> QED
    BY <1>9, <2>1, <2>2, <2>3 DEF InHand
<1>12. LiveRuns'
  <2> SUFFICES ASSUME NEW rt \in live' \ stray'
               PROVE  /\ rt[2] = 1 /\ rt[1] \notin Damaged /\ ownerEpoch[rt[1]] = 1
                      /\ phase'[rt[1]] \in ActivePhase
                      /\ \A u \in Threads :
                            Runtime(u)' = rt => pc'[u] \notin {"CLAIMED", "PERSIST", "RELEASE"}
    BY <1>1 DEF LiveRuns
  <2>1. rt \in live /\ rt \in Runtimes /\ rt[1] \in Agents /\ rt = <<rt[1], rt[2]>>
    BY <1>1, Kinds DEF SchedTypes
  <2>2. rt[2] = 1 /\ ownerEpoch[rt[1]] = 1 /\ phase[rt[1]] \in ActivePhase
    BY <1>1, <2>1 DEF LiveRuns
  <2>3. rt[1] # Agent(t)
    <3> SUFFICES ASSUME rt[1] = Agent(t) PROVE FALSE
      OBVIOUS
    <3>1. Epoch(t) # 1
      BY <2>1, <2>2 DEF Runtime
    <3>2. t \in Cancellers /\ pc[t] = "PERSIST" /\ Epoch(t) = 0
      BY <1>1, <1>3, <3>1, AtWork DEF SchedTypes, Job, Epoch, LoopJob, MonitorJob, Runtime,
         CancellerPlace
    <3> QED
      BY <1>1, <2>2, <3>2 DEF CancellerJob
  <2> QED
    BY <1>1, <1>2, <2>1, <2>2, <2>3 DEF LiveRuns
<1> QED
  BY <1>5, <1>6, <1>7, <1>8, <1>10, <1>11, <1>12 DEF SchedInv

\* Aim changes what a thread will store and where it goes afterwards.
LEMMA AimJob ==
    ASSUME SchedTypes, NEW t \in Threads, NEW force \in Outcome \cup {"NONE"},
           NEW then \in {"IDLE", "READY"}, Aim(t, force, then)
    PROVE  /\ job' \in [Threads -> Job] /\ \A u \in Threads \ {t} : job'[u] = job[u]
           /\ job'[t].agent = Agent(t) /\ job'[t].epoch = Epoch(t)
           /\ job'[t].force = force /\ job'[t].then = then
           /\ job'[t].message = job[t].message
BY DEF SchedTypes, Aim, Job, Agent, Epoch

\* The places of one thread and of the others.
LEMMA PlacesKept ==
    ASSUME Resumers = {}, SchedTypes, Prepared, NEW t \in Threads, NEW p,
           pc' = [pc EXCEPT ![t] = p],
           t = Loop => p \in LoopPlace,
           t \in Cancellers => p \in CancellerPlace,
           t \in Runtimes => p \in MonitorPlace,
           job' \in [Threads -> Job], \A u \in Threads \ {t} : job'[u] = job[u],
           p \in EndingPlace => job'[t].force \in Outcome,
           t # Loop => job'[t].then = "IDLE",
           t = Loop /\ p \in {"CLEANUP", "CLEANUP_STOP", "PERSIST", "RELEASE"}
             => job'[t].then = "READY",
           p = "SENDING" => job'[t].message \in Messages,
           active' \in [Agents -> {0, 1}], UNCHANGED <<crashes, stray>>, live' \subseteq Runtimes,
           lifecycle' \in [Runtimes -> {"RUNNING", "STOPPING", "TERMINAL"}]
    PROVE  SchedTypes' /\ Prepared'
<1>1. /\ Threads = {Loop} \cup Cancellers \cup Runtimes
      /\ Loop \notin Cancellers /\ Loop \notin Runtimes /\ Cancellers \cap Runtimes = {}
  BY Kinds
<1>2. pc'[t] = p /\ \A u \in Threads \ {t} : pc'[u] = pc[u]
  BY DEF SchedTypes
<1>3. SchedTypes'
  BY <1>1, <1>2 DEF SchedTypes
<1>4. Prepared'
  BY <1>1, <1>2 DEF Prepared
<1> QED
  BY <1>3, <1>4

\* Most steps of a thread in charge: it aims at an outcome and goes on.
LEMMA AimAndAdvance ==
    ASSUME Resumers = {}, SchedInv, NEW t \in Threads, NEW p \in EndingPlace, NEW force \in Outcome,
           NEW then \in {"IDLE", "READY"}, Aim(t, force, then), GoTo(t, p),
           pc[t] \notin {"IDLE", "READY", "RELEASE", "PERSIST"},
           pc[t] = "REQUEST" => Epoch(t) = 1,
           t = Loop => p \in LoopPlace /\ then = "READY",
           t \in Cancellers => p \in CancellerPlace,
           t \in Runtimes => p \in MonitorPlace,
           t # Loop => then = "IDLE",
           pc[t] \in {"CLAIMED", "SPAWNED"} => p = "PERSIST",
           UNCHANGED <<daemon, ownerEpoch, active, crashes, stray>>, PhaseKept,
           live' \subseteq live, p = "PERSIST" => Runtime(t) \notin live' \ stray,
           lifecycle' \in [Runtimes -> {"RUNNING", "STOPPING", "TERMINAL"}],
           \A rt \in Runtimes : lifecycle'[rt] # lifecycle[rt] => rt = Runtime(t)
    PROVE  SchedInv'
<1>1. SchedTypes /\ Prepared
  BY DEF SchedInv
<1>2. /\ job' \in [Threads -> Job] /\ \A u \in Threads \ {t} : job'[u] = job[u]
      /\ job'[t].agent = Agent(t) /\ job'[t].epoch = Epoch(t)
      /\ job'[t].force = force /\ job'[t].then = then
  BY <1>1, AimJob
<1>3. p # "SENDING" /\ p \notin NotInCharge \cup {"CLAIMED", "SPAWNED"}
  BY DEF EndingPlace, NotInCharge
<1>4. active' \in [Agents -> {0, 1}] /\ live' \subseteq Runtimes
  BY <1>1 DEF SchedTypes
<1>5. SchedTypes' /\ Prepared'
  BY <1>1, <1>2, <1>3, <1>4, PlacesKept DEF GoTo
<1>6. Keeps
  BY DEF Keeps
<1> QED
  BY <1>2, <1>3, <1>5, <1>6, Advance DEF GoTo

\* What a stop does to the phases.
LEMMA StopEffect ==
    ASSUME TypeOK, SchedInv, NEW a \in Agents,
           RequestStop(a) \/ RequestClose(a) \/ RequestRuntimeStop(a)
    PROVE  /\ ownerEpoch' = ownerEpoch
           /\ phase[a] # "TERMINAL" => phase' = [phase EXCEPT ![a] = "CANCELLING"]
           /\ phase[a] = "TERMINAL" => phase' = phase
           /\ phase[a] # "QUEUED" => PhaseKept
<1>1. /\ ownerEpoch' = ownerEpoch /\ phase[a] # "ABSENT"
      /\ phase[a] # "TERMINAL" => phase' = [phase EXCEPT ![a] = "CANCELLING"]
      /\ phase[a] = "TERMINAL" => phase' = phase
  BY DEF RequestStop, RequestClose, RequestRuntimeStop, RequestStopInternal
<1>2. phase[a] # "QUEUED" => PhaseKept
  BY <1>1 DEF PhaseKept, TypeOK, TablesOK, Phase, BusyPhase, ActivePhase
<1> QED
  BY <1>1, <1>2

\* The steps of start_ready and start_claim that keep the claim loop in charge.
LEMMA StartStep ==
    ASSUME Resumers = {}, TypeOK, SchedInv,
           \/ SpawnFails(Loop) \/ SessionFails(Loop) \/ ReadUnmarked(Loop) \/ Mark(Loop)
    PROVE  SchedInv'
<1>1. Loop \in Threads /\ Loop \notin Cancellers /\ Loop \notin Runtimes /\ Loop \notin Resumers
  BY Kinds
<1>2. SchedTypes /\ Prepared /\ LiveRuns
  BY DEF SchedInv
<1>3. /\ lifecycle \in [Runtimes -> {"RUNNING", "STOPPING", "TERMINAL"}]
      /\ {"FAILED", "RESULT_INVALID", "CANCELLED"} \subseteq Outcome
  BY <1>2, OutcomeAssumption, ForcedAssumption DEF SchedTypes
<1>4. CASE SpawnFails(Loop)
  <2>1. PICK force \in {"FAILED", "RESULT_INVALID"} : Aim(Loop, force, "READY")
    BY <1>1, <1>4 DEF SpawnFails, Failure
  <2>2. /\ pc[Loop] = "CLAIMED" /\ GoTo(Loop, "PERSIST")
        /\ UNCHANGED <<daemon, ownerEpoch, active, crashes, stray, phase, live, lifecycle>>
    BY <1>4 DEF SpawnFails, At, memory, vars, tables, taskVars, callers
  <2>3. PhaseKept
    BY <2>2 DEF PhaseKept
  <2>4. Runtime(Loop) \notin live' \ stray
    BY <1>1, <1>2, <2>2 DEF LiveRuns
  <2> QED
    BY <1>1, <1>3, <2>1, <2>2, <2>3, <2>4, AimAndAdvance DEF EndingPlace, NotInCharge, LoopPlace
<1>5. CASE SessionFails(Loop)
  <2>1. /\ pc[Loop] = "SPAWNED" /\ GoTo(Loop, "PERSIST") /\ Aim(Loop, "FAILED", "READY")
        /\ live' = live \ {Runtime(Loop)}
        /\ UNCHANGED <<daemon, ownerEpoch, active, crashes, stray, phase, lifecycle>>
    BY <1>1, <1>5 DEF SessionFails, At, Failure, vars, tables, taskVars, callers
  <2>2. PhaseKept
    BY <2>1 DEF PhaseKept
  <2> QED
    BY <1>1, <1>3, <2>1, <2>2, AimAndAdvance DEF EndingPlace, NotInCharge, LoopPlace
<1>6. CASE ReadUnmarked(Loop)
  <2>1. PICK force \in {"CANCELLED", "FAILED"} : Aim(Loop, force, "READY")
    BY <1>6 DEF ReadUnmarked
  <2>2. /\ pc[Loop] = "UNMARKED" /\ GoTo(Loop, "CLEANUP")
        /\ UNCHANGED <<daemon, ownerEpoch, active, crashes, stray, phase, live, lifecycle>>
    BY <1>6 DEF ReadUnmarked, At, memory, vars, tables, taskVars, callers
  <2>3. PhaseKept
    BY <2>2 DEF PhaseKept
  <2> QED
    BY <1>1, <1>3, <2>1, <2>2, <2>3, AimAndAdvance DEF EndingPlace, NotInCharge, LoopPlace
<1>7. CASE Mark(Loop)
  <2>1. /\ pc[Loop] = "REGISTERED"
        /\ UNCHANGED <<daemon, ownerEpoch, active, crashes, stray, live, lifecycle, job>>
    BY <1>7 DEF Mark, At, memory, vars, tables, taskVars, callers, MarkSessionRunning
  <2>2. PICK p \in {"MARKED", "UNMARKED"} : pc' = [pc EXCEPT ![Loop] = p]
    BY <1>7 DEF Mark, GoTo
  <2>3. PhaseKept
    <3>1. ownerEpoch[Agent(Loop)] = 1
      BY <1>1, <2>1, AtWork
    <3> QED
      BY <1>7, <3>1 DEF Mark, MarkSessionRunning, PhaseKept, TypeOK, TablesOK, ActivePhase, vars, tables, taskVars, callers
  <2>4. Keeps
    BY <2>1, <2>3 DEF Keeps
  <2>5. SchedTypes' /\ Prepared'
    BY <1>1, <1>2, <2>1, <2>2, PlacesKept DEF SchedTypes, LoopPlace, EndingPlace
  <2> QED
    BY <1>1, <2>1, <2>2, <2>4, <2>5, Advance DEF NotInCharge, EndingPlace, Agent, Epoch
<1> QED
  BY <1>4, <1>5, <1>6, <1>7

\* claim_next hands a queued task to the claim loop: nobody else has heard of its run.
LEMMA ClaimStep ==
    ASSUME Resumers = {}, TypeOK, SchedInv, Claim(Loop)
    PROVE  SchedInv'
<1>1. SchedTypes /\ Prepared /\ Epochs /\ LoopJob /\ MonitorJob /\ CancellerJob
      /\ Released /\ Fresh /\ Custody /\ LiveRuns
  BY DEF SchedInv
<1>2. /\ Threads = {Loop} \cup Cancellers \cup Runtimes
      /\ Loop \notin Cancellers /\ Loop \notin Runtimes /\ Cancellers \cap Runtimes = {}
      /\ \A rt \in Runtimes : rt = <<rt[1], rt[2]>> /\ rt[1] \in Agents
  BY Kinds
<1>3. PICK a \in Agents :
         /\ ClaimNext(a)
         /\ job' = [job EXCEPT ![Loop] = [Idle EXCEPT !.agent = a, !.epoch = ownerEpoch[a] + 1]]
  BY DEF Claim
<1>4. /\ phase[a] = "QUEUED" /\ phase' = [phase EXCEPT ![a] = "PREPARING"]
      /\ ownerEpoch[a] < MaxEpoch /\ ownerEpoch' = [ownerEpoch EXCEPT ![a] = ownerEpoch[a] + 1]
  BY <1>3 DEF ClaimNext, Claimable
<1>5. /\ daemon = "UP" /\ pc[Loop] = "READY" /\ pc' = [pc EXCEPT ![Loop] = "CLAIMED"]
      /\ UNCHANGED <<daemon, active, lifecycle, live, crashes, stray>>
  BY DEF Claim, At, GoTo, memory, callers
<1>6. /\ ownerEpoch[a] = 0 /\ ownerEpoch'[a] = 1 /\ 1 <= MaxEpoch /\ Run(a) \in Runtimes
      /\ \A b \in Agents \ {a} : ownerEpoch'[b] = ownerEpoch[b] /\ phase'[b] = phase[b]
      /\ phase'[a] = "PREPARING"
  BY <1>1, <1>4, EpochAssumption, Kinds DEF Epochs, TypeOK, TablesOK
<1>7. /\ job'[Loop].agent = a /\ job'[Loop].epoch = 1
      /\ \A u \in Threads \ {Loop} : job'[u] = job[u]
      /\ job' \in [Threads -> Job]
  <2>1. [Idle EXCEPT !.agent = a, !.epoch = 1] \in Job
    BY DEF Idle, Job
  <2>2. ownerEpoch[a] + 1 = 1
    BY <1>6
  <2>3. job' = [job EXCEPT ![Loop] = [Idle EXCEPT !.agent = a, !.epoch = 1]]
    BY <1>3, <2>2
  <2> QED
    BY <1>1, <1>2, <2>1, <2>3 DEF SchedTypes, Idle
<1>8. /\ pc'[Loop] = "CLAIMED" /\ \A u \in Threads \ {Loop} : pc'[u] = pc[u]
      /\ Agent(Loop)' = a /\ Epoch(Loop)' = 1 /\ Runtime(Loop)' = Run(a)
      /\ \A u \in Threads \ {Loop} : Agent(u)' = Agent(u) /\ Epoch(u)' = Epoch(u)
      /\ \A u \in Threads \ {Loop} : Runtime(u)' = Runtime(u)
  BY <1>1, <1>2, <1>5, <1>7 DEF SchedTypes, Agent, Epoch, Runtime, Run
<1>9. SchedTypes' /\ Prepared'
  BY <1>1, <1>2, <1>5, <1>7, PlacesKept DEF SchedTypes, LoopPlace, EndingPlace
<1>10. Epochs'
  BY <1>1, <1>5, <1>6 DEF Epochs
<1>11. pc[Run(a)] = "IDLE" /\ \A c \in Cancellers : Runtime(c) # Run(a)
  <2>1. pc[Run(a)] = "IDLE"
    BY <1>1, <1>6 DEF MonitorJob, Run
  <2>2. \A c \in Cancellers : Runtime(c) # Run(a)
    BY <1>1, <1>6 DEF CancellerJob, Runtime, Run
  <2> QED
    BY <2>1, <2>2
<1>12. LoopJob' /\ MonitorJob'
  <2>1. LoopJob'
    BY <1>2, <1>5, <1>6, <1>8, <1>11 DEF LoopJob
  <2>2. MonitorJob'
    BY <1>1, <1>2, <1>6, <1>8 DEF MonitorJob
  <2> QED
    BY <2>1, <2>2
<1>13. CancellerJob'
  <2> SUFFICES ASSUME NEW c \in Cancellers
               PROVE  /\ pc[c] = "IDLE" => job[c] = Idle
                      /\ pc[c] # "IDLE" => Agent(c) \in Agents /\ phase'[Agent(c)] # "ABSENT"
                      /\ Epoch(c) = 1 => pc[c] # "IDLE" /\ ownerEpoch'[Agent(c)] = 1
                      /\ pc[c] \in {"LOCK", "CLEANUP", "CLEANUP_STOP"} => Epoch(c) = 1
                      /\ pc[c] \in {"PERSIST", "RELEASE"} /\ Epoch(c) = 0
                           => /\ ownerEpoch'[Agent(c)] = 0
                              /\ phase'[Agent(c)] \in {"CANCELLING", "TERMINAL"}
    BY <1>2, <1>7, <1>8 DEF CancellerJob
  <2> QED
    BY <1>1, <1>4, <1>6 DEF CancellerJob
<1>14. Released'
  <2>1. \A u \in Threads : pc[u] = "RELEASE" => Agent(u) \in Agents /\ Agent(u) # a
    BY <1>1, <1>4, AtWork DEF Released
  <2> QED
    BY <1>1, <1>6, <1>8, <2>1 DEF Released
<1>15. Unregistered(a)' /\ Fresh'
  <2>1. active[a] = 0
    BY <1>1, <1>6 DEF Epochs, SchedTypes
  <2> QED
    BY <1>2, <1>5, <1>6, <1>8, <1>11, <2>1 DEF Unregistered, Fresh, ActivePhase
<1>16. Custody'
  <2> SUFFICES ASSUME NEW b \in Agents \ Damaged, phase'[b] \in ActivePhase
               PROVE  InHand(b)'
    BY DEF Custody
  <2>1. CASE b = a
    <3>1. InCharge(Loop, b)' /\ Loop \in Threads
      BY <1>2, <1>8, <2>1 DEF InCharge
    <3>2. lifecycle'[Run(b)] = "RUNNING"
      BY <1>1, <1>5, <1>6, <2>1 DEF Epochs
    <3> QED
      BY <1>6, <1>15, <2>1, <3>1, <3>2 DEF InHand
  <2>2. CASE b # a
    <3>1. InHand(b) /\ ~Unregistered(b)
      BY <1>1, <1>5, <1>6, <2>2 DEF Custody, Unregistered
    <3>2. \A u \in Threads : /\ InCharge(u, b) => InCharge(u, b)'
                             /\ Ender(u, b) => Ender(u, b)'
      BY <1>5, <1>8 DEF InCharge, Ender, EndingPlace
    <3> QED
      BY <1>2, <1>5, <1>6, <1>8, <2>2, <3>1, <3>2 DEF InHand
  <2> QED
    BY <2>1, <2>2
<1>17. LiveRuns'
  <2> SUFFICES ASSUME NEW rt \in live \ stray
               PROVE  /\ rt[2] = 1 /\ rt[1] \notin Damaged /\ ownerEpoch'[rt[1]] = 1
                      /\ phase'[rt[1]] \in ActivePhase
                      /\ \A u \in Threads :
                            Runtime(u)' = rt => pc'[u] \notin {"CLAIMED", "PERSIST", "RELEASE"}
    BY <1>1, <1>5 DEF LiveRuns
  <2>1. rt \in Runtimes /\ rt[1] \in Agents /\ rt[2] = 1 /\ ownerEpoch[rt[1]] = 1
    BY <1>1, <1>2 DEF LiveRuns, SchedTypes
  <2>2. rt[1] # a /\ rt # Run(a)
    BY <1>6, <2>1 DEF Run
  <2> QED
    BY <1>1, <1>6, <1>8, <2>1, <2>2 DEF LiveRuns
<1> QED
  BY <1>9, <1>10, <1>12, <1>13, <1>14, <1>15, <1>16, <1>17 DEF SchedInv

\* The runtime process of a fresh run.
LEMMA SpawnStep ==
    ASSUME Resumers = {}, TypeOK, SchedInv, Spawn(Loop)
    PROVE  SchedInv'
<1>1. SchedTypes /\ Prepared /\ Epochs /\ LoopJob /\ MonitorJob /\ CancellerJob
      /\ Released /\ Fresh /\ Custody /\ LiveRuns
  BY DEF SchedInv
<1>2. /\ Threads = {Loop} \cup Cancellers \cup Runtimes
      /\ Loop \notin Cancellers /\ Loop \notin Runtimes /\ Cancellers \cap Runtimes = {}
  BY Kinds
<1>3. /\ pc[Loop] = "CLAIMED" /\ pc' = [pc EXCEPT ![Loop] = "SPAWNED"]
      /\ live' = live \cup {Runtime(Loop)} /\ Agent(Loop) \notin Damaged
      /\ UNCHANGED <<phase, ownerEpoch, daemon, job, active, lifecycle, crashes, stray>>
  BY DEF Spawn, At, GoTo, vars, tables, taskVars, callers
<1> DEFINE a == Agent(Loop)
<1>4. /\ a \in Agents /\ Runtime(Loop) = Run(a) /\ ownerEpoch[a] = 1
      /\ Run(a) \in Runtimes /\ phase[a] \in ActivePhase /\ Unregistered(a)
      /\ pc[Run(a)] = "IDLE"
  BY <1>1, <1>3, RunOfClaimed DEF LoopJob, Fresh, Runtime, Run
<1>5. /\ pc'[Loop] = "SPAWNED" /\ \A u \in Threads \ {Loop} : pc'[u] = pc[u]
      /\ \A u \in Threads : Agent(u)' = Agent(u) /\ Epoch(u)' = Epoch(u)
      /\ \A u \in Threads : Runtime(u)' = Runtime(u)
  BY <1>1, <1>2, <1>3 DEF SchedTypes, Agent, Epoch, Runtime
<1>6. SchedTypes' /\ Prepared'
  BY <1>1, <1>2, <1>3, <1>4, PlacesKept DEF SchedTypes, LoopPlace, EndingPlace
<1>7. Epochs' /\ LoopJob' /\ MonitorJob'
  BY <1>1, <1>2, <1>3, <1>4, <1>5 DEF Epochs, LoopJob, MonitorJob
<1>8. CancellerJob' /\ Released'
  BY <1>1, <1>2, <1>3, <1>5 DEF CancellerJob, Released
<1>9. (\A b \in Agents : Unregistered(b) => Unregistered(b)') /\ Fresh'
  BY <1>1, <1>2, <1>3, <1>4, <1>5 DEF Unregistered, Fresh
<1>10. Custody'
  <2> SUFFICES ASSUME daemon = "UP", NEW b \in Agents \ Damaged, phase[b] \in ActivePhase
               PROVE  InHand(b)'
    BY <1>3 DEF Custody
  <2>1. \A u \in Threads : /\ InCharge(u, b) => InCharge(u, b)'
                           /\ Ender(u, b) => Ender(u, b)'
    BY <1>3, <1>5 DEF InCharge, Ender, EndingPlace
  <2> QED
    BY <1>1, <1>2, <1>3, <1>5, <1>9, <2>1 DEF Custody, InHand
<1>11. LiveRuns'
  <2> SUFFICES ASSUME NEW rt \in live' \ stray'
               PROVE  /\ rt[2] = 1 /\ rt[1] \notin Damaged /\ ownerEpoch[rt[1]] = 1
                      /\ phase[rt[1]] \in ActivePhase
                      /\ \A u \in Threads :
                            Runtime(u) = rt => pc'[u] \notin {"CLAIMED", "PERSIST", "RELEASE"}
    BY <1>1, <1>3, <1>5 DEF LiveRuns
  <2>1. CASE rt \in live
    BY <1>1, <1>3, <1>5, <2>1 DEF LiveRuns
  <2>2. CASE rt = Run(a)
    <3>1. \A u \in Runtimes : Runtime(u) = Run(a) => pc[u] \notin {"CLAIMED", "PERSIST", "RELEASE"}
      BY <1>1, <1>4 DEF MonitorJob
    <3>2. \A c \in Cancellers : Runtime(c) # Run(a)
      BY <1>4 DEF Unregistered
    <3> QED
      BY <1>2, <1>3, <1>4, <1>5, <2>2, <3>1, <3>2 DEF Run
  <2> QED
    BY <1>3, <1>4, <2>1, <2>2
<1> QED
  BY <1>6, <1>7, <1>8, <1>9, <1>10, <1>11 DEF SchedInv

\* From the registration on cancellers find the run.
LEMMA RegisterStep ==
    ASSUME Resumers = {}, TypeOK, SchedInv, Register(Loop)
    PROVE  SchedInv'
<1>1. SchedTypes /\ Prepared /\ Epochs /\ LoopJob /\ MonitorJob /\ CancellerJob
      /\ Released /\ Fresh /\ Custody /\ LiveRuns
  BY DEF SchedInv
<1>2. /\ Threads = {Loop} \cup Cancellers \cup Runtimes
      /\ Loop \notin Cancellers /\ Loop \notin Runtimes /\ Cancellers \cap Runtimes = {}
  BY Kinds
<1>3. /\ pc[Loop] = "SPAWNED" /\ pc' = [pc EXCEPT ![Loop] = "REGISTERED"]
      /\ active' = [active EXCEPT ![Agent(Loop)] = Epoch(Loop)]
      /\ UNCHANGED <<phase, ownerEpoch, daemon, job, live, lifecycle, crashes, stray>>
  BY DEF Register, At, GoTo, vars, tables, taskVars, callers
<1> DEFINE a == Agent(Loop)
<1>4. /\ a \in Agents /\ Runtime(Loop) = Run(a) /\ ownerEpoch[a] = 1 /\ Epoch(Loop) = 1
      /\ active'[a] = 1 /\ \A b \in Agents \ {a} : active'[b] = active[b]
      /\ active' \in [Agents -> {0, 1}]
  BY <1>1, <1>3 DEF LoopJob, SchedTypes, Runtime, Run
<1>5. /\ pc'[Loop] = "REGISTERED" /\ \A u \in Threads \ {Loop} : pc'[u] = pc[u]
      /\ \A u \in Threads : Agent(u)' = Agent(u) /\ Epoch(u)' = Epoch(u)
      /\ \A u \in Threads : Runtime(u)' = Runtime(u)
  BY <1>1, <1>2, <1>3 DEF SchedTypes, Agent, Epoch, Runtime
<1>6. SchedTypes' /\ Prepared'
  BY <1>1, <1>2, <1>3, <1>4, PlacesKept DEF SchedTypes, LoopPlace, EndingPlace
<1>7. Epochs' /\ LoopJob' /\ MonitorJob'
  <2>1. Epochs'
    BY <1>1, <1>3, <1>4 DEF Epochs
  <2>2. LoopJob' /\ MonitorJob'
    <3>1. Runtime(Loop) \in Runtimes /\ pc[Runtime(Loop)] = "IDLE"
      BY <1>1, <1>3, <1>4, RunOfClaimed DEF LoopJob
    <3> QED
      BY <1>1, <1>2, <1>3, <1>4, <1>5, <3>1 DEF LoopJob, MonitorJob
  <2> QED
    BY <2>1, <2>2
<1>8. CancellerJob' /\ Released' /\ Fresh'
  BY <1>1, <1>2, <1>3, <1>5 DEF CancellerJob, Released, Fresh
<1>9. Custody'
  <2> SUFFICES ASSUME daemon = "UP", NEW b \in Agents \ Damaged, phase[b] \in ActivePhase
               PROVE  InHand(b)'
    BY <1>3 DEF Custody
  <2>1. \A u \in Threads : /\ InCharge(u, b) => InCharge(u, b)'
                           /\ Ender(u, b) => Ender(u, b)'
    BY <1>3, <1>5 DEF InCharge, Ender, EndingPlace
  <2>2. InHand(b) /\ (Unregistered(b) => b = a)
    BY <1>1 DEF Custody, Unregistered
  <2> QED
    BY <1>2, <1>3, <1>4, <1>5, <2>1, <2>2 DEF InHand
<1>10. LiveRuns'
  BY <1>1, <1>2, <1>3, <1>5 DEF LiveRuns
<1> QED
  BY <1>6, <1>7, <1>8, <1>9, <1>10 DEF SchedInv

\* The claim loop hands its runtime to the monitor, or starts to clean it up.
LEMMA ReadMarkedStep ==
    ASSUME Resumers = {}, TypeOK, SchedInv, ReadMarked(Loop)
    PROVE  SchedInv'
<1>1. SchedTypes /\ Prepared /\ Epochs /\ LoopJob /\ MonitorJob /\ CancellerJob
      /\ Released /\ Fresh /\ Custody /\ LiveRuns
  BY DEF SchedInv
<1>2. /\ Threads = {Loop} \cup Cancellers \cup Runtimes
      /\ Loop \notin Cancellers /\ Loop \notin Runtimes /\ Cancellers \cap Runtimes = {}
  BY Kinds
<1>3. /\ pc[Loop] = "MARKED" /\ daemon = "UP"
      /\ UNCHANGED <<phase, ownerEpoch, daemon, active, live, lifecycle, crashes, stray>>
  BY DEF ReadMarked, At, memory, vars, tables, taskVars, callers
<1>4. PICK a \in Agents, rt \in Runtimes :
         /\ a = Agent(Loop) /\ rt = Run(a)
         /\ Runtime(Loop) = rt /\ ownerEpoch[a] = 1 /\ Epoch(Loop) = 1 /\ pc[rt] = "IDLE"
  BY <1>1, <1>3, RunOfClaimed DEF LoopJob, Runtime, Run
<1>5. CASE Aim(Loop, "CANCELLED", "READY") /\ GoTo(Loop, "CLEANUP")
  BY <1>1, <1>2, <1>3, <1>5, AimAndAdvance, OutcomeAssumption
     DEF EndingPlace, NotInCharge, LoopPlace, PhaseKept, SchedTypes
<1>6. CASE SpawnMonitor(Loop)
  <2>1. /\ pc' = [pc EXCEPT ![Loop] = "READY", ![rt] = "WATCHING"]
        /\ job' = [job EXCEPT ![Loop] = Idle, ![rt] = [Idle EXCEPT !.agent = a, !.epoch = 1]]
    BY <1>4, <1>6 DEF SpawnMonitor
  <2>2. Idle \in Job /\ [Idle EXCEPT !.agent = a, !.epoch = 1] \in Job
    BY <1>4 DEF Idle, Job
  <2>3. /\ pc'[Loop] = "READY" /\ pc'[rt] = "WATCHING"
        /\ \A u \in Threads \ {Loop, rt} : pc'[u] = pc[u] /\ job'[u] = job[u]
        /\ job'[Loop] = Idle /\ job'[rt].agent = a /\ job'[rt].epoch = 1 /\ job'[rt].then = "IDLE"
        /\ job' \in [Threads -> Job]
        /\ pc' \in [Threads -> LoopPlace \cup MonitorPlace \cup CancellerPlace]
    BY <1>1, <1>2, <1>4, <2>1, <2>2 DEF SchedTypes, Idle, LoopPlace, MonitorPlace
  <2>4. SchedTypes' /\ Prepared'
    <3>1. SchedTypes'
      BY <1>1, <1>2, <1>3, <1>4, <2>3 DEF SchedTypes, LoopPlace, MonitorPlace
    <3>2. Prepared'
      BY <1>1, <1>2, <1>4, <2>3 DEF Prepared, EndingPlace
    <3> QED
      BY <3>1, <3>2
  <2>5. /\ Runtime(rt)' = rt /\ Agent(rt)' = a
        /\ \A u \in Threads \ {Loop, rt} : Agent(u)' = Agent(u) /\ Epoch(u)' = Epoch(u)
        /\ \A u \in Threads \ {Loop, rt} : Runtime(u)' = Runtime(u)
    BY <1>4, <2>3 DEF Agent, Epoch, Runtime, Run
  <2>6. Epochs' /\ LoopJob' /\ MonitorJob' /\ Fresh'
    <3>1. Epochs' /\ LoopJob' /\ Fresh'
      BY <1>1, <1>3, <2>3 DEF Epochs, LoopJob, Fresh
    <3>2. MonitorJob'
      BY <1>1, <1>2, <1>3, <1>4, <2>3, <2>5 DEF MonitorJob, Run
    <3> QED
      BY <3>1, <3>2
  <2>7. CancellerJob' /\ Released'
    BY <1>1, <1>2, <1>3, <1>4, <2>3, <2>5 DEF CancellerJob, Released
  <2>8. Custody'
    <3> SUFFICES ASSUME NEW b \in Agents \ Damaged, phase[b] \in ActivePhase
                 PROVE  InHand(b)'
      BY <1>3 DEF Custody
    <3>1. InHand(b) /\ ~Unregistered(b)
      BY <1>1, <1>3 DEF Custody, Unregistered
    <3>2. \A u \in Threads : Ender(u, b) => Ender(u, b)'
      BY <1>3, <1>4, <2>3, <2>5 DEF Ender, EndingPlace
    <3>3. (\E u \in Threads : InCharge(u, b)) => \E u \in Threads : InCharge(u, b)'
      <4> SUFFICES ASSUME NEW u \in Threads, InCharge(u, b)
                   PROVE  \E w \in Threads : InCharge(w, b)'
        OBVIOUS
      <4>1. CASE u = Loop
        <5>1. b = a
          BY <1>4, <4>1 DEF InCharge, Run
        <5>2. InCharge(rt, b)'
          BY <1>4, <2>3, <2>5, <5>1 DEF InCharge
        <5> QED
          BY <1>2, <1>4, <5>2
      <4>2. CASE u # Loop
        BY <1>4, <2>3, <2>5, <4>2 DEF InCharge
      <4> QED
        BY <4>1, <4>2
    <3>4. ownerEpoch[b] = 0
            => \E c \in Cancellers : Agent(c)' = b /\ pc'[c] = "PERSIST"
      BY <1>2, <1>4, <2>3, <2>5, <3>1 DEF InHand
    <3> QED
      BY <1>3, <3>1, <3>2, <3>3, <3>4 DEF InHand
  <2>9. LiveRuns'
    <3> SUFFICES ASSUME NEW p \in live \ stray
                 PROVE  \A u \in Threads :
                           Runtime(u)' = p => pc'[u] \notin {"CLAIMED", "PERSIST", "RELEASE"}
      BY <1>1, <1>3 DEF LiveRuns
    <3> QED
      BY <1>1, <2>3, <2>5 DEF LiveRuns
  <2> QED
    BY <2>4, <2>6, <2>7, <2>8, <2>9 DEF SchedInv
<1>7. ~(Epoch(Loop) > 1)
  BY <1>4
<1> QED
  BY <1>5, <1>6, <1>7 DEF ReadMarked

\* A thread that stands down with nothing in hand.
LEMMA StandDown ==
    ASSUME Resumers = {}, SchedInv, NEW t \in Threads \ Runtimes, NEW p \in {"IDLE", "READY"},
           t = Loop <=> p = "READY",
           pc' = [pc EXCEPT ![t] = p], job' = [job EXCEPT ![t] = Idle],
           pc[t] \notin {"CLAIMED", "SPAWNED", "PERSIST"}, Keeps,
           active' \in [Agents -> {0, 1}],
           lifecycle' \in [Runtimes -> {"RUNNING", "STOPPING", "TERMINAL"}],
           \A a \in Agents \ Damaged : Runtime(t) = Run(a) => phase[a] \notin ActivePhase,
           \A rt \in Runtimes : lifecycle'[rt] # lifecycle[rt]
                              => ownerEpoch[rt[1]] = 1 /\ phase[rt[1]] = "TERMINAL"
    PROVE  SchedInv'
<1>1. SchedTypes /\ Prepared
  BY DEF SchedInv
<1>2. Idle \in Job /\ Idle.then = "IDLE"
  BY DEF Idle, Job
<1>3. job' \in [Threads -> Job] /\ job'[t] = Idle /\ \A u \in Threads \ {t} : job'[u] = job[u]
  BY <1>1, <1>2 DEF SchedTypes
<1>4. live' \subseteq Runtimes /\ UNCHANGED <<crashes, stray>>
  BY <1>1 DEF SchedTypes, Keeps
<1>5. SchedTypes' /\ Prepared'
  BY <1>1, <1>2, <1>3, <1>4, PlacesKept, Kinds DEF EndingPlace, LoopPlace, CancellerPlace
<1> QED
  BY <1>5, GiveUp

\* A canceller or the claim loop whose run lost its registration: the run is over.
LEMMA Deregistered ==
    ASSUME Resumers = {}, SchedInv, daemon = "UP", NEW t \in Threads \ Runtimes,
           pc[t] \in {"LOCK", "CLEANUP", "CLEANUP_STOP"}, active[Agent(t)] # 1,
           Agent(t) \notin Damaged
    PROVE  phase[Agent(t)] \notin ActivePhase
<1>1. SchedTypes /\ Custody
  BY DEF SchedInv
<1>2. Agent(t) \in Agents /\ Runtime(t) = Run(Agent(t)) /\ ownerEpoch[Agent(t)] = 1
  BY AtWork
<1>3. ~Unregistered(Agent(t))
  BY <1>1, <1>2, Kinds DEF Unregistered
<1> QED
  BY <1>1, <1>2, <1>3 DEF Custody, InHand

\* cleanup_registered_runtime
LEMMA CleanupSteps ==
    ASSUME Resumers = {}, TypeOK, SchedInv, NEW t \in Threads, Cleanup(t) \/ CleanupStop(t)
    PROVE  SchedInv'
<1>1. SchedTypes /\ Prepared /\ Epochs
  BY DEF SchedInv
<1>2. /\ Threads = {Loop} \cup Cancellers \cup Runtimes /\ Starters = {Loop}
      /\ Loop \notin Cancellers /\ Loop \notin Runtimes /\ Cancellers \cap Runtimes = {}
      /\ Loop \notin Resumers
  BY Kinds
<1>3. pc[t] \in {"CLEANUP", "CLEANUP_STOP"} /\ daemon = "UP"
  BY DEF Cleanup, CleanupStop, At
<1>4. t \notin Runtimes
  BY <1>1, <1>3 DEF SchedTypes, MonitorPlace
<1>5. /\ Agent(t) \in Agents /\ Epoch(t) = 1 /\ ownerEpoch[Agent(t)] = 1
      /\ Runtime(t) = Run(Agent(t)) /\ Runtime(t) \in Runtimes
  BY <1>1, <1>3, AtWork, RunOfClaimed
<1>6. /\ job[t].force \in Outcome /\ job[t].then \in {"IDLE", "READY"}
      /\ t = Loop => job[t].then = "READY"
      /\ t # Loop => job[t].then = "IDLE"
  BY <1>1, <1>3 DEF Prepared, EndingPlace
<1>7. CASE Cleanup(t)
  <2>1. PICK force \in Outcome : Aim(t, force, job[t].then)
    BY <1>6, <1>7, OutcomeAssumption DEF Cleanup
  <2>2. /\ pc[t] = "CLEANUP" /\ GoTo(t, "CLEANUP_STOP") /\ RequestRuntimeStop(Agent(t))
        /\ UNCHANGED <<daemon, active, live, lifecycle, crashes, stray>>
    BY <1>7 DEF Cleanup, At, memory, callers
  <2>3. PhaseKept /\ ownerEpoch' = ownerEpoch
    <3>1. phase[Agent(t)] # "QUEUED"
      BY <1>1, <1>5 DEF Epochs
    <3> QED
      BY <1>5, <2>2, <3>1, StopEffect
  <2>4. lifecycle' \in [Runtimes -> {"RUNNING", "STOPPING", "TERMINAL"}]
    BY <1>1, <2>2 DEF SchedTypes
  <2> QED
    BY <1>2, <1>4, <1>6, <2>1, <2>2, <2>3, <2>4, AimAndAdvance
       DEF EndingPlace, LoopPlace, CancellerPlace
<1>8. CASE CleanupStop(t)
  <2>1. /\ pc[t] = "CLEANUP_STOP"
        /\ UNCHANGED <<phase, ownerEpoch, daemon, active, crashes, stray>>
    BY <1>8 DEF CleanupStop, At, vars, tables, taskVars, callers
  <2>2. PhaseKept
    BY <2>1 DEF PhaseKept
  <2>3. active' \in [Agents -> {0, 1}]
    BY <1>1, <2>1 DEF SchedTypes
  <2>4. CASE active[Agent(t)] = Epoch(t)
    <3>1. /\ pc' = [pc EXCEPT ![t] = "PERSIST"] /\ live' = live \ {Runtime(t)} /\ job' = job
          /\ lifecycle' = [lifecycle EXCEPT ![Runtime(t)] = "TERMINAL"]
      BY <1>8, <2>4 DEF CleanupStop, GoTo
    <3>2. /\ lifecycle' \in [Runtimes -> {"RUNNING", "STOPPING", "TERMINAL"}]
          /\ \A rt \in Runtimes : lifecycle'[rt] # lifecycle[rt] => rt = Runtime(t)
          /\ live' \subseteq Runtimes /\ live' \subseteq live /\ job' \in [Threads -> Job]
      BY <1>1, <3>1 DEF SchedTypes
    <3>3. SchedTypes' /\ Prepared'
      BY <1>1, <1>2, <1>4, <1>6, <2>1, <2>3, <3>1, <3>2, PlacesKept
         DEF EndingPlace, LoopPlace, CancellerPlace
    <3>4. Keeps
      BY <2>1, <2>2, <3>2 DEF Keeps
    <3> QED
      BY <2>1, <3>1, <3>2, <3>3, <3>4, Advance DEF EndingPlace, NotInCharge, Agent, Epoch
  <2>5. CASE active[Agent(t)] # Epoch(t)
    <3> DEFINE p == IF t = Loop THEN "READY" ELSE "IDLE"
    <3>1. /\ pc' = [pc EXCEPT ![t] = p] /\ job' = [job EXCEPT ![t] = Idle]
          /\ lifecycle' = lifecycle /\ live' \subseteq live
      BY <1>2, <1>8, <2>5 DEF CleanupStop, GoTo, Failure
    <3>2. lifecycle' \in [Runtimes -> {"RUNNING", "STOPPING", "TERMINAL"}]
      BY <1>1, <3>1 DEF SchedTypes
    <3>3. Keeps
      BY <2>1, <2>2, <3>1 DEF Keeps
    <3>4. \A a \in Agents \ Damaged : Runtime(t) = Run(a) => phase[a] \notin ActivePhase
      BY <1>3, <1>4, <1>5, <2>5, Deregistered DEF Run
    <3> QED
      BY <1>4, <2>1, <2>3, <3>1, <3>2, <3>3, <3>4, StandDown
  <2> QED
    BY <2>4, <2>5
<1> QED
  BY <1>7, <1>8

\* A caller looks up the registered run of the task it wants to stop.
LEMMA CancelBeginStep ==
    ASSUME Resumers = {}, TypeOK, SchedInv, NEW c \in Cancellers, NEW a \in Agents,
           CancelBegin(c, a)
    PROVE  SchedInv'
<1>1. SchedTypes /\ Prepared /\ Epochs /\ LoopJob /\ MonitorJob /\ CancellerJob
      /\ Released /\ Fresh /\ Custody /\ LiveRuns
  BY DEF SchedInv
<1>2. /\ Threads = {Loop} \cup Cancellers \cup Runtimes
      /\ Loop \notin Cancellers /\ Loop \notin Runtimes /\ Cancellers \cap Runtimes = {}
  BY Kinds
<1>3. /\ pc[c] = "IDLE" /\ pc' = [pc EXCEPT ![c] = "REQUEST"] /\ phase[a] # "ABSENT"
      /\ job' = [job EXCEPT ![c] = [Idle EXCEPT !.agent = a, !.epoch = active[a]]]
      /\ UNCHANGED <<phase, ownerEpoch, daemon, active, live, lifecycle, crashes, stray>>
  BY DEF CancelBegin, At, GoTo, memory, vars, tables, taskVars, callers
<1>4. [Idle EXCEPT !.agent = a, !.epoch = active[a]] \in Job
  BY <1>1 DEF SchedTypes, Idle, Job
<1>5. /\ job' \in [Threads -> Job] /\ \A u \in Threads \ {c} : job'[u] = job[u]
      /\ job'[c].agent = a /\ job'[c].epoch = active[a] /\ job'[c].then = "IDLE"
  BY <1>1, <1>2, <1>3, <1>4 DEF SchedTypes, Idle
<1>6. /\ pc'[c] = "REQUEST" /\ \A u \in Threads \ {c} : pc'[u] = pc[u]
      /\ Agent(c)' = a /\ Epoch(c)' = active[a]
      /\ \A u \in Threads \ {c} : Agent(u)' = Agent(u) /\ Epoch(u)' = Epoch(u)
      /\ \A u \in Threads \ {c} : Runtime(u)' = Runtime(u)
  BY <1>1, <1>2, <1>3, <1>5 DEF SchedTypes, Agent, Epoch, Runtime
<1>7. SchedTypes' /\ Prepared'
  BY <1>1, <1>2, <1>3, <1>5, PlacesKept DEF SchedTypes, CancellerPlace, EndingPlace
<1>8. Epochs' /\ LoopJob' /\ MonitorJob'
  <2>1. Epochs'
    BY <1>1, <1>3 DEF Epochs
  <2>2. LoopJob'
    <3>1. pc[Loop] # "READY" => Runtime(Loop) \in Runtimes
      BY <1>1, <1>2, AtWork, RunOfClaimed DEF SchedTypes, LoopPlace, LoopJob, Runtime, Run
    <3> QED
      BY <1>1, <1>2, <1>3, <1>6, <3>1 DEF LoopJob
  <2>3. MonitorJob'
    BY <1>1, <1>2, <1>3, <1>6 DEF MonitorJob
  <2> QED
    BY <2>1, <2>2, <2>3
<1>9. CancellerJob'
  <2> SUFFICES ASSUME NEW d \in Cancellers
               PROVE  /\ pc'[d] = "IDLE" => job'[d] = Idle
                      /\ pc'[d] # "IDLE" => Agent(d)' \in Agents /\ phase[Agent(d)'] # "ABSENT"
                      /\ Epoch(d)' = 1 => pc'[d] # "IDLE" /\ ownerEpoch[Agent(d)'] = 1
                      /\ pc'[d] \in {"LOCK", "CLEANUP", "CLEANUP_STOP"} => Epoch(d)' = 1
                      /\ pc'[d] \in {"PERSIST", "RELEASE"} /\ Epoch(d)' = 0
                           => /\ ownerEpoch[Agent(d)'] = 0
                              /\ phase[Agent(d)'] \in {"CANCELLING", "TERMINAL"}
    BY <1>3 DEF CancellerJob
  <2>1. CASE d = c
    BY <1>1, <1>3, <1>6, <2>1 DEF Epochs
  <2>2. CASE d # c
    BY <1>1, <1>2, <1>5, <1>6, <2>2 DEF CancellerJob
  <2> QED
    BY <2>1, <2>2
<1>10. Released'
  BY <1>1, <1>2, <1>3, <1>6 DEF Released
<1>11. (\A b \in Agents : Unregistered(b) => Unregistered(b)') /\ Fresh'
  <2>1. \A b \in Agents : Unregistered(b) => Runtime(c)' # Run(b)
    BY <1>6 DEF Unregistered, Runtime, Run
  <2>2. \A b \in Agents : Unregistered(b) => Unregistered(b)'
    BY <1>2, <1>3, <1>6, <2>1 DEF Unregistered
  <2> QED
    BY <1>1, <1>2, <1>3, <1>6, <2>2 DEF Fresh, LoopJob
<1>12. Custody'
  <2> SUFFICES ASSUME daemon = "UP", NEW b \in Agents \ Damaged, phase[b] \in ActivePhase
               PROVE  InHand(b)'
    BY <1>3 DEF Custody
  <2>1. \A u \in Threads : /\ InCharge(u, b) => InCharge(u, b)'
                           /\ Ender(u, b) => Ender(u, b)'
    BY <1>3, <1>6 DEF InCharge, Ender, EndingPlace
  <2>2. InHand(b)
    BY <1>1 DEF Custody
  <2> QED
    BY <1>2, <1>3, <1>6, <1>11, <2>1, <2>2 DEF InHand
<1>13. LiveRuns'
  BY <1>1, <1>3, <1>6 DEF LiveRuns
<1> QED
  BY <1>7, <1>8, <1>9, <1>10, <1>11, <1>12, <1>13 DEF SchedInv

\* A stop or a close is asked for: the caller ends a queued task itself, goes for the
\* run it has seen, or leaves the task to the thread that starts it.
LEMMA CancelRequestStep ==
    ASSUME Resumers = {}, TypeOK, SchedInv, NEW c \in Cancellers, CancelRequest(c)
    PROVE  SchedInv'
<1>1. SchedTypes /\ Prepared /\ Epochs /\ LoopJob /\ MonitorJob /\ CancellerJob
      /\ Released /\ Fresh /\ Custody /\ LiveRuns
  BY DEF SchedInv
<1>2. /\ Threads = {Loop} \cup Cancellers \cup Runtimes
      /\ Loop \notin Cancellers /\ Loop \notin Runtimes /\ Cancellers \cap Runtimes = {}
      /\ \A rt \in Runtimes : rt = <<rt[1], rt[2]>> /\ rt[1] \in Agents
  BY Kinds
<1>3. /\ pc[c] = "REQUEST" /\ daemon = "UP"
      /\ RequestStop(Agent(c)) \/ RequestClose(Agent(c))
      /\ lifecycle' = IF Epoch(c) > 0 /\ lifecycle[Runtime(c)] = "RUNNING"
                      THEN [lifecycle EXCEPT ![Runtime(c)] = "STOPPING"] ELSE lifecycle
      /\ UNCHANGED <<daemon, active, live, crashes, stray>>
  BY DEF CancelRequest, At, callers
<1>4. PICK a \in Agents : a = Agent(c) /\ phase[a] # "ABSENT"
  BY <1>1, <1>3 DEF CancellerJob
<1>5. Epoch(c) \in {0, 1} /\ (Epoch(c) = 1 => ownerEpoch[a] = 1 /\ Runtime(c) = Run(a))
  BY <1>1, <1>2, <1>4 DEF SchedTypes, Job, Epoch, CancellerJob, Runtime, Run
<1>6. /\ ownerEpoch' = ownerEpoch
      /\ phase[a] # "TERMINAL" => phase' = [phase EXCEPT ![a] = "CANCELLING"]
      /\ phase[a] = "TERMINAL" => phase' = phase
      /\ phase[a] # "QUEUED" => PhaseKept
  BY <1>3, <1>4, StopEffect
<1>7. /\ lifecycle' \in [Runtimes -> {"RUNNING", "STOPPING", "TERMINAL"}]
      /\ \A rt \in Runtimes : lifecycle'[rt] # lifecycle[rt] => rt = Runtime(c) /\ Epoch(c) = 1
  <2>1. lifecycle \in [Runtimes -> {"RUNNING", "STOPPING", "TERMINAL"}]
    BY <1>1 DEF SchedTypes
  <2>2. CASE Epoch(c) = 1
    BY <1>3, <2>1, <2>2
  <2>3. CASE Epoch(c) = 0
    BY <1>3, <2>1, <2>3
  <2> QED
    BY <1>5, <2>2, <2>3
<1>8. CASE phase[a] = "QUEUED" /\ Epoch(c) = 0 /\ Aim(c, "CANCELLED", "IDLE") /\ GoTo(c, "PERSIST")
  <2>1. /\ ownerEpoch[a] = 0 /\ lifecycle' = lifecycle /\ phase'[a] = "CANCELLING"
        /\ \A b \in Agents \ {a} : phase'[b] = phase[b]
    BY <1>1, <1>3, <1>6, <1>8 DEF Epochs, TypeOK, TablesOK
  <2>2. /\ job' \in [Threads -> Job] /\ \A u \in Threads \ {c} : job'[u] = job[u]
        /\ job'[c].agent = a /\ job'[c].epoch = 0
        /\ job'[c].force = "CANCELLED" /\ job'[c].then = "IDLE"
    BY <1>1, <1>2, <1>4, <1>8, AimJob, OutcomeAssumption
  <2>3. SchedTypes' /\ Prepared'
    <3>1. active' \in [Agents -> {0, 1}] /\ UNCHANGED <<crashes, stray>> /\ live' \subseteq Runtimes
      BY <1>1, <1>3 DEF SchedTypes
    <3>2. c \in Threads /\ c # Loop /\ c \notin Runtimes
      BY <1>2
    <3> QED
      BY <1>1, <1>7, <1>8, <2>2, <3>1, <3>2, PlacesKept, OutcomeAssumption
         DEF CancellerPlace, GoTo
  <2>4. /\ pc'[c] = "PERSIST" /\ \A u \in Threads \ {c} : pc'[u] = pc[u]
        /\ \A u \in Threads : Agent(u)' = Agent(u) /\ Epoch(u)' = Epoch(u)
        /\ \A u \in Threads : Runtime(u)' = Runtime(u)
    BY <1>1, <1>2, <1>4, <1>8, <2>2 DEF SchedTypes, GoTo, Agent, Epoch, Runtime
  <2>5. Epochs' /\ LoopJob' /\ MonitorJob'
    <3>1. Epochs'
      BY <1>1, <1>3, <1>6, <2>1 DEF Epochs
    <3>2. LoopJob'
      <4>1. pc[Loop] # "READY" => Runtime(Loop) \in Runtimes
        BY <1>1, RunOfClaimed DEF LoopJob, Runtime, Run
      <4> QED
        BY <1>1, <1>2, <1>3, <1>6, <2>4, <4>1 DEF LoopJob
    <3>3. MonitorJob'
      BY <1>1, <1>2, <1>6, <2>4 DEF MonitorJob
    <3> QED
      BY <3>1, <3>2, <3>3
  <2>6. CancellerJob'
    BY <1>1, <1>2, <1>4, <1>6, <1>8, <2>1, <2>2, <2>4 DEF CancellerJob
  <2>7. Released'
    <3>1. \A u \in Threads : pc[u] = "RELEASE" => Agent(u) \in Agents /\ Agent(u) # a
      BY <1>1, <1>8, AtWork DEF Released
    <3> QED
      BY <1>1, <2>1, <2>4, <3>1 DEF Released
  <2>8. (\A b \in Agents : Unregistered(b) => Unregistered(b)') /\ Fresh'
    <3>1. \A b \in Agents : Unregistered(b) => Unregistered(b)'
      BY <1>2, <1>3, <2>4 DEF Unregistered
    <3> QED
      BY <1>1, <1>2, <1>8, <2>1, <2>4, <3>1 DEF Fresh, LoopJob, ActivePhase
  <2>9. Custody'
    <3> SUFFICES ASSUME NEW b \in Agents \ Damaged, phase'[b] \in ActivePhase
                 PROVE  InHand(b)'
      BY DEF Custody
    <3>1. CASE b = a
      <4>1. Agent(c)' = b /\ pc'[c] = "PERSIST" /\ ownerEpoch'[b] = 0
        BY <1>2, <1>4, <1>6, <2>1, <2>4, <3>1
      <4> QED
        BY <4>1 DEF InHand
    <3>2. CASE b # a
      <4>1. InHand(b)
        BY <1>1, <1>3, <2>1, <3>2 DEF Custody
      <4>2. \A u \in Threads : /\ InCharge(u, b) => InCharge(u, b)'
                               /\ Ender(u, b) => Ender(u, b)'
        BY <1>3, <2>4 DEF InCharge, Ender, EndingPlace
      <4>3. ownerEpoch[b] = 0 => \E d \in Cancellers : Agent(d)' = b /\ pc'[d] = "PERSIST"
        BY <1>2, <2>4, <4>1 DEF InHand
      <4> QED
        BY <1>3, <1>6, <2>1, <2>8, <4>1, <4>2, <4>3 DEF InHand
    <3> QED
      BY <3>1, <3>2
  <2>10. LiveRuns'
    <3> SUFFICES ASSUME NEW rt \in live \ stray
                 PROVE  /\ rt[2] = 1 /\ rt[1] \notin Damaged /\ ownerEpoch[rt[1]] = 1
                      /\ phase'[rt[1]] \in ActivePhase
                        /\ \A u \in Threads :
                              Runtime(u) = rt => pc'[u] \notin {"CLAIMED", "PERSIST", "RELEASE"}
      BY <1>1, <1>3, <1>6, <2>4 DEF LiveRuns
    <3>1. rt \in Runtimes /\ rt[1] \in Agents /\ rt[1] # a /\ rt[2] = 1 /\ ownerEpoch[rt[1]] = 1
      BY <1>1, <1>2, <2>1 DEF LiveRuns, SchedTypes
    <3>2. Runtime(c) # rt
      BY <1>4, <3>1 DEF Runtime
    <3> QED
      BY <1>1, <2>1, <2>4, <3>1, <3>2 DEF LiveRuns
  <2> QED
    BY <2>3, <2>5, <2>6, <2>7, <2>8, <2>9, <2>10 DEF SchedInv
<1>9. CASE /\ Epoch(c) > 0 /\ Epoch(c) = ownerEpoch[a]
           /\ Aim(c, "CANCELLED", "IDLE") /\ GoTo(c, "LOCK")
  <2>1. Epoch(c) = 1 /\ PhaseKept
    BY <1>1, <1>5, <1>6, <1>9 DEF Epochs
  <2> QED
    BY <1>2, <1>3, <1>6, <1>7, <1>9, <2>1, AimAndAdvance, OutcomeAssumption
       DEF EndingPlace, CancellerPlace
<1>10. CASE /\ phase[a] = "TERMINAL" \/ (phase[a] = "QUEUED" /\ Epoch(c) > 0)
                 \/ (phase[a] \in ActivePhase /\ (Epoch(c) = 0 \/ Epoch(c) # ownerEpoch[a]))
            /\ job' = [job EXCEPT ![c] = Idle] /\ GoTo(c, "IDLE")
  <2>1. phase[a] = "TERMINAL" \/ (phase[a] \in ActivePhase /\ Epoch(c) = 0)
    BY <1>1, <1>5, <1>10 DEF Epochs
  <2>2. PhaseKept /\ Keeps
    BY <1>1, <1>3, <1>6, <2>1 DEF Keeps, ActivePhase
  <2>3. \A b \in Agents : Runtime(c) = Run(b) => phase[b] \notin ActivePhase
    BY <1>4, <2>1 DEF Runtime, Run, ActivePhase
  <2>4. \A rt \in Runtimes : lifecycle'[rt] # lifecycle[rt]
                              => ownerEpoch[rt[1]] = 1 /\ phase[rt[1]] = "TERMINAL"
    BY <1>5, <1>7, <2>1 DEF Run
  <2> QED
    BY <1>1, <1>2, <1>3, <1>7, <1>10, <2>2, <2>3, <2>4, StandDown DEF GoTo, SchedTypes
<1> QED
  BY <1>4, <1>8, <1>9, <1>10 DEF CancelRequest

\* The caller waits for the operation lock of the run it has seen.
LEMMA CancelLockStep ==
    ASSUME Resumers = {}, TypeOK, SchedInv, NEW c \in Cancellers, CancelStop(c) \/ CancelTimeout(c)
    PROVE  SchedInv'
<1>1. SchedTypes /\ Prepared
  BY DEF SchedInv
<1>2. c \in Threads \ Runtimes /\ c # Loop /\ c \notin Runtimes
  BY Kinds
<1>3. /\ pc[c] = "LOCK" /\ daemon = "UP"
      /\ UNCHANGED <<phase, ownerEpoch, daemon, active, crashes, stray>>
  BY DEF CancelStop, CancelTimeout, At, memory, vars, tables, taskVars, callers
<1>4. /\ Agent(c) \in Agents /\ Epoch(c) = 1 /\ Runtime(c) = Run(Agent(c))
      /\ active[Agent(c)] \in {0, 1} /\ active' \in [Agents -> {0, 1}]
      /\ job[c].force \in Outcome /\ job[c].then = "IDLE"
  BY <1>1, <1>2, <1>3, AtWork DEF SchedTypes, Prepared, EndingPlace
<1>5. PhaseKept
  BY <1>3 DEF PhaseKept
<1>6. CASE /\ active[Agent(c)] = 0 /\ job' = [job EXCEPT ![c] = Idle] /\ GoTo(c, "IDLE")
           /\ UNCHANGED <<live, lifecycle>>
  <2>1. \A a \in Agents \ Damaged : Runtime(c) = Run(a) => phase[a] \notin ActivePhase
    BY <1>2, <1>3, <1>4, <1>6, Deregistered DEF Run
  <2>2. Keeps
    BY <1>3, <1>5, <1>6 DEF Keeps
  <2>3. lifecycle' \in [Runtimes -> {"RUNNING", "STOPPING", "TERMINAL"}]
    BY <1>1, <1>6 DEF SchedTypes
  <2> QED
    BY <1>2, <1>3, <1>4, <1>6, <2>1, <2>2, <2>3, StandDown DEF GoTo
<1>7. CASE /\ active[Agent(c)] = 1 /\ GoTo(c, "PERSIST") /\ job' = job
           /\ live' = live \ {Runtime(c)}
           /\ lifecycle' = [lifecycle EXCEPT ![Runtime(c)] = "TERMINAL"]
  <2>1. /\ lifecycle' \in [Runtimes -> {"RUNNING", "STOPPING", "TERMINAL"}]
        /\ \A rt \in Runtimes : lifecycle'[rt] # lifecycle[rt] => rt = Runtime(c)
        /\ live' \subseteq Runtimes /\ live' \subseteq live /\ job' \in [Threads -> Job]
    BY <1>1, <1>7 DEF SchedTypes
  <2>2. SchedTypes' /\ Prepared'
    BY <1>1, <1>2, <1>3, <1>4, <1>7, <2>1, PlacesKept DEF CancellerPlace, GoTo
  <2>3. Keeps
    BY <1>3, <1>5, <2>1 DEF Keeps
  <2> QED
    BY <1>2, <1>3, <1>7, <2>1, <2>2, <2>3, Advance
       DEF EndingPlace, NotInCharge, Agent, Epoch, GoTo
<1>8. CASE /\ Aim(c, "FAILED", "IDLE") /\ GoTo(c, "CLEANUP") /\ UNCHANGED <<live, lifecycle>>
  <2>1. lifecycle' \in [Runtimes -> {"RUNNING", "STOPPING", "TERMINAL"}]
    BY <1>1, <1>8 DEF SchedTypes
  <2> QED
    BY <1>2, <1>3, <1>5, <1>8, <2>1, AimAndAdvance, ForcedAssumption
       DEF EndingPlace, CancellerPlace
<1>9. CASE CancelStop(c)
  BY <1>4, <1>6, <1>7, <1>9 DEF CancelStop, Runtime
<1>10. CASE CancelTimeout(c)
  BY <1>4, <1>6, <1>8, <1>10 DEF CancelTimeout, memory, callers
<1> QED
  BY <1>9, <1>10

\* What storing a result does to the phases.
LEMMA PersistEffect ==
    ASSUME TypeOK, RowsAgree, NEW a \in Agents, NEW force, PersistResult(a, force),
           phase[a] \in ActivePhase \cup {"TERMINAL"}
    PROVE  phase' = [phase EXCEPT ![a] = "TERMINAL"] /\ ownerEpoch' = ownerEpoch
<1>1. CASE phase[a] = "TERMINAL"
  BY <1>1 DEF TypeOK, TablesOK, PersistResult, ActivePhase, vars, tables, taskVars, callers
<1>2. CASE phase[a] \in ActivePhase
  <2>1. result[a] = NoResult
    BY <1>2 DEF RowsAgree, TablesAgree, ResultAgreesWithOutcome, ActivePhase
  <2> QED
    BY <1>2, <2>1 DEF PersistResult, StoreTaskResult, ApplyTerminal
<1> QED
  BY <1>1, <1>2

\* The result is stored, whoever was first.
LEMMA PersistStep ==
    ASSUME Resumers = {}, TypeOK, RowsAgree, SchedInv, NEW t \in Threads, Persist(t)
    PROVE  SchedInv'
<1>1. SchedTypes /\ Prepared /\ Epochs /\ CancellerJob /\ LiveRuns
  BY DEF SchedInv
<1>2. /\ pc[t] = "PERSIST" /\ PersistResult(Agent(t), job[t].force)
      /\ pc' = [pc EXCEPT ![t] = "RELEASE"]
      /\ UNCHANGED <<daemon, job, active, lifecycle, live, crashes, stray>>
  BY DEF Persist, At, GoTo, memory, callers
<1>3. /\ Threads = {Loop} \cup Cancellers \cup Runtimes
      /\ Loop \notin Cancellers /\ Loop \notin Runtimes /\ Cancellers \cap Runtimes = {}
  BY Kinds
<1>4. Agent(t) \in Agents /\ (Epoch(t) = 1 => ownerEpoch[Agent(t)] = 1)
  BY <1>2, AtWork
<1>5. phase[Agent(t)] \in ActivePhase \cup {"TERMINAL"}
  <2>1. CASE ownerEpoch[Agent(t)] = 1
    BY <1>1, <1>4, <2>1 DEF Epochs, TypeOK, TablesOK, Phase, BusyPhase
  <2>2. CASE ownerEpoch[Agent(t)] # 1
    <3>1. t \in Cancellers /\ Epoch(t) = 0
      <4>1. Epoch(t) \in {0, 1}
        BY <1>1 DEF SchedTypes, Job, Epoch
      <4> QED
        BY <1>2, <1>3, <1>4, <2>2, <4>1 DEF SchedInv, LoopJob, MonitorJob, Runtime
    <3> QED
      BY <1>1, <1>2, <3>1 DEF CancellerJob, ActivePhase
  <2> QED
    BY <2>1, <2>2
<1>6. phase' = [phase EXCEPT ![Agent(t)] = "TERMINAL"] /\ ownerEpoch' = ownerEpoch
  BY <1>2, <1>4, <1>5, PersistEffect
<1>7. SchedTypes' /\ Prepared'
  <2>1. job[t].force \in Outcome /\ (t = Loop => job[t].then = "READY")
        /\ (t # Loop => job[t].then = "IDLE")
    BY <1>1, <1>2 DEF Prepared, EndingPlace
  <2>2. /\ active' \in [Agents -> {0, 1}] /\ UNCHANGED <<crashes, stray>> /\ live' \subseteq Runtimes
        /\ lifecycle' \in [Runtimes -> {"RUNNING", "STOPPING", "TERMINAL"}]
        /\ job' \in [Threads -> Job]
    BY <1>1, <1>2 DEF SchedTypes
  <2> QED
    BY <1>1, <1>2, <2>1, <2>2, PlacesKept
       DEF LoopPlace, CancellerPlace, MonitorPlace, EndingPlace
<1>8. /\ phase'[Agent(t)] = "TERMINAL"
      /\ \A a \in Agents \ {Agent(t)} : phase'[a] = phase[a]
  BY <1>4, <1>6 DEF TypeOK, TablesOK
<1>9. Runtime(t) \notin live' \ stray
  BY <1>1, <1>2 DEF LiveRuns
<1> QED
  BY <1>2, <1>5, <1>6, <1>7, <1>8, <1>9, Done DEF Agent, Epoch

\* The registration goes with the last step of a run.
LEMMA ReleaseStep ==
    ASSUME Resumers = {}, TypeOK, SchedInv, NEW t \in Threads, Release(t)
    PROVE  SchedInv'
<1>1. SchedTypes /\ Prepared /\ Epochs /\ Released
  BY DEF SchedInv
<1>2. /\ pc[t] = "RELEASE" /\ pc' = [pc EXCEPT ![t] = job[t].then]
      /\ job' = [job EXCEPT ![t] = Idle]
      /\ IF Epoch(t) > 0 /\ active[Agent(t)] = Epoch(t)
         THEN /\ active' = [active EXCEPT ![Agent(t)] = 0]
              /\ lifecycle' = [lifecycle EXCEPT ![Runtime(t)] = "TERMINAL"]
         ELSE UNCHANGED <<active, lifecycle>>
      /\ UNCHANGED <<phase, ownerEpoch, daemon, live, crashes, stray>>
  BY DEF Release, At, GoTo, ReapTask, vars, tables, taskVars, callers
<1>3. /\ Agent(t) \in Agents /\ phase[Agent(t)] = "TERMINAL" /\ Epoch(t) \in {0, 1}
      /\ Epoch(t) = 1 => ownerEpoch[Agent(t)] = 1
  BY <1>1, <1>2, AtWork DEF Released, SchedTypes, Job, Epoch
<1>4. /\ job[t].then \in {"IDLE", "READY"} /\ (t = Loop <=> job[t].then = "READY")
  BY <1>1, <1>2 DEF Prepared
<1>5. /\ active' \in [Agents -> {0, 1}]
      /\ lifecycle' \in [Runtimes -> {"RUNNING", "STOPPING", "TERMINAL"}]
      /\ \A a \in Agents : active'[a] # active[a] => a = Agent(t) /\ active'[a] = 0
      /\ \A rt \in Runtimes : lifecycle'[rt] # lifecycle[rt] => rt = Runtime(t) /\ Epoch(t) = 1
  <2>1. active \in [Agents -> {0, 1}] /\ lifecycle \in [Runtimes -> {"RUNNING", "STOPPING", "TERMINAL"}]
    BY <1>1 DEF SchedTypes
  <2>2. CASE Epoch(t) = 1 /\ active[Agent(t)] = Epoch(t)
    BY <1>2, <1>3, <2>1, <2>2
  <2>3. CASE Epoch(t) = 0 \/ active[Agent(t)] # Epoch(t)
    BY <1>2, <1>3, <2>1, <2>3
  <2> QED
    BY <1>3, <2>2, <2>3
<1>6. Keeps
  BY <1>2, <1>3, <1>5 DEF Keeps, PhaseKept
<1>7. \A a \in Agents : Runtime(t) = Run(a) => phase[a] \notin ActivePhase
  BY <1>3 DEF Runtime, Run, ActivePhase
<1>8. \A rt \in Runtimes : lifecycle'[rt] # lifecycle[rt]
                             => ownerEpoch[rt[1]] = 1 /\ phase[rt[1]] = "TERMINAL"
  BY <1>3, <1>5 DEF Runtime
<1>9. SchedTypes' /\ Prepared'
  <2>1. Idle \in Job /\ Idle.then = "IDLE"
    BY DEF Idle, Job
  <2>2. job' \in [Threads -> Job] /\ job'[t] = Idle /\ \A u \in Threads \ {t} : job'[u] = job[u]
    BY <1>1, <1>2, <2>1 DEF SchedTypes
  <2>3. live' \subseteq Runtimes /\ UNCHANGED <<crashes, stray>>
    BY <1>1, <1>2 DEF SchedTypes
  <2> QED
    BY <1>1, <1>2, <1>4, <1>5, <2>1, <2>2, <2>3, PlacesKept, Kinds
       DEF EndingPlace, LoopPlace, CancellerPlace, MonitorPlace
<1> QED
  BY <1>2, <1>4, <1>6, <1>7, <1>8, <1>9, GiveUp

\* What a monitor at work knows of its run.
LEMMA MonitorRun ==
    ASSUME Resumers = {}, SchedInv, NEW rt \in Runtimes, pc[rt] # "IDLE"
    PROVE  /\ rt \in Threads /\ rt # Loop /\ rt \notin Cancellers
           /\ rt[1] \in Agents /\ Agent(rt) = rt[1] /\ Epoch(rt) = 1
           /\ Runtime(rt) = rt /\ rt = Run(rt[1]) /\ rt[2] = 1 /\ ownerEpoch[rt[1]] = 1
<1>1. /\ rt \in Threads /\ rt # Loop /\ rt \notin Cancellers
      /\ rt = <<rt[1], rt[2]>> /\ rt[1] \in Agents
  BY Kinds
<1>2. Runtime(rt) = rt /\ rt[2] = 1 /\ ownerEpoch[rt[1]] = 1
  BY DEF SchedInv, MonitorJob
<1> QED
  BY <1>1, <1>2 DEF Runtime, Run

\* A monitor that sends a message, or has sent one.
LEMMA MonitorSends ==
    ASSUME Resumers = {}, SchedInv, NEW rt \in Runtimes, NEW m \in Messages \cup {NoMessage},
           NEW p \in {"SENDING", "WATCHING"}, p = "SENDING" => m \in Messages,
           pc[rt] \in {"WATCHING", "SENDING"}, GoTo(rt, p),
           job' = [job EXCEPT ![rt] = [@ EXCEPT !.message = m]],
           UNCHANGED <<daemon, ownerEpoch, phase, active, crashes, stray, live, lifecycle>>
    PROVE  SchedInv'
<1>1. SchedTypes /\ Prepared
  BY DEF SchedInv
<1>2. rt \in Threads /\ rt # Loop /\ rt \notin Cancellers
  BY MonitorRun
<1>3. job[rt] \in Job /\ job[rt].then = "IDLE"
  BY <1>1, <1>2 DEF SchedTypes, Prepared
<1>4. [job[rt] EXCEPT !.message = m] \in Job
  BY <1>3 DEF Job
<1>5. /\ job' \in [Threads -> Job] /\ \A u \in Threads \ {rt} : job'[u] = job[u]
      /\ job'[rt].agent = Agent(rt) /\ job'[rt].epoch = Epoch(rt) /\ job'[rt].then = "IDLE"
      /\ job'[rt].message = m
  <2>1. job' = [job EXCEPT ![rt] = [job[rt] EXCEPT !.message = m]] /\ job \in [Threads -> Job]
    BY <1>1, <1>2 DEF SchedTypes
  <2>2. job'[rt] = [job[rt] EXCEPT !.message = m] /\ job' \in [Threads -> Job]
    BY <1>2, <1>4, <2>1
  <2> QED
    BY <1>3, <2>1, <2>2 DEF Agent, Epoch, Job
<1>6. SchedTypes' /\ Prepared'
  <2>1. /\ active' \in [Agents -> {0, 1}] /\ live' \subseteq Runtimes
        /\ lifecycle' \in [Runtimes -> {"RUNNING", "STOPPING", "TERMINAL"}]
    BY <1>1 DEF SchedTypes
  <2> QED
    BY <1>1, <1>2, <1>5, <2>1, PlacesKept DEF GoTo, MonitorPlace, EndingPlace
<1>7. Keeps
  BY DEF Keeps, PhaseKept
<1> QED
  BY <1>2, <1>5, <1>6, <1>7, Advance DEF GoTo, NotInCharge, EndingPlace

\* A monitor that goes on to end its run.
LEMMA MonitorEnds ==
    ASSUME Resumers = {}, SchedInv, NEW rt \in Runtimes, NEW force \in Outcome,
           NEW p \in {"FINISH", "PERSIST"}, p = "PERSIST" => rt \notin live',
           pc[rt] \in {"WATCHING", "SENDING", "FINISH"}, GoTo(rt, p),
           NEW m \in Messages \cup {NoMessage},
           job' = [job EXCEPT ![rt] = [@ EXCEPT !.force = force, !.then = "IDLE",
                                                !.message = m]],
           UNCHANGED <<daemon, ownerEpoch, phase, active, crashes, stray>>, live' \subseteq live,
           lifecycle' \in [Runtimes -> {"RUNNING", "STOPPING", "TERMINAL"}],
           \A u \in Runtimes : lifecycle'[u] # lifecycle[u] => u = rt
    PROVE  SchedInv'
<1>1. rt \in Threads /\ rt # Loop /\ rt \notin Cancellers /\ Runtime(rt) = rt
  BY MonitorRun
<1>2. Keeps
  BY DEF Keeps, PhaseKept
<1>3. SchedTypes /\ Prepared
  BY DEF SchedInv
<1>4. /\ job' \in [Threads -> Job] /\ \A u \in Threads \ {rt} : job'[u] = job[u]
      /\ job'[rt].agent = Agent(rt) /\ job'[rt].epoch = Epoch(rt)
      /\ job'[rt].force = force /\ job'[rt].then = "IDLE"
  <2> DEFINE aimed == [job[rt] EXCEPT !.force = force, !.then = "IDLE", !.message = m]
  <2>1. job[rt] \in Job /\ job \in [Threads -> Job]
    BY <1>1, <1>3 DEF SchedTypes
  <2>2. [job[rt] EXCEPT !.force = force, !.then = "IDLE"] \in Job
    BY <2>1 DEF Job
  <2>3. aimed \in Job
    BY <2>1, <2>2 DEF Job
  <2>4. /\ aimed.agent = job[rt].agent /\ aimed.epoch = job[rt].epoch
        /\ aimed.force = force /\ aimed.then = "IDLE"
    BY <2>1 DEF Job
  <2>5. job' = [job EXCEPT ![rt] = aimed]
    BY <2>1
  <2> HIDE DEF aimed
  <2> QED
    BY <1>1, <2>1, <2>3, <2>4, <2>5 DEF Agent, Epoch
<1>5. active' \in [Agents -> {0, 1}] /\ live' \subseteq Runtimes
  BY <1>3 DEF SchedTypes
<1>6. SchedTypes' /\ Prepared'
  BY <1>1, <1>3, <1>4, <1>5, PlacesKept DEF GoTo, MonitorPlace
<1> QED
  BY <1>1, <1>2, <1>4, <1>6, Advance DEF GoTo, NotInCharge, EndingPlace

\* The same for a monitor that keeps its message.
LEMMA MonitorAims ==
    ASSUME Resumers = {}, SchedInv, NEW rt \in Runtimes, NEW force \in Outcome,
           NEW p \in {"FINISH", "PERSIST"}, p = "PERSIST" => rt \notin live',
           pc[rt] \in {"WATCHING", "SENDING", "FINISH"}, GoTo(rt, p), Aim(rt, force, "IDLE"),
           UNCHANGED <<daemon, ownerEpoch, phase, active, crashes, stray>>, live' \subseteq live,
           lifecycle' \in [Runtimes -> {"RUNNING", "STOPPING", "TERMINAL"}],
           \A u \in Runtimes : lifecycle'[u] # lifecycle[u] => u = rt
    PROVE  SchedInv'
<1>1. rt \in Threads /\ rt # Loop /\ rt \notin Cancellers /\ Runtime(rt) = rt
  BY MonitorRun
<1>2. PhaseKept
  BY DEF PhaseKept
<1> QED
  BY <1>1, <1>2, AimAndAdvance DEF EndingPlace, MonitorPlace

\* A monitor that leaves its run to the thread that is ending it.
LEMMA MonitorLeaves ==
    ASSUME Resumers = {}, SchedInv, NEW rt \in Runtimes, daemon = "UP",
           pc[rt] = "WATCHING", lifecycle[rt] # "RUNNING", GoTo(rt, "IDLE"), job' = job,
           UNCHANGED <<daemon, ownerEpoch, phase, active, crashes, stray, lifecycle>>,
           live' \subseteq live
    PROVE  SchedInv'
<1>1. SchedTypes /\ Prepared /\ Custody
  BY DEF SchedInv
<1>2. /\ rt \in Threads /\ rt # Loop /\ rt \notin Cancellers
      /\ Runtime(rt) = rt /\ rt = Run(rt[1]) /\ ownerEpoch[rt[1]] = 1 /\ rt[1] \in Agents
  BY MonitorRun
<1>3. SchedTypes' /\ Prepared'
  <2>1. /\ active' \in [Agents -> {0, 1}] /\ live' \subseteq Runtimes /\ job' \in [Threads -> Job]
        /\ lifecycle' \in [Runtimes -> {"RUNNING", "STOPPING", "TERMINAL"}]
        /\ job[rt].then = "IDLE"
    BY <1>1, <1>2 DEF SchedTypes, Prepared
  <2> QED
    BY <1>1, <1>2, <2>1, PlacesKept DEF GoTo, MonitorPlace, EndingPlace
<1>4. Keeps
  BY DEF Keeps, PhaseKept
<1>5. \A a \in Agents \ Damaged : Runtime(rt) = Run(a) /\ phase[a] \in ActivePhase
                                    => \E u \in Threads \ {rt} : Ender(u, a)
  <2> SUFFICES ASSUME NEW a \in Agents \ Damaged, Runtime(rt) = Run(a), phase[a] \in ActivePhase
               PROVE  \E u \in Threads \ {rt} : Ender(u, a)
    OBVIOUS
  <2>1. a = rt[1]
    BY <1>2 DEF Run
  <2>2. \E u \in Threads : Ender(u, a)
    BY <1>1, <1>2, <2>1 DEF Custody, InHand
  <2>3. ~Ender(rt, a)
    BY DEF Ender, EndingPlace
  <2> QED
    BY <2>2, <2>3
<1> QED
  BY <1>2, <1>3, <1>4, <1>5, GiveUp DEF GoTo

\* The steps of the monitor while it watches.
LEMMA WatchStep ==
    ASSUME Resumers = {}, TypeOK, SchedInv, NEW rt \in Runtimes,
           ObserveTerminal(rt) \/ ObserveCompleted(rt) \/ ObserveFailed(rt) \/ ObserveSinkError(rt)
    PROVE  SchedInv'
<1>1. SchedTypes
  BY DEF SchedInv
<1>2. /\ pc[rt] = "WATCHING" /\ daemon = "UP"
      /\ UNCHANGED <<phase, ownerEpoch, daemon, active, crashes, stray>>
  BY DEF ObserveTerminal, ObserveCompleted, ObserveFailed, ObserveSinkError, Watching, At,
         TakeMessage, ClaimNextMessage, SetMessage, vars, tables, taskVars, callers
<1>3. /\ live' \subseteq live
      /\ lifecycle' \in [Runtimes -> {"RUNNING", "STOPPING", "TERMINAL"}]
      /\ \A u \in Runtimes : lifecycle'[u] # lifecycle[u] => u = rt
  BY <1>1 DEF ObserveTerminal, ObserveCompleted, ObserveFailed, ObserveSinkError, SchedTypes
<1>4. ASSUME NEW force \in Outcome, Finish(rt, force)
      PROVE  SchedInv'
  BY <1>2, <1>3, <1>4, MonitorEnds DEF Finish
<1>5. CASE Leave(rt) /\ lifecycle[rt] # "RUNNING" /\ lifecycle' = lifecycle
  BY <1>2, <1>3, <1>5, MonitorLeaves DEF Leave
<1>6. CASE TakeMessage(rt, rt) /\ GoTo(rt, "SENDING") /\ UNCHANGED <<lifecycle, live>>
  <2>1. PICK m \in Messages : job' = [job EXCEPT ![rt] = [@ EXCEPT !.message = m]]
    BY <1>6 DEF TakeMessage
  <2> QED
    BY <1>2, <1>6, <2>1, MonitorSends
<1>7. {"FAILED", "RUNTIME_LOST", "RESULT_INVALID", "COMPLETED", "CANCELLED"} \subseteq Outcome
  BY OutcomeAssumption, ForcedAssumption
<1>8. CASE ObserveTerminal(rt)
  BY <1>4, <1>5, <1>7, <1>8 DEF ObserveTerminal
<1>9. CASE ObserveCompleted(rt)
  BY <1>4, <1>6, <1>7, <1>9 DEF ObserveCompleted
<1>10. CASE ObserveFailed(rt)
  BY <1>4, <1>5, <1>6, <1>7, <1>10 DEF ObserveFailed
<1>11. CASE ObserveSinkError(rt)
  BY <1>4, <1>7, <1>11 DEF ObserveSinkError
<1> QED
  BY <1>8, <1>9, <1>10, <1>11

\* Only monitors send while nobody resumes a task.
LEMMA SendStep ==
    ASSUME Resumers = {}, TypeOK, SchedInv, NEW t \in Threads, SendSucceeds(t) \/ SendFails(t)
    PROVE  SchedInv'
<1>1. SchedTypes
  BY DEF SchedInv
<1>2. /\ pc[t] = "SENDING"
      /\ UNCHANGED <<phase, ownerEpoch, daemon, active, lifecycle, live, crashes, stray>>
  BY DEF SendSucceeds, SendFails, At, CompleteMessage, FailMessage, SetMessage, vars, tables, taskVars, callers
<1>3. t \in Runtimes
  BY <1>1, <1>2, Kinds DEF SchedTypes, LoopPlace, CancellerPlace
<1>4. CASE /\ GoTo(t, "WATCHING")
           /\ job' = [job EXCEPT ![t] = [@ EXCEPT !.message = NoMessage]]
  BY <1>2, <1>3, <1>4, MonitorSends
<1>5. CASE Aim(t, "FAILED", "IDLE") /\ GoTo(t, "FINISH")
  BY <1>1, <1>2, <1>3, <1>5, MonitorAims, ForcedAssumption DEF SchedTypes
<1>6. CASE GoTo(t, "WATCHING") /\ job' = job
  <2>1. t \in Threads /\ job[t] \in Job /\ job[t].message \in Messages
    BY <1>1, <1>2, <1>3, MonitorRun DEF SchedInv, SchedTypes, Prepared
  <2>2. [job[t] EXCEPT !.message = job[t].message] = job[t]
    BY <2>1 DEF Job
  <2>3. job' = [job EXCEPT ![t] = [@ EXCEPT !.message = job[t].message]]
    BY <1>1, <1>6, <2>1, <2>2 DEF SchedTypes
  <2> QED
    BY <1>2, <1>3, <1>6, <2>1, <2>3, MonitorSends
<1> QED
  BY <1>3, <1>4, <1>5, <1>6 DEF SendSucceeds, SendFails

\* finish_locked_monitor_terminal
LEMMA FinishStep ==
    ASSUME Resumers = {}, TypeOK, SchedInv, NEW rt \in Runtimes, FinishMonitor(rt)
    PROVE  SchedInv'
<1>1. SchedTypes /\ Prepared
  BY DEF SchedInv
<1>2. /\ pc[rt] = "FINISH" /\ live' = live \ {rt}
      /\ UNCHANGED <<phase, ownerEpoch, daemon, active, crashes, stray>>
  BY DEF FinishMonitor, At, vars, tables, taskVars, callers
<1>3. /\ rt \in Threads /\ rt # Loop /\ rt \notin Cancellers /\ Agent(rt) = rt[1]
      /\ Runtime(rt) = rt /\ ownerEpoch[rt[1]] = rt[2] /\ rt[1] \in Agents
  BY <1>2, MonitorRun
<1>4. CASE phase[rt[1]] = "TERMINAL"
  <2>1. Aim(rt, "NONE", "IDLE") /\ GoTo(rt, "RELEASE") /\ lifecycle' = lifecycle
    BY <1>4 DEF FinishMonitor
  <2>2. /\ job' \in [Threads -> Job] /\ \A u \in Threads \ {rt} : job'[u] = job[u]
        /\ job'[rt].agent = Agent(rt) /\ job'[rt].epoch = Epoch(rt) /\ job'[rt].then = "IDLE"
    BY <1>1, <1>3, <2>1, AimJob
  <2>3. SchedTypes' /\ Prepared'
    <3>1. /\ active' \in [Agents -> {0, 1}] /\ live' \subseteq Runtimes
          /\ lifecycle' \in [Runtimes -> {"RUNNING", "STOPPING", "TERMINAL"}]
      BY <1>1, <1>2, <2>1 DEF SchedTypes
    <3> QED
      BY <1>1, <1>2, <1>3, <2>1, <2>2, <3>1, PlacesKept DEF GoTo, MonitorPlace, EndingPlace
  <2> QED
    BY <1>2, <1>3, <1>4, <2>1, <2>2, <2>3, Done DEF GoTo
<1>5. CASE phase[rt[1]] # "TERMINAL"
  <2>1. /\ GoTo(rt, "PERSIST") /\ lifecycle' = [lifecycle EXCEPT ![rt] = "TERMINAL"]
        /\ \E force \in {"CANCELLED", "RUNTIME_LOST", job[rt].force} : Aim(rt, force, "IDLE")
    BY <1>3, <1>5 DEF FinishMonitor
  <2>2. {"CANCELLED", "RUNTIME_LOST", job[rt].force} \subseteq Outcome
    BY <1>1, <1>2, <1>3, OutcomeAssumption, ForcedAssumption DEF Prepared, EndingPlace
  <2>3. /\ lifecycle' \in [Runtimes -> {"RUNNING", "STOPPING", "TERMINAL"}]
        /\ \A u \in Runtimes : lifecycle'[u] # lifecycle[u] => u = rt
    BY <1>1, <2>1 DEF SchedTypes
  <2> QED
    BY <1>2, <2>1, <2>2, <2>3, MonitorAims
<1> QED
  BY <1>4, <1>5

\* A stored launch that is not the one that was enqueued: the start ends with it.
LEMMA RouteInvalidStep ==
    ASSUME Resumers = {}, TypeOK, RowsAgree, SchedInv, RouteInvalid(Loop)
    PROVE  SchedInv'
<1>1. SchedTypes /\ Prepared /\ Epochs /\ LoopJob /\ MonitorJob /\ CancellerJob
      /\ Released /\ Fresh /\ Custody /\ LiveRuns
  BY DEF SchedInv
<1>2. /\ pc[Loop] = "CLAIMED" /\ daemon = "UP" /\ Agent(Loop) \in Damaged
      /\ UNCHANGED <<daemon, started, stray, active, lifecycle, live, crashes>>
      /\ job' = [job EXCEPT ![Loop] = Idle]
  BY DEF RouteInvalid, At, callers, memory
<1>3. /\ Starters = {Loop} /\ Threads = {Loop} \cup Cancellers \cup Runtimes
      /\ Loop \notin Cancellers /\ Loop \notin Runtimes /\ Cancellers \cap Runtimes = {}
      /\ \A rt \in Runtimes : rt = <<rt[1], rt[2]>> /\ rt[1] \in Agents
  BY Kinds
<1>4. pc' = [pc EXCEPT ![Loop] = "READY"]
  BY DEF RouteInvalid, GoTo, Failure
<1>5. Agent(Loop) \in Agents /\ phase[Agent(Loop)] \in ActivePhase
  BY <1>1, <1>2 DEF Fresh, LoopJob
<1>6. /\ ownerEpoch' = ownerEpoch
      /\ phase' = phase \/ phase' = [phase EXCEPT ![Agent(Loop)] = "TERMINAL"]
  <2>1. CASE PersistResult(Agent(Loop), "RESULT_INVALID")
    BY <1>5, <2>1, PersistEffect
  <2>2. CASE UNCHANGED vars
    BY <2>2 DEF vars, tables, taskVars
  <2> QED
    BY <2>1, <2>2 DEF RouteInvalid
<1>7. /\ \A a \in Agents \ {Agent(Loop)} : phase'[a] = phase[a]
      /\ phase'[Agent(Loop)] \in ActivePhase \cup {"TERMINAL"}
  BY <1>5, <1>6 DEF TypeOK, TablesOK
<1>8. /\ \A u \in Threads \ {Loop} : job'[u] = job[u] /\ pc'[u] = pc[u]
      /\ \A u \in Threads \ {Loop} : Agent(u)' = Agent(u) /\ Epoch(u)' = Epoch(u)
      /\ \A u \in Threads \ {Loop} : Runtime(u)' = Runtime(u)
      /\ job'[Loop] = Idle /\ Agent(Loop)' = NoAgent /\ pc'[Loop] = "READY"
  BY <1>1, <1>2, <1>3, <1>4 DEF SchedTypes, Agent, Epoch, Runtime, Idle
<1>9. SchedTypes' /\ Prepared'
  <2>1. /\ Idle \in Job /\ job' \in [Threads -> Job]
        /\ active' \in [Agents -> {0, 1}] /\ live' \subseteq Runtimes
        /\ lifecycle' \in [Runtimes -> {"RUNNING", "STOPPING", "TERMINAL"}]
    BY <1>1, <1>2 DEF SchedTypes, Idle, Job
  <2> QED
    BY <1>1, <1>2, <1>3, <1>4, <1>8, <2>1, PlacesKept DEF LoopPlace, EndingPlace
<1>10. Epochs'
  BY <1>1, <1>2, <1>5, <1>6, <1>7 DEF Epochs, ActivePhase
<1>11. LoopJob' /\ MonitorJob'
  BY <1>1, <1>3, <1>6, <1>8 DEF LoopJob, MonitorJob
<1>12. ownerEpoch[Agent(Loop)] = 1 /\ Runtime(Loop) = Run(Agent(Loop))
  BY <1>1, <1>2 DEF LoopJob, Runtime, Run
<1>13. CancellerJob'
  <2> SUFFICES ASSUME NEW c \in Cancellers
               PROVE  /\ pc[c] = "IDLE" => job[c] = Idle
                      /\ pc[c] # "IDLE" => Agent(c) \in Agents /\ phase'[Agent(c)] # "ABSENT"
                      /\ Epoch(c) = 1 => pc[c] # "IDLE" /\ ownerEpoch[Agent(c)] = 1
                      /\ pc[c] \in {"LOCK", "CLEANUP", "CLEANUP_STOP"} => Epoch(c) = 1
                      /\ pc[c] \in {"PERSIST", "RELEASE"} /\ Epoch(c) = 0
                           => /\ ownerEpoch[Agent(c)] = 0
                              /\ phase'[Agent(c)] \in {"CANCELLING", "TERMINAL"}
    BY <1>3, <1>6, <1>8 DEF CancellerJob
  <2> QED
    BY <1>1, <1>5, <1>7, <1>12 DEF CancellerJob, ActivePhase
<1>14. Released'
  <2> SUFFICES ASSUME NEW t \in Threads \ {Loop}, pc[t] = "RELEASE"
               PROVE  phase'[Agent(t)] = "TERMINAL"
    BY <1>8 DEF Released
  <2>1. Agent(t) \in Agents /\ phase[Agent(t)] = "TERMINAL"
    BY <1>1, AtWork DEF Released
  <2> QED
    BY <1>5, <1>7, <2>1 DEF ActivePhase
<1>15. Fresh'
  BY <1>8 DEF Fresh
<1>16. Custody'
  <2> SUFFICES ASSUME NEW a \in Agents \ Damaged, phase'[a] \in ActivePhase
               PROVE  InHand(a)'
    BY DEF Custody
  <2>1. a # Agent(Loop) /\ InHand(a)
    BY <1>1, <1>2, <1>7 DEF Custody
  <2>2. ~Unregistered(a) /\ ~InCharge(Loop, a) /\ ~Ender(Loop, a)
    BY <1>12, <2>1 DEF Unregistered, InCharge, Ender, Run
  <2>3. \A t \in Threads \ {Loop} : /\ InCharge(t, a) => InCharge(t, a)'
                                    /\ Ender(t, a) => Ender(t, a)'
    BY <1>8 DEF InCharge, Ender
  <2>4. \A c \in Cancellers : Agent(c) = a /\ pc[c] = "PERSIST"
                                => Agent(c)' = a /\ pc'[c] = "PERSIST"
    BY <1>3, <1>8
  <2> QED
    BY <1>2, <1>6, <2>1, <2>2, <2>3, <2>4 DEF InHand
<1>17. LiveRuns'
  <2> SUFFICES ASSUME NEW rt \in live \ stray
               PROVE  /\ phase'[rt[1]] \in ActivePhase
                      /\ \A u \in Threads :
                            Runtime(u)' = rt => pc'[u] \notin {"CLAIMED", "PERSIST", "RELEASE"}
    BY <1>1, <1>2, <1>6 DEF LiveRuns
  <2>1. rt[1] \in Agents /\ rt[1] # Agent(Loop) /\ phase[rt[1]] \in ActivePhase
    BY <1>1, <1>2, <1>3 DEF LiveRuns, SchedTypes
  <2> QED
    BY <1>1, <1>7, <1>8, <2>1 DEF LiveRuns
<1> QED
  BY <1>9, <1>10, <1>11, <1>13, <1>14, <1>15, <1>16, <1>17 DEF SchedInv

\* Steps of the store and of callers that move neither a thread nor a run.
LEMMA SubmitStep ==
    ASSUME Resumers = {}, TypeOK, SchedInv, UNCHANGED <<daemon, pc, job, active, lifecycle, live,
           crashes, stray, ownerEpoch>>,
           \/ phase' = phase
           \/ \E a \in Agents : phase[a] = "ABSENT" /\ phase' = [phase EXCEPT ![a] = "QUEUED"]
    PROVE  SchedInv'
<1>1. SchedTypes /\ Prepared /\ Epochs /\ LoopJob /\ MonitorJob /\ CancellerJob
      /\ Released /\ Fresh /\ Custody /\ LiveRuns
  BY DEF SchedInv
<1>2. \A t \in Threads : Agent(t)' = Agent(t) /\ Epoch(t)' = Epoch(t) /\ Runtime(t)' = Runtime(t)
  BY DEF Agent, Epoch, Runtime
<1>3. \A a \in Agents : phase'[a] = phase[a] \/ (phase[a] = "ABSENT" /\ phase'[a] = "QUEUED")
  BY DEF TypeOK, TablesOK
<1>4. Threads = {Loop} \cup Cancellers \cup Runtimes
      /\ \A rt \in Runtimes : rt[1] \in Agents
  BY Kinds
<1>5. SchedTypes' /\ Prepared' /\ MonitorJob'
  BY <1>1, <1>2, <1>4 DEF SchedTypes, Prepared, MonitorJob
<1>6. Epochs'
  BY <1>1, <1>3 DEF Epochs
<1>7. LoopJob' /\ CancellerJob'
  <2>1. LoopJob'
    BY <1>1, <1>2, <1>4 DEF LoopJob
  <2>2. CancellerJob'
    BY <1>1, <1>2, <1>3, <1>4 DEF CancellerJob
  <2> QED
    BY <2>1, <2>2
<1>8. Released'
  BY <1>1, <1>2, <1>3, AtWork DEF Released
<1>9. Fresh' /\ \A a \in Agents : Unregistered(a) => Unregistered(a)'
  <2>1. \A a \in Agents : Unregistered(a) => Unregistered(a)'
    BY <1>2, <1>4 DEF Unregistered
  <2> QED
    BY <1>1, <1>2, <1>3, <1>4, <2>1 DEF Fresh, LoopJob, ActivePhase
<1>10. Custody'
  <2> SUFFICES ASSUME daemon = "UP", NEW a \in Agents \ Damaged, phase'[a] \in ActivePhase
               PROVE  InHand(a)'
    BY DEF Custody
  <2>1. InHand(a)
    BY <1>1, <1>3 DEF Custody, ActivePhase
  <2>2. \A t \in Threads : /\ InCharge(t, a) => InCharge(t, a)'
                           /\ Ender(t, a) => Ender(t, a)'
    BY <1>2 DEF InCharge, Ender
  <2> QED
    BY <1>2, <1>4, <1>9, <2>1, <2>2 DEF InHand
<1>11. LiveRuns'
  <2> SUFFICES ASSUME NEW rt \in live \ stray
               PROVE  phase'[rt[1]] \in ActivePhase
    BY <1>1, <1>2 DEF LiveRuns
  <2>1. rt[1] \in Agents /\ phase[rt[1]] \in ActivePhase
    BY <1>1, <1>4 DEF LiveRuns, SchedTypes
  <2> QED
    BY <1>3, <2>1 DEF ActivePhase
<1> QED
  BY <1>5, <1>6, <1>7, <1>8, <1>9, <1>10, <1>11 DEF SchedInv

\* A daemon that has just started: no thread is at work.
LEMMA Rest ==
    ASSUME Resumers = {}, pc = InitialPc, job = [t \in Threads |-> Idle],
           active = [a \in Agents |-> 0], lifecycle = [rt \in Runtimes |-> "RUNNING"],
           live \subseteq Runtimes, crashes \in Nat,
           \A a \in Agents : /\ ownerEpoch[a] \in {0, 1} /\ ownerEpoch[a] <= MaxEpoch
                             /\ phase[a] \in {"ABSENT", "QUEUED"} => ownerEpoch[a] = 0
    PROVE  /\ SchedTypes /\ Prepared /\ Epochs /\ LoopJob /\ MonitorJob /\ CancellerJob
           /\ Released /\ Fresh
<1>1. /\ Threads = {Loop} \cup Cancellers \cup Runtimes
      /\ Loop \notin Cancellers /\ Loop \notin Runtimes
      /\ \A a \in Agents : 1 <= MaxEpoch => Run(a) \in Runtimes
  BY Kinds
<1>2. Idle \in Job /\ Idle.then = "IDLE" /\ Idle.epoch = 0
  BY DEF Idle, Job
<1>3. /\ pc \in [Threads -> {"READY", "IDLE"}] /\ pc[Loop] = "READY"
      /\ \A t \in Threads \ {Loop} : pc[t] = "IDLE"
      /\ \A t \in Threads : job[t] = Idle /\ Epoch(t) = 0
  BY <1>1, <1>2 DEF InitialPc, Epoch
<1>4. SchedTypes
  BY <1>1, <1>2, <1>3 DEF SchedTypes, LoopPlace, MonitorPlace, CancellerPlace
<1>5. Prepared
  BY <1>1, <1>2, <1>3 DEF Prepared, EndingPlace
<1>6. Epochs
  BY <1>1 DEF Epochs
<1>7. LoopJob /\ MonitorJob /\ CancellerJob /\ Released /\ Fresh
  BY <1>1, <1>3 DEF LoopJob, MonitorJob, CancellerJob, Released, Fresh
<1> QED
  BY <1>4, <1>5, <1>6, <1>7

LEMMA SchedInitial == Resumers = {} /\ SchedInit => SchedInv
<1> SUFFICES ASSUME Resumers = {}, SchedInit PROVE SchedInv
  OBVIOUS
<1>1. \A a \in Agents : /\ ownerEpoch[a] \in {0, 1} /\ ownerEpoch[a] <= MaxEpoch
                        /\ phase[a] \in {"ABSENT", "QUEUED"} => ownerEpoch[a] = 0
  BY EpochAssumption DEF SchedInit, Init
<1>2. /\ SchedTypes /\ Prepared /\ Epochs /\ LoopJob /\ MonitorJob /\ CancellerJob
      /\ Released /\ Fresh
  BY <1>1, Rest DEF SchedInit
<1>3. Custody /\ LiveRuns
  BY DEF SchedInit, Init, Custody, LiveRuns, ActivePhase
<1> QED
  BY <1>2, <1>3 DEF SchedInv

\* A crash and what the next start does about it.
LEMMA RestartStep ==
    ASSUME Resumers = {}, TypeOK, RowsAgree, SchedInv, Known,
           \/ Crash \/ Restart \/ Serve
           \/ \E a \in Agents : Recover(a) \/ Refuse(a) \/ RecoverFails(a)
    PROVE  SchedInv'
<1>1. SchedTypes /\ Prepared /\ Epochs /\ LoopJob /\ MonitorJob /\ CancellerJob
      /\ Released /\ Fresh /\ Custody /\ LiveRuns
  BY DEF SchedInv
<1>2. CASE Crash
  <2>1. /\ pc' = InitialPc /\ job' = [t \in Threads |-> Idle]
        /\ active' = [a \in Agents |-> 0] /\ lifecycle' = [rt \in Runtimes |-> "RUNNING"]
        /\ daemon' = "RECOVERING" /\ crashes' = crashes + 1
        /\ UNCHANGED <<phase, ownerEpoch, live>> /\ stray \subseteq stray'
    BY <1>2 DEF Crash, CallersDie, vars, tables, taskVars, callers
  <2>2. crashes' \in Nat /\ crashes' # 0 /\ live' \subseteq Runtimes
    BY <1>1, <2>1 DEF SchedTypes
  <2>3. \A a \in Agents : /\ ownerEpoch'[a] \in {0, 1} /\ ownerEpoch'[a] <= MaxEpoch
                          /\ phase'[a] \in {"ABSENT", "QUEUED"} => ownerEpoch'[a] = 0
    BY <1>1, <2>1 DEF Epochs
  <2>4. (/\ SchedTypes /\ Prepared /\ Epochs /\ LoopJob /\ MonitorJob /\ CancellerJob
         /\ Released /\ Fresh)'
    <3>1. /\ Threads = {Loop} \cup Cancellers \cup Runtimes
          /\ Loop \notin Cancellers /\ Loop \notin Runtimes
          /\ \A a \in Agents : 1 <= MaxEpoch => Run(a) \in Runtimes
      BY Kinds
    <3>2. Idle \in Job /\ Idle.then = "IDLE" /\ Idle.epoch = 0
      BY DEF Idle, Job
    <3>3. /\ pc' \in [Threads -> {"READY", "IDLE"}] /\ pc'[Loop] = "READY"
          /\ \A t \in Threads \ {Loop} : pc'[t] = "IDLE"
          /\ \A t \in Threads : job'[t] = Idle /\ Epoch(t)' = 0
      BY <2>1, <3>1, <3>2 DEF InitialPc, Epoch
    <3>4. SchedTypes'
      BY <2>1, <2>2, <3>1, <3>2, <3>3 DEF SchedTypes, LoopPlace, MonitorPlace, CancellerPlace
    <3>5. Prepared'
      BY <3>1, <3>2, <3>3 DEF Prepared, EndingPlace
    <3>6. Epochs'
      BY <2>1, <2>3, <3>1 DEF Epochs
    <3>7. LoopJob' /\ MonitorJob' /\ CancellerJob' /\ Released' /\ Fresh'
      BY <3>1, <3>3 DEF LoopJob, MonitorJob, CancellerJob, Released, Fresh
    <3> QED
      BY <3>4, <3>5, <3>6, <3>7
  <2>5. Custody' /\ LiveRuns'
    <3>1. Custody'
      BY <2>1 DEF Custody
    <3>2. LiveRuns'
      <4> SUFFICES ASSUME NEW rt \in live' \ stray'
                   PROVE  /\ rt[2] = 1 /\ rt[1] \notin Damaged /\ ownerEpoch'[rt[1]] = 1
                          /\ phase'[rt[1]] \in ActivePhase
                          /\ \A t \in Threads :
                                pc'[t] \notin {"CLAIMED", "PERSIST", "RELEASE"}
        BY <2>2 DEF LiveRuns
      <4>1. rt \in live \ stray
        BY <2>1
      <4>2. \A t \in Threads : pc'[t] \in {"READY", "IDLE"}
        BY <2>1 DEF InitialPc
      <4> QED
        BY <1>1, <2>1, <4>1, <4>2 DEF LiveRuns
    <3> QED
      BY <3>1, <3>2
  <2> QED
    BY <2>4, <2>5 DEF SchedInv
<1>3. CASE \/ Restart \/ Serve
           \/ \E a \in Agents : Recover(a) \/ Refuse(a) \/ RecoverFails(a)
  <2>1. /\ daemon # "UP" /\ crashes # 0 /\ pc[Loop] = "READY"
        /\ UNCHANGED <<pc, job, active, lifecycle, crashes, stray>> /\ live' \subseteq live
    <3>1. /\ daemon # "UP"
          /\ UNCHANGED <<pc, job, active, lifecycle, crashes, stray>> /\ live' \subseteq live
      BY <1>3 DEF Recover, Refuse, RecoverFails, Restart, Serve, memory, callers
    <3> QED
      BY <1>1, <3>1 DEF LiveRuns, LoopJob
  <2>2. /\ ownerEpoch' = ownerEpoch
        /\ \A a \in Agents : phase'[a] = phase[a]
                               \/ (phase[a] \in ActivePhase /\ phase'[a] = "TERMINAL")
        /\ \A a \in Agents : phase'[a] # phase[a] => Recover(a)
    <3>1. ASSUME NEW a \in Agents, Recover(a)
          PROVE  /\ ownerEpoch' = ownerEpoch
                 /\ \A b \in Agents : phase'[b] = phase[b]
                               \/ (phase[b] \in ActivePhase /\ phase'[b] = "TERMINAL")
                 /\ \A b \in Agents : phase'[b] # phase[b] => b = a
      <4>1. CASE phase[a] = "TERMINAL"
        BY <3>1, <4>1 DEF Recover, ReapTask
      <4>2. CASE phase[a] \in ActivePhase
        <5>1. phase[a] # "TERMINAL"
          BY <4>2 DEF ActivePhase
        <5>2. PICK force : PersistResult(a, force)
          BY <3>1, <5>1 DEF Recover
        <5> QED
          BY <4>2, <5>2, PersistEffect DEF TypeOK, TablesOK
      <4> QED
        BY <3>1, <4>1, <4>2 DEF Recover, NeedsRecovery
    <3>2. CASE Restart \/ Serve \/ \E a \in Agents : Refuse(a) \/ RecoverFails(a)
      BY <3>2 DEF Refuse, RecoverFails, Restart, Serve, vars, tables, taskVars
    <3> QED
      BY <1>3, <3>1, <3>2
  <2>3. \A t \in Threads : Agent(t)' = Agent(t) /\ Epoch(t)' = Epoch(t) /\ Runtime(t)' = Runtime(t)
    BY <2>1 DEF Agent, Epoch, Runtime
  <2>4. Threads = {Loop} \cup Cancellers \cup Runtimes
    BY Kinds
  <2>5. SchedTypes' /\ Prepared' /\ LoopJob' /\ MonitorJob' /\ Fresh'
    BY <1>1, <2>1, <2>2, <2>3, <2>4
       DEF SchedTypes, Prepared, LoopJob, MonitorJob, Fresh
  <2>6. Epochs'
    BY <1>1, <2>1, <2>2 DEF Epochs
  <2>7. CancellerJob'
    <3>1. \A a \in Agents : /\ phase[a] # "ABSENT" => phase'[a] # "ABSENT"
                            /\ phase[a] \in {"CANCELLING", "TERMINAL"}
                                 => phase'[a] \in {"CANCELLING", "TERMINAL"}
      BY <2>2
    <3> QED
      BY <1>1, <2>1, <2>2, <2>3, <2>4, <3>1 DEF CancellerJob
  <2>8. Released'
    BY <1>1, <2>1, <2>2, <2>3, AtWork DEF Released
  <2>9. Custody'
    <3>1. CASE Serve
      BY <3>1, <2>2 DEF Serve, NeedsRecovery, Custody, ActivePhase
    <3>2. CASE Restart \/ \E a \in Agents : Recover(a) \/ Refuse(a) \/ RecoverFails(a)
      BY <2>1, <3>2 DEF Recover, Refuse, RecoverFails, Restart, Custody
    <3> QED
      BY <1>3, <3>1, <3>2
  <2>10. LiveRuns'
    <3> SUFFICES ASSUME NEW rt \in live' \ stray
                 PROVE  /\ rt[2] = 1 /\ rt[1] \notin Damaged /\ ownerEpoch[rt[1]] = 1
                        /\ phase'[rt[1]] \in ActivePhase
                        /\ \A t \in Threads :
                              Runtime(t) = rt => pc[t] \notin {"CLAIMED", "PERSIST", "RELEASE"}
      BY <2>1, <2>2, <2>3 DEF LiveRuns
    <3>1. rt \in live \ stray /\ rt \in Runtimes /\ rt[1] \in Agents /\ rt = <<rt[1], rt[2]>>
      BY <1>1, <2>1, Kinds DEF SchedTypes
    <3>2. rt[2] = 1 /\ ownerEpoch[rt[1]] = 1 /\ phase[rt[1]] \in ActivePhase
      BY <1>1, <3>1 DEF LiveRuns
    <3>3. phase'[rt[1]] = phase[rt[1]]
      <4> SUFFICES ASSUME Recover(rt[1]) PROVE FALSE
        BY <2>2, <3>1
      <4>1. hasRuntime[rt[1]]
        BY <2>1, <3>1 DEF Known
      <4>2. <<rt[1], ownerEpoch[rt[1]]>> \notin live'
        BY <4>1 DEF Recover
      <4> QED
        BY <3>1, <3>2, <4>2
    <3> QED
      BY <1>1, <3>1, <3>2, <3>3 DEF LiveRuns
  <2> QED
    BY <2>5, <2>6, <2>7, <2>8, <2>9, <2>10 DEF SchedInv
<1> QED
  BY <1>2, <1>3

\* A crash makes strays of the runtimes that the database does not know.
LEMMA KnownStep ==
    ASSUME Resumers = {}, SchedInv, Known, [SchedNext]_allVars
    PROVE  Known'
<1>1. CASE daemon' = "UP"
  BY <1>1 DEF Known
<1>2. CASE Crash
  <2>1. live' = live /\ hasRuntime' = hasRuntime
        /\ stray' = stray \cup {rt \in live : ~Recorded(rt)}
    BY <1>2 DEF Crash, CallersDie, tables, taskVars
  <2> QED
    BY <2>1 DEF Known, Recorded
<1>3. ASSUME NEW a \in Agents, Recover(a)
      PROVE  Known'
  <2>1. daemon # "UP" /\ live' \subseteq live /\ UNCHANGED <<daemon, stray>>
    BY <1>3 DEF Recover, callers
  <2>2. hasRuntime' = hasRuntime
    <3>1. CASE phase[a] = "TERMINAL"
      BY <1>3, <3>1 DEF Recover, ReapTask
    <3>2. CASE phase[a] # "TERMINAL"
      <4>1. PICK force : PersistResult(a, force)
        BY <1>3, <3>2 DEF Recover
      <4> QED
        BY <4>1 DEF PersistResult, StoreTaskResult, ApplyTerminal, vars, tables, taskVars
    <3> QED
      BY <3>1, <3>2
  <2> QED
    BY <2>1, <2>2 DEF Known
<1>4. CASE UNCHANGED allVars \/ Restart \/ \E a \in Agents : Refuse(a) \/ RecoverFails(a)
  <2>1. UNCHANGED <<live, stray, hasRuntime>> /\ (daemon = "UP" => daemon' = "UP")
    BY <1>4 DEF allVars, schedVars, vars, tables, taskVars, memory, callers, Restart, Refuse,
       RecoverFails
  <2> QED
    BY <2>1 DEF Known
<1>5. CASE \E t \in Starters : StarterStep(t)
  BY <1>1, <1>5 DEF StarterStep, Claim, NothingToClaim, RouteInvalid, SpawnFails, Spawn,
     SessionFails, Register, Mark, ReadUnmarked, ReadMarked, Deliver, At
<1>6. CASE \E t \in Threads : CommonStep(t)
  BY <1>1, <1>6 DEF CommonStep, SendSucceeds, SendFails, Cleanup, CleanupStop, Persist, Release, At
<1>7. CASE \E t \in Cancellers : CancelStep(t) \/ \E a \in Agents : CancelBegin(t, a)
  BY <1>1, <1>7 DEF CancelStep, CancelBegin, CancelRequest, CancelStop, CancelTimeout, At
<1>8. CASE \E rt \in Runtimes : RuntimeStep(rt) \/ MonitorStep(rt)
  BY <1>1, <1>8 DEF RuntimeStep, MonitorStep, ObserveTerminal, ObserveCompleted, ObserveFailed,
     LateEvent, ObserveSinkError, FinishMonitor, Watching, At
<1>9. CASE Submit \/ (\E m \in Messages, a \in Agents : QueueMessage(m, a)) \/ Serve
  BY <1>1, <1>9 DEF Submit, QueueMessage, Serve, schedVars
<1> QED
  BY <1>2, <1>3, <1>4, <1>5, <1>6, <1>7, <1>8, <1>9 DEF SchedNext

\* The steps that are left while nobody resumes a task, one by one.
LEMMA SchedCases ==
    ASSUME Resumers = {}, SchedInv, SchedNext
    PROVE  \/ Claim(Loop) \/ Spawn(Loop) \/ Register(Loop) \/ ReadMarked(Loop)
           \/ SpawnFails(Loop) \/ SessionFails(Loop) \/ ReadUnmarked(Loop) \/ Mark(Loop)
           \/ RouteInvalid(Loop)
           \/ \E t \in Threads : SendSucceeds(t) \/ SendFails(t)
           \/ \E t \in Threads : Cleanup(t) \/ CleanupStop(t)
           \/ \E t \in Threads : Persist(t)
           \/ \E t \in Threads : Release(t)
           \/ \E c \in Cancellers, a \in Agents : CancelBegin(c, a)
           \/ \E c \in Cancellers : CancelRequest(c)
           \/ \E c \in Cancellers : CancelStop(c) \/ CancelTimeout(c)
           \/ \E rt \in Runtimes : \/ ObserveTerminal(rt) \/ ObserveCompleted(rt)
                                   \/ ObserveFailed(rt) \/ ObserveSinkError(rt)
           \/ \E rt \in Runtimes : FinishMonitor(rt)
           \/ \E rt \in Runtimes : LateEvent(rt)
           \/ Submit
           \/ \E m \in Messages, a \in Agents : QueueMessage(m, a)
           \/ Crash \/ Restart \/ Serve
           \/ \E a \in Agents : Recover(a) \/ Refuse(a) \/ RecoverFails(a)
<1>1. Starters = {Loop} /\ Loop \notin Resumers
  BY Kinds
<1>2. ~NothingToClaim(Loop) /\ ~Deliver(Loop)
  BY <1>1 DEF NothingToClaim, Deliver, At, SchedInv, SchedTypes, LoopPlace
<1>3. CASE \E t \in Starters : StarterStep(t)
  BY <1>1, <1>2, <1>3 DEF StarterStep
<1>4. CASE \E t \in Threads : CommonStep(t)
  BY <1>4 DEF CommonStep
<1>5. CASE \E t \in Cancellers : CancelStep(t) \/ \E a \in Agents : CancelBegin(t, a)
  BY <1>5 DEF CancelStep
<1>6. CASE \E rt \in Runtimes : RuntimeStep(rt) \/ MonitorStep(rt)
  BY <1>6 DEF RuntimeStep, MonitorStep
<1> QED
  BY <1>3, <1>4, <1>5, <1>6 DEF SchedNext

LEMMA SchedStep ==
    ASSUME Resumers = {}, TypeOK, RowsAgree, SchedInv, Known, [SchedNext]_allVars
    PROVE  SchedInv'
<1>1. CASE UNCHANGED allVars
  BY <1>1, SubmitStep DEF allVars, vars, tables, taskVars, callers, schedVars, memory
<1>2. CASE \E rt \in Runtimes : LateEvent(rt)
  BY <1>2, SubmitStep DEF LateEvent, vars, tables, taskVars, callers
<1>3. CASE Submit
  <2>1. UNCHANGED <<daemon, pc, job, active, lifecycle, live, crashes, stray, ownerEpoch>>
    BY <1>3 DEF Submit, ReserveTaskId, EnqueueTaskAuthoritative, schedVars, memory, taskVars, callers
  <2>2. \/ phase' = phase
        \/ \E a \in Agents : phase[a] = "ABSENT" /\ phase' = [phase EXCEPT ![a] = "QUEUED"]
    BY <1>3 DEF Submit, ReserveTaskId, EnqueueTaskAuthoritative, taskVars
  <2> QED
    BY <2>1, <2>2, SubmitStep
<1>4. CASE \E m \in Messages, a \in Agents : QueueMessage(m, a)
  BY <1>4, SubmitStep DEF QueueMessage, InsertMessage, taskVars, schedVars, memory, callers
<1>5. CASE Claim(Loop) \/ Spawn(Loop) \/ Register(Loop) \/ ReadMarked(Loop)
  BY <1>5, ClaimStep, SpawnStep, RegisterStep, ReadMarkedStep
<1>6. CASE SpawnFails(Loop) \/ SessionFails(Loop) \/ ReadUnmarked(Loop) \/ Mark(Loop)
  BY <1>6, StartStep
<1>7. CASE \E t \in Threads : SendSucceeds(t) \/ SendFails(t)
  BY <1>7, SendStep
<1>8. CASE \E t \in Threads : Cleanup(t) \/ CleanupStop(t)
  BY <1>8, CleanupSteps
<1>9. CASE \E t \in Threads : Persist(t)
  BY <1>9, PersistStep
<1>10. CASE \E t \in Threads : Release(t)
  BY <1>10, ReleaseStep
<1>11. CASE \E c \in Cancellers, a \in Agents : CancelBegin(c, a)
  BY <1>11, CancelBeginStep
<1>12. CASE \E c \in Cancellers : CancelRequest(c)
  BY <1>12, CancelRequestStep
<1>13. CASE \E c \in Cancellers : CancelStop(c) \/ CancelTimeout(c)
  BY <1>13, CancelLockStep
<1>14. CASE \E rt \in Runtimes : \/ ObserveTerminal(rt) \/ ObserveCompleted(rt)
                                 \/ ObserveFailed(rt) \/ ObserveSinkError(rt)
  BY <1>14, WatchStep
<1>15. CASE \E rt \in Runtimes : FinishMonitor(rt)
  BY <1>15, FinishStep
<1>16. CASE \/ Crash \/ Restart \/ Serve
            \/ \E a \in Agents : Recover(a) \/ Refuse(a) \/ RecoverFails(a)
  BY <1>16, RestartStep
<1>17. CASE RouteInvalid(Loop)
  BY <1>17, RouteInvalidStep
<1> QED
  BY <1>1, <1>2, <1>3, <1>4, <1>5, <1>6, <1>7, <1>8, <1>9, <1>10, <1>11, <1>12, <1>13, <1>14,
     <1>15, <1>16, <1>17, SchedCases

\* Whatever is to be stored, the store is given an outcome it knows.
LEMMA PersistIsStep ==
    ASSUME TypeOK, NEW a \in Agents, NEW force \in Outcome, PersistResult(a, force)
    PROVE  [Next]_vars
<1>1. CASE UNCHANGED vars
  BY <1>1
<1>2. CASE \E text \in Texts : StoreTaskResult(a, [outcome |-> Effective(a, force), text |-> text])
  <2>1. PICK text \in Texts : StoreTaskResult(a, [outcome |-> Effective(a, force), text |-> text])
    BY <1>2
  <2>2. Effective(a, force) \in Outcome
    BY OutcomeAssumption, ForcedAssumption DEF Effective
  <2>3. [outcome |-> Effective(a, force), text |-> text] \in Result
    BY <2>2 DEF Result
  <2> QED
    BY <2>1, <2>3 DEF Next, TaskStep
<1> QED
  BY <1>1, <1>2 DEF PersistResult

LEMMA StoreStep ==
    ASSUME Resumers = {}, TypeOK, SchedInv, [SchedNext]_allVars
    PROVE  [Next]_vars
<1>1. SchedTypes /\ Prepared /\ Epochs
  BY DEF SchedInv
<1>2. ASSUME NEW a \in Agents, TaskStep(a) PROVE Next
  BY <1>2 DEF Next
<1>3. ASSUME NEW m \in Messages, MessageStep(m) PROVE Next
  BY <1>3 DEF Next
<1>4. CASE UNCHANGED vars
  BY <1>4
<1>5. CASE UNCHANGED allVars
  BY <1>4, <1>5 DEF allVars
<1>6. CASE Claim(Loop)
  BY <1>2, <1>6 DEF Claim, TaskStep
<1>7. CASE Mark(Loop)
  <2>1. CASE MarkSessionRunning(Agent(Loop), Epoch(Loop))
    <3>1. Loop \in Threads /\ pc[Loop] = "REGISTERED"
      BY <1>7, Kinds DEF Mark, At
    <3>2. Agent(Loop) \in Agents /\ Epoch(Loop) = 1 /\ ownerEpoch[Agent(Loop)] = 1
      BY <3>1, AtWork
    <3>3. Epoch(Loop) \in 0 .. MaxEpoch
      BY <1>1, <3>2, EpochAssumption DEF Epochs
    <3> QED
      BY <1>2, <2>1, <3>2, <3>3 DEF TaskStep
  <2> QED
    BY <1>4, <1>7, <2>1 DEF Mark
<1>8. CASE Spawn(Loop) \/ Register(Loop) \/ ReadMarked(Loop) \/ SpawnFails(Loop)
            \/ SessionFails(Loop) \/ ReadUnmarked(Loop)
  BY <1>4, <1>8 DEF Spawn, Register, ReadMarked, SpawnFails, SessionFails, ReadUnmarked
<1>9. ASSUME NEW t \in Threads, SendSucceeds(t) \/ SendFails(t)
      PROVE  [Next]_vars
  <2>1. pc[t] = "SENDING"
    BY <1>9 DEF SendSucceeds, SendFails, At
  <2>2. job[t].message \in Messages
    BY <1>1, <2>1, Kinds DEF SchedTypes, Prepared, LoopPlace, CancellerPlace
  <2> QED
    BY <1>3, <1>4, <1>9, <2>2 DEF SendSucceeds, SendFails, MessageStep
<1>10. ASSUME NEW t \in Threads, Cleanup(t) \/ CleanupStop(t)
       PROVE  [Next]_vars
  <2>1. CASE Cleanup(t)
    <3>1. Agent(t) \in Agents
      BY <2>1, AtWork DEF Cleanup, At
    <3> QED
      BY <1>2, <2>1, <3>1 DEF Cleanup, TaskStep
  <2> QED
    BY <1>4, <1>10, <2>1 DEF CleanupStop
<1>11. ASSUME NEW t \in Threads, Persist(t)
       PROVE  [Next]_vars
  <2>1. pc[t] = "PERSIST" /\ PersistResult(Agent(t), job[t].force)
    BY <1>11 DEF Persist, At
  <2>2. Agent(t) \in Agents /\ job[t].force \in Outcome
    BY <1>1, <2>1, AtWork DEF Prepared, EndingPlace
  <2> QED
    BY <2>1, <2>2, PersistIsStep
<1>12. ASSUME NEW t \in Threads, Release(t)
       PROVE  [Next]_vars
  <2>1. Agent(t) \in Agents
    BY <1>12, AtWork DEF Release, At
  <2> QED
    BY <1>2, <1>4, <1>12, <2>1 DEF Release, TaskStep
<1>13. ASSUME NEW c \in Cancellers, CancelRequest(c)
       PROVE  [Next]_vars
  <2>1. Agent(c) \in Agents
    BY <1>13, AtWork, Kinds DEF CancelRequest, At
  <2> QED
    BY <1>2, <1>13, <2>1 DEF CancelRequest, TaskStep
<1>14. CASE \E c \in Cancellers : CancelStop(c) \/ CancelTimeout(c) \/ \E a \in Agents : CancelBegin(c, a)
  BY <1>4, <1>14 DEF CancelStop, CancelTimeout, CancelBegin
<1>15. ASSUME NEW rt \in Runtimes, \/ ObserveTerminal(rt) \/ ObserveCompleted(rt)
                                   \/ ObserveFailed(rt) \/ ObserveSinkError(rt)
       PROVE  [Next]_vars
  <2>1. CASE TakeMessage(rt, rt)
    BY <1>3, <2>1, Kinds DEF TakeMessage, MessageStep
  <2> QED
    BY <1>4, <1>15, <2>1 DEF ObserveTerminal, ObserveCompleted, ObserveFailed, ObserveSinkError
<1>16. CASE \E rt \in Runtimes : FinishMonitor(rt) \/ LateEvent(rt)
  BY <1>4, <1>16 DEF FinishMonitor, LateEvent
<1>17. CASE Submit
  BY <1>2, <1>17 DEF Submit, TaskStep, Next
<1>18. CASE \E m \in Messages, a \in Agents : QueueMessage(m, a)
  BY <1>3, <1>18 DEF QueueMessage, MessageStep
<1>19. ASSUME NEW a \in Agents, Recover(a) \/ Refuse(a) \/ RecoverFails(a)
       PROVE  [Next]_vars
  <2>1. CASE Recover(a) /\ phase[a] = "TERMINAL"
    BY <1>2, <2>1 DEF Recover, TaskStep
  <2>2. CASE Recover(a) /\ phase[a] # "TERMINAL"
    <3>1. PICK force \in Outcome : PersistResult(a, force)
      BY <2>2, OutcomeAssumption, ForcedAssumption DEF Recover
    <3> QED
      BY <3>1, PersistIsStep
  <2>3. CASE Refuse(a) \/ RecoverFails(a)
    BY <1>4, <2>3 DEF Refuse, RecoverFails
  <2> QED
    BY <1>19, <2>1, <2>2, <2>3
<1>20. CASE Restart \/ Serve
  BY <1>4, <1>20 DEF Restart, Serve
<1>21. CASE Crash
  BY <1>21 DEF Crash, Next
<1>22. CASE RouteInvalid(Loop)
  <2>1. Agent(Loop) \in Agents
    BY <1>22, Kinds, AtWork DEF RouteInvalid, At
  <2> QED
    BY <1>4, <1>22, <2>1, PersistIsStep, ForcedAssumption DEF RouteInvalid
<1> QED
  BY <1>5, <1>6, <1>7, <1>8, <1>9, <1>10, <1>11, <1>12, <1>13, <1>14, <1>15, <1>16, <1>17, <1>18,
     <1>19, <1>20, <1>21, <1>22, SchedCases

-----------------------------------------------------------------------------
\* The scheduler and its store together.
LEMMA Together ==
    ASSUME Resumers = {}
    PROVE  SchedSpec => [](TypeOK /\ RowsAgree /\ OneTaskPerWorkspace /\ SchedInv /\ Known)
<1> DEFINE I == TypeOK /\ RowsAgree /\ OneTaskPerWorkspace /\ SchedInv /\ Known
<1>1. SchedInit => I
  <2>1. Init => OneTaskPerWorkspace
    BY DEF Init, OneTaskPerWorkspace, Busy, BusyPhase, ActivePhase
  <2> QED
    BY <2>1, TypeInit, RowsInit, SchedInitial DEF SchedInit, Known
<1>2. I /\ [SchedNext]_allVars => I'
  <2> SUFFICES ASSUME I, [SchedNext]_allVars PROVE I'
    OBVIOUS
  <2>1. [Next]_vars
    BY StoreStep
  <2>2. SchedInv' /\ Known'
    BY SchedStep, KnownStep
  <2>3. TypeOK' /\ RowsAgree' /\ OneTaskPerWorkspace'
    BY <2>1, TypeStep, RowsAgreeStep, OneTaskStep
  <2> QED
    BY <2>2, <2>3
<1> QED
  BY <1>1, <1>2, PTL DEF SchedSpec

\* For any number of tasks, callers and crashes: every step of the scheduler is a
\* transaction of the store, or none.  What is proved of the store under an arbitrary
\* caller (CancelWins, ResultImmutable and the rest) holds under this one.
THEOREM SchedulerUsesStore ==
    ASSUME Resumers = {}
    PROVE  SchedSpec => Spec
<1>1. SchedInit => Init
  BY DEF SchedInit
<1>2. TypeOK /\ SchedInv /\ [SchedNext]_allVars => [Next]_vars
  BY StoreStep
<1> QED
  BY <1>1, <1>2, Together, PTL DEF SchedSpec, Spec

\* For any number of tasks, callers and crashes: while the daemon runs, a task that left
\* the queue, and whose stored launch is intact, is in the hands of a thread that ends it
\* or of its monitor, whoever leaves and in whatever order starts, cancels and events of
\* the runtime arrive.
THEOREM TasksStayInHand ==
    ASSUME Resumers = {}
    PROVE  SchedSpec => []NoAbandonedTask
<1>1. SchedInv => NoAbandonedTask
  <2> SUFFICES ASSUME SchedInv, NEW a \in Agents \ Damaged, daemon = "UP",
                      phase[a] \in ActivePhase
               PROVE  \E t \in Threads : Agent(t) = a /\ pc[t] \notin {"IDLE", "REQUEST"}
    BY DEF NoAbandonedTask
  <2>1. InHand(a) /\ Epochs
    BY DEF SchedInv, Custody
  <2>2. CASE ownerEpoch[a] = 0
    BY <2>1, <2>2, Kinds DEF InHand
  <2>3. CASE ownerEpoch[a] = 1
    BY <2>1, <2>3 DEF InHand, InCharge, Runtime, Run
  <2> QED
    BY <2>1, <2>2, <2>3 DEF Epochs
<1> QED
  BY <1>1, Together, PTL

\* For any number of tasks and callers: until the daemon crashes, every runtime
\* process it spawned and did not stop belongs to the run of a thread at work.
THEOREM RuntimesStayInHand ==
    ASSUME Resumers = {}
    PROVE  SchedSpec => []NoLeakedRuntime
<1>1. SchedInv => NoLeakedRuntime
  <2> SUFFICES ASSUME SchedInv, NEW rt \in live, crashes = 0
               PROVE  \E t \in Threads : Runtime(t) = rt /\ pc[t] # "IDLE"
    BY DEF NoLeakedRuntime
  <2>1. SchedTypes /\ Custody /\ LiveRuns
    BY DEF SchedInv
  <2>2. rt \in Runtimes /\ rt = <<rt[1], rt[2]>> /\ rt[1] \in Agents
    BY <2>1, Kinds DEF SchedTypes
  <2>3. /\ rt = Run(rt[1]) /\ ownerEpoch[rt[1]] = 1 /\ phase[rt[1]] \in ActivePhase
        /\ rt[1] \notin Damaged /\ daemon = "UP"
    BY <2>1, <2>2 DEF LiveRuns, Run
  <2>4. PICK t \in Threads : InCharge(t, rt[1])
    BY <2>1, <2>2, <2>3 DEF Custody, InHand
  <2> QED
    BY <2>3, <2>4 DEF InCharge
<1> QED
  BY <1>1, Together, PTL

\* For any number of tasks, callers and crashes: the runtimes that the daemon has not
\* stopped, and whose identity was not lost in a crash, work in different workspaces,
\* because each lives only while its task occupies the workspace.
THEOREM OneRuntimePerWorkspace ==
    ASSUME Resumers = {}
    PROVE  SchedSpec => []OneActiveAgent
<1>1. OneTaskPerWorkspace /\ SchedInv => OneActiveAgent
  <2> SUFFICES ASSUME OneTaskPerWorkspace, SchedInv,
                      NEW p \in live \ stray, NEW q \in live \ stray, Home[p[1]] = Home[q[1]]
               PROVE  p[1] = q[1]
    BY DEF OneActiveAgent
  <2>1. SchedTypes /\ LiveRuns
    BY DEF SchedInv
  <2>2. p[1] \in Agents /\ q[1] \in Agents
    BY <2>1, Kinds DEF SchedTypes
  <2>3. Busy(p[1]) /\ Busy(q[1])
    BY <2>1 DEF LiveRuns, Busy, BusyPhase
  <2> QED
    BY <2>2, <2>3 DEF OneTaskPerWorkspace
<1> QED
  BY <1>1, Together, PTL
=============================================================================
