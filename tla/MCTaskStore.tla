---------------------------- MODULE MCTaskStore ----------------------------
(***************************************************************************)
(* TaskStore on small instances: two tasks, or one with many commands,     *)
(* many runs or two callers that resume it.                                *)
(***************************************************************************)
EXTENDS TaskStoreLease

CONSTANTS w1, m1, m2, m3, r1, r2, resumer, resumer2

VARIABLE bound   \* fixed by the initial state

OneWorkspace == {w1}
AllInOne == [a \in FirstId .. LastId |-> w1]
ThreeMessages == {m1, m2, m3}
TwoRequests == {r1, r2}
TwoResumers == {resumer, resumer2}

\* One outcome stands for all that are neither COMPLETED nor CANCELLED: the store
\* treats them alike.
ThreeOutcomes == {"COMPLETED", "FAILED", "CANCELLED"}
TwoTexts == {"text", "other text"}

Unused(messages, requests) ==
    /\ \A m \in messages : messageState[m] = "ABSENT"
    /\ \A r \in requests : requestState[r] = "ABSENT"
OneTask == nextId <= FirstId + 1
OneCaller == resume[resumer2] = "IDLE"
OneResult == \A a \in Agents : result[a].text # "other text"

\* Both tasks, the first claimed up to twice, with the message of its resume.
ManyTasks ==
    /\ ownerEpoch[FirstId] <= 2 /\ ownerEpoch[LastId] <= 1
    /\ \A t \in Resumers : goal[t] # LastId
    /\ \A a \in Agents : ~reaped[a]
    /\ ~closeRequested[FirstId]
    /\ Unused(Messages \ {m1}, Requests)
    /\ OneResult
    /\ OneCaller

\* The first task alone, claimed up to twice, with three messages or two and two
\* requests.  Its messages arrive in the order of their names, which stand for no order.
ManyCommands ==
    /\ OneTask
    /\ OneResult
    /\ OneCaller
    /\ ownerEpoch[FirstId] <= 2
    /\ ~closeRequested[FirstId] /\ ~reaped[FirstId]
    /\ messageRowid[m2] > 0 => messageRowid[m1] \in 1 .. messageRowid[m2]
    /\ messageRowid[m3] > 0 => messageRowid[m2] \in 1 .. messageRowid[m3]
    /\ requestState[r2] # "ABSENT" => requestState[r1] # "ABSENT"
    /\ Unused({m3}, {}) \/ Unused({}, {r2})

\* The first task alone, claimed up to MaxEpoch times, with two messages.
ManyRuns ==
    /\ OneTask
    /\ messageRowid[m2] > 0 => messageRowid[m1] \in 1 .. messageRowid[m2]
    /\ Unused({m3}, Requests)
    /\ OneCaller

\* Up to two runs, with two callers that resume it at the same time.
ManyResumes ==
    /\ OneTask
    /\ OneResult /\ result[FirstId].outcome # "FAILED"
    /\ OneCaller \/ resume[resumer] # "IDLE"
    /\ \A t \in Resumers : ~copy[t].stop
    /\ ownerEpoch[FirstId] <= 2
    /\ ~closeRequested[FirstId] /\ ~reaped[FirstId]
    /\ messageRowid[m2] > 0 => messageRowid[m1] \in 1 .. messageRowid[m2]
    /\ Unused({m3}, Requests)

Within(which) ==
    CASE which = "TASKS" -> ManyTasks
      [] which = "COMMANDS" -> ManyCommands
      [] which = "RUNS" -> ManyRuns
      [] which = "RESUMES" -> ManyResumes

MCInit == Init /\ bound \in {"TASKS", "COMMANDS", "RUNS", "RESUMES"}
MCNext == UNCHANGED bound /\ Next /\ Within(bound)'
MCSpec == MCInit /\ [][MCNext]_<<vars, bound>>
=============================================================================
