--------------------------- MODULE WorkspaceLease ---------------------------
(***************************************************************************)
(* What the store promises about workspaces, without phases, epochs or     *)
(* tables: a task holds its workspace from admission to its verdict, alone,*)
(* and one that was cancelled while it held it gets no other verdict.  A   *)
(* task that was acquired again is revocable while the call that did it    *)
(* lasts: the call may take it back, with whatever verdict it knew.        *)
(***************************************************************************)
EXTENDS Naturals

CONSTANTS Agents, Home, Outcome

VARIABLES
    held,        \* the tasks that hold their workspace
    cancelled,   \* those of them that were told to stop
    verdict,     \* how each task last ended, NONE before and during a run
    revocable    \* the tasks that a call which acquired them may still take back

vars == <<held, cancelled, verdict, revocable>>

Init ==
    /\ held = {}
    /\ cancelled = {}
    /\ verdict = [a \in Agents |-> "NONE"]
    /\ revocable = {}

Acquire(a) ==
    /\ \A b \in held : Home[b] # Home[a]
    /\ held' = held \cup {a}
    /\ verdict' = [verdict EXCEPT ![a] = "NONE"]
    /\ revocable' \in {revocable, revocable \cup {a}}
    /\ UNCHANGED cancelled

Cancel(a) ==
    /\ a \in held
    /\ cancelled' = cancelled \cup {a}
    /\ UNCHANGED <<held, verdict, revocable>>

Release(a, how) ==
    /\ a \in held
    /\ a \in cancelled => how = "CANCELLED"
    /\ held' = held \ {a}
    /\ cancelled' = cancelled \ {a}
    /\ verdict' = [verdict EXCEPT ![a] = how]
    /\ UNCHANGED revocable

\* Another call may have acquired a as well: a stays revocable for that one.
TakeBack(a, how) ==
    /\ a \in revocable
    /\ held' = held \ {a}
    /\ cancelled' = cancelled \ {a}
    /\ verdict' = [verdict EXCEPT ![a] = how]
    /\ revocable' \in {revocable, revocable \ {a}}

\* Calls return, or die with their process.
Settle ==
    /\ revocable' \subseteq revocable
    /\ UNCHANGED <<held, cancelled, verdict>>

Next ==
    \/ \E a \in Agents :
          \/ Acquire(a)
          \/ Cancel(a)
          \/ \E how \in Outcome : Release(a, how)
          \/ \E how \in Outcome \cup {"NONE"} : TakeBack(a, how)
    \/ Settle

Spec == Init /\ [][Next]_vars
=============================================================================
