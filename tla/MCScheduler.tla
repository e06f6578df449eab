---------------------------- MODULE MCScheduler ----------------------------
(***************************************************************************)
(* Scheduler on small instances.                                           *)
(***************************************************************************)
EXTENDS Scheduler

CONSTANTS w1, w2, m1, m2, resumer, canceller, canceller2

OneWorkspace == {w1}
TwoWorkspaces == {w1, w2}
AllInOne == [a \in FirstId .. LastId |-> w1]
OneEach == [a \in FirstId .. LastId |-> IF a = FirstId THEN w1 ELSE w2]

Intact == {}
LastDamaged == {LastId}

NoMessages == {}
OneMessage == {m1}
TwoMessages == {m1, m2}
NoRequests == {}
NoResumers == {}
OneResumer == {resumer}
NoCancellers == {}
OneCanceller == {canceller}
TwoCancellers == {canceller, canceller2}

AllOutcomes == {"COMPLETED", "FAILED", "CANCELLED", "RUNTIME_LOST", "RESULT_INVALID"}
OneText == {"text"}
=============================================================================
