--------------------------- MODULE TaskStoreLease ---------------------------
(***************************************************************************)
(* The store implements WorkspaceLease: an unfinished task holds its       *)
(* workspace, a pending stop or close on it is the cancellation, the       *)
(* outcome column is the verdict, and a task is revocable while a caller   *)
(* that requeued it is still inside queue_message.                         *)
(***************************************************************************)
EXTENDS TaskStore

Lease == INSTANCE WorkspaceLease
         WITH held <- {a \in Agents : Busy(a)},
              cancelled <- {a \in Agents : Busy(a) /\ Stopping(a)},
              verdict <- outcome,
              revocable <- {a \in Agents : \E t \in Resumers :
                                resume[t] = "REQUEUED" /\ goal[t] = a}

\* Every behaviour of the store, under any calls, is one of the lease protocol:
\* admissions, resumes, stops and ends in any order share a workspace correctly, and
\* only the caller of a resume that has not returned can take a workspace away.
ImplementsLease == Lease!Spec
=============================================================================
