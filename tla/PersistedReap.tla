--------------------------- MODULE PersistedReap ---------------------------
(***************************************************************************)
(* stop_and_reap_persisted_process_group (crates/zcode-driver/src/lib.rs): *)
(* a daemon that was restarted ends the process group whose identity its   *)
(* predecessor stored.  Nobody has waited for those processes meanwhile:   *)
(* they may have exited, and the system may have given the leader's pid,   *)
(* and with it the process group id, to somebody else.                     *)
(*                                                                         *)
(* A process is told from another by its start token; of the tokens only   *)
(* "stored" and "other" matter.  While a group has members its id is not   *)
(* given out again; an empty one may be reused at any time, also between   *)
(* what the reaper observes and what it then signals.                      *)
(***************************************************************************)
EXTENDS Naturals, FiniteSets

CONSTANTS
    Kids            \* processes that can be in the group beside its leader

VARIABLES
    owner,      \* whose group has the stored id: the stored one or another
    leader,     \* the leader of that group lives
    kids,       \* living members beside the leader
    setuid,     \* those of them that run under another uid
    sameUid,    \* the group runs under the stored uid
    pc,         \* where the reaper is, or DOWN before the daemon starts
    hit,        \* owners of the groups that were signalled
    found       \* history: the leader that the reaper found, NONE before it looked,
                \* and REUSED when the id was given away after that

vars == <<owner, leader, kids, setuid, sameUid, pc, hit, found>>
group == <<owner, leader, kids, setuid, sameUid>>

Waiting == {"TERMWAIT", "KILLWAIT"}

Init ==
    /\ owner = "stored"
    /\ leader = TRUE
    /\ kids = {} /\ setuid = {}
    /\ sameUid = TRUE
    /\ pc = "DOWN"
    /\ hit = {}
    /\ found = "NONE"

-----------------------------------------------------------------------------
(***************************************************************************)
(* The processes                                                           *)
(***************************************************************************)

GroupEmpty == ~leader /\ kids = {}

Fork ==
    /\ ~GroupEmpty
    /\ \E k \in Kids \ kids :
          /\ kids' = kids \cup {k}
          /\ setuid' \in {setuid, setuid \cup {k}}
    /\ UNCHANGED <<owner, leader, sameUid, pc, hit, found>>

LeaderExits ==
    /\ leader
    /\ leader' = FALSE
    /\ UNCHANGED <<owner, kids, setuid, sameUid, pc, hit, found>>

KidExits ==
    /\ \E k \in kids : kids' = kids \ {k} /\ setuid' = setuid \ {k}
    /\ UNCHANGED <<owner, leader, sameUid, pc, hit, found>>

\* The id of a group without members is given to a new process that leads its own.
PidReused ==
    /\ GroupEmpty
    /\ found' = IF found = "NONE" THEN "NONE" ELSE "REUSED"
    /\ owner' = "other"
    /\ leader' = TRUE
    /\ sameUid' \in BOOLEAN
    /\ UNCHANGED <<kids, setuid, pc, hit>>

-----------------------------------------------------------------------------
(***************************************************************************)
(* The reaper                                                              *)
(***************************************************************************)

Moves(place) == pc' = place /\ UNCHANGED <<group, hit>>

Finds == found' = IF ~leader THEN "NO_LEADER" ELSE IF owner = "stored" THEN "STORED" ELSE "STRANGER"

Start == pc = "DOWN" /\ Moves("OBSERVE") /\ UNCHANGED found

\* validate_live_group_after_term: every member runs under the stored uid.
Unambiguous == (leader => sameUid) /\ (kids # {} => sameUid) /\ setuid = {}

\* Mutant of ObserveLeader: a leader with another start token counts as none.
ObserveStrangerAsNone ==
    /\ pc = "OBSERVE"
    /\ Moves(IF leader /\ owner = "stored" /\ sameUid THEN "OWNED" ELSE "LEADERLESS")
    /\ Finds

\* observe_process, then validate_same_identity of a leader that was found.
ObserveLeader ==
    /\ pc = "OBSERVE"
    /\ Moves(IF ~leader THEN "LEADERLESS"
             ELSE IF owner = "stored" /\ sameUid THEN "OWNED" ELSE "ERROR")
    /\ Finds

\* validate_owned_group: the leader that was found is still among the members.
ObserveOwned ==
    /\ pc = "OWNED"
    /\ Moves(IF leader /\ owner = "stored" /\ Unambiguous THEN "TERM" ELSE "ERROR")
    /\ UNCHANGED found

\* The leader is not found: nothing to do, or members of its uid to signal.
ObserveLeaderless ==
    /\ pc = "LEADERLESS"
    /\ Moves(IF GroupEmpty THEN "OK" ELSE IF Unambiguous THEN "TERM" ELSE "ERROR")
    /\ UNCHANGED found

\* signal_group, which finds nobody where the group is empty.
Signal ==
    /\ \/ pc = "TERM" /\ pc' = "TERMWAIT"
       \/ pc = "KILL" /\ pc' = "KILLWAIT"
    /\ hit' = IF GroupEmpty THEN hit ELSE hit \cup {owner}
    /\ UNCHANGED <<group, found>>

\* wait_for_persisted_group_death sees the group empty.
GroupDead == pc \in Waiting /\ GroupEmpty /\ Moves("OK") /\ UNCHANGED found

\* Mutant of GroupTimeout: a group that survives SIGKILL is reported as reaped.
GroupTimeoutReaped ==
    /\ pc \in Waiting /\ ~GroupEmpty
    /\ Moves(IF pc = "TERMWAIT" THEN "KILLCHECK" ELSE "OK")
    /\ UNCHANGED found

\* Mutant of GroupTimeout: a group that survives SIGKILL is signalled again.
GroupTimeoutRetries ==
    /\ pc \in Waiting /\ ~GroupEmpty
    /\ Moves("KILLCHECK")
    /\ UNCHANGED found

\* Its deadline passes.
GroupTimeout ==
    /\ pc \in Waiting /\ ~GroupEmpty
    /\ Moves(IF pc = "TERMWAIT" THEN "KILLCHECK" ELSE "ERROR")
    /\ UNCHANGED found

ValidateLiveGroup ==
    /\ pc = "KILLCHECK"
    /\ Moves(IF Unambiguous THEN "KILL" ELSE "ERROR")
    /\ UNCHANGED found

\* The group cannot be observed.
ObservationFails ==
    /\ pc \in {"OBSERVE", "OWNED", "LEADERLESS", "KILLCHECK"} \cup Waiting
    /\ Moves("ERROR")
    /\ found' = IF pc = "OBSERVE" THEN "FAILED" ELSE found

ReaperStep ==
    \/ ObserveLeader
    \/ ObserveOwned
    \/ ObserveLeaderless
    \/ Signal
    \/ GroupDead
    \/ GroupTimeout
    \/ ValidateLiveGroup

Next ==
    \/ Fork \/ LeaderExits \/ KidExits \/ PidReused
    \/ Start \/ ReaperStep \/ ObservationFails

Spec == Init /\ [][Next]_vars
FairSpec == Spec /\ WF_vars(ReaperStep)

-----------------------------------------------------------------------------
(***************************************************************************)
(* Properties                                                              *)
(***************************************************************************)

\* A reap that reports success leaves no process of the stored group, which
\* recovery then records as lost instead of orphaned.
ReapedMeansGone == pc = "OK" => owner = "other" \/ GroupEmpty

\* A stranger's group is signalled only if the reaper found no leader whose start token
\* it could compare, or if the id was given away after it had looked: a leader it found
\* is the one whose group it signals, through TERM, the wait and KILL.
FoundLeaderDecides == "other" \in hit => found \in {"NO_LEADER", "REUSED"}

\* A group that had become somebody else's before the reaper looked is not signalled
\* (docs/recovery.md: "without signaling an unverified PID or process group").
StrangerSpared == found # "REUSED" => "other" \notin hit

\* The reaper returns, whatever the processes do.
ReapReturns == pc = "OBSERVE" ~> pc \in {"OK", "ERROR"}
=============================================================================
