----------------------------- MODULE TaskPages -----------------------------
(***************************************************************************)
(* Listing tasks page by page: Store::list_task_page (crates/              *)
(* zcode-agent-store/src/lib.rs), RpcMethod::TaskList with its cursor      *)
(* (crates/zcode-agentd/src/rpc.rs) and agent_list of the facade (mcp.rs). *)
(* A client walks the pages while tasks are created and change phase: the  *)
(* cursor is all that connects two pages.                                  *)
(*                                                                         *)
(* A task is its rowid, which SQLite hands out in increasing order; rows   *)
(* of tasks are never deleted.  Whether a row meets the filter of the walk *)
(* (repository, phase, outcome) is one flag, which its phase may flip.     *)
(***************************************************************************)
EXTENDS Integers, Sequences, SequencesExt, FiniteSets

CONSTANTS
    MaxTasks,   \* bound on the rows of tasks
    Limit,      \* limit of the query, 1 .. MAX_LIST_TASKS
    MaxFlips    \* bound on the changes of phase

PageBounds == MaxTasks \in Nat /\ Limit \in Nat \ {0} /\ MaxFlips \in Nat

NoCursor == 0   \* Option::None; a cursor the service parses is positive

VARIABLES
    matching,   \* for each row of tasks, whether it meets the filter
    flips,      \* how often one changed
    stable,     \* the rows that met the filter since the walk began
    walk,       \* IDLE, WALKING or DONE
    cursor,     \* the cursor of the next page
    listed      \* the rows the client was given, in order

vars == <<matching, flips, stable, walk, cursor, listed>>

Init ==
    /\ matching = << >> /\ flips = 0 /\ stable = {}
    /\ walk = "IDLE" /\ cursor = NoCursor /\ listed = << >>

\* create_general_task_auto: a row with the next rowid
Create(meets) ==
    /\ Len(matching) < MaxTasks
    /\ matching' = Append(matching, meets)
    /\ UNCHANGED <<flips, stable, walk, cursor, listed>>

\* A task changes its phase
Flip(row) ==
    /\ flips < MaxFlips
    /\ flips' = flips + 1
    /\ matching' = [matching EXCEPT ![row] = ~@]
    /\ stable' = stable \ {row}
    /\ UNCHANGED <<walk, cursor, listed>>

Matching == {row \in DOMAIN matching : matching[row]}

Begin ==
    /\ walk = "IDLE"
    /\ walk' = "WALKING"
    /\ stable' = Matching
    /\ UNCHANGED <<matching, flips, cursor, listed>>

\* rowid < ?4, or no cursor
Below(row) == cursor = NoCursor \/ row < cursor

\* ORDER BY rowid DESC: the row with i - 1 newer ones is number i
NewestFirst(rows) ==
    [i \in 1 .. Cardinality(rows) |->
        CHOOSE row \in rows : Cardinality({newer \in rows : newer > row}) = i - 1]

\* Mutant of Rows: the page is read in the order of insertion
RowsAscending == Reverse(NewestFirst({row \in Matching : Below(row)}))

\* The query: newest first, one row more than the page holds
Rows == NewestFirst({row \in Matching : Below(row)})

HasMore == Len(Rows) > Limit

\* Mutant of Page: the cursor is the extra row, which the next page leaves out
PageSkips ==
    /\ walk = "WALKING"
    /\ listed' = listed \o SubSeq(Rows, 1, IF HasMore THEN Limit ELSE Len(Rows))
    /\ IF HasMore THEN cursor' = Rows[Limit + 1] /\ walk' = walk
                  ELSE cursor' = NoCursor /\ walk' = "DONE"
    /\ UNCHANGED <<matching, flips, stable>>

\* Mutant of Page: every page comes with a cursor, an empty one with the client's own
PageAlwaysCursor ==
    /\ walk = "WALKING"
    /\ listed' = listed \o SubSeq(Rows, 1, IF HasMore THEN Limit ELSE Len(Rows))
    /\ cursor' = IF HasMore THEN Rows[Limit] ELSE IF Rows = << >> THEN cursor ELSE Last(Rows)
    /\ UNCHANGED <<matching, flips, stable, walk>>

\* A page, and the rowid of its last row as the cursor if there is more
Page ==
    /\ walk = "WALKING"
    /\ listed' = listed \o SubSeq(Rows, 1, IF HasMore THEN Limit ELSE Len(Rows))
    /\ IF HasMore THEN cursor' = Rows[Limit] /\ walk' = walk
                  ELSE cursor' = NoCursor /\ walk' = "DONE"
    /\ UNCHANGED <<matching, flips, stable>>

Next ==
    \/ \E meets \in BOOLEAN : Create(meets)
    \/ \E row \in DOMAIN matching : Flip(row)
    \/ Begin \/ Page

Spec == Init /\ [][Next]_vars

\* A client that asks for the next page while it is given a cursor
FairSpec == Spec /\ WF_vars(Page)

----------------------------------------------------------------------------
(* Properties.                                                             *)

\* No task is listed twice and the list stays newest first, although rows
\* come and go between the pages of a walk.
ListedOnceNewestFirst == \A i, j \in DOMAIN listed : i < j => listed[i] > listed[j]

\* A walk that has ended has listed every task that met the filter all along.
StableAreListed == walk = "DONE" => stable \subseteq ToSet(listed)

\* A walk ends however many tasks are created meanwhile: the cursor only goes down.
WalkEnds == walk = "WALKING" ~> walk = "DONE"
============================================================================
