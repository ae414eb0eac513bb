--------------------------- MODULE ExecutionLife ---------------------------
(***************************************************************************)
(* What the engine promises of one workflow execution: its rows are opened *)
(* and closed, never removed or opened again; it has the result its rows   *)
(* have as soon as they have one; and then no row moves and no job starts  *)
(* any more.  A job runs behind an open row; closing the row under it      *)
(* tells it to stop, but nothing promises that it does, only that the rows *)
(* do not heed it any more.                                                *)
(***************************************************************************)
CONSTANTS
    Rows,
    Parts,          \* the sets of rows of which at least one must exist
    Provisional     \* the rows whose first verdict may be replaced

VARIABLES
    result,     \* "none", "error", "running", or the result
    row,        \* each row: "none", "open", or its verdict
    firm,       \* the rows whose verdict stands
    live,       \* the rows with a job that may be running
    told        \* those of them whose job was told to stop

vars == <<result, row, firm, live, told>>

Verdicts == {"passed", "failed", "cancelled"}

Init ==
    /\ result = "none"
    /\ row = [r \in Rows |-> "none"]
    /\ firm = {}
    /\ live = {}
    /\ told = {}

Closed(R) == {r \in Rows : R[r] \in Verdicts}
Open(R) == {r \in Rows : R[r] = "open"}

Result(R) ==
    LET has(v) == \E r \in Rows : R[r] = v
    IN  IF (\E P \in Parts : \A r \in P : R[r] = "none") \/ has("open") THEN "running"
        ELSE IF has("cancelled") THEN "cancelled"
        ELSE IF has("failed") THEN "failed" ELSE "success"

(* Rows appear, are closed and judged; a job still running behind a row    *)
(* that is closed is told to stop, and no other is.                        *)
Progress ==
    /\ row' \in [Rows -> {"none", "open"} \cup Verdicts]
    /\ \A r \in Rows : row'[r] = "none" => row[r] = "none"
    /\ Closed(row) \subseteq Closed(row')
    /\ \A r \in firm : row'[r] = row[r]
    /\ firm \subseteq firm'
    /\ Closed(row') \ Provisional \subseteq firm' /\ firm' \subseteq Closed(row')
    /\ live' \subseteq Open(row') \cup Closed(row')
    /\ told' = live' \cap Closed(row') /\ told \subseteq told'
    /\ result' = Result(row')

Trigger == result = "none" /\ Progress

Refuse ==
    /\ result = "none" /\ result' = "error"
    /\ UNCHANGED <<row, firm, live, told>>

Advance == result = "running" /\ Progress

(* A job ends, whether it was told to or not; no row learns of it here.    *)
JobsEnd ==
    /\ live' \subseteq live
    /\ told' = told \cap live'
    /\ UNCHANGED <<result, row, firm>>

Next == Trigger \/ Refuse \/ Advance \/ JobsEnd

Spec == Init /\ [][Next]_vars

=============================================================================
