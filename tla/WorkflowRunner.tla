--------------------------- MODULE WorkflowRunner ---------------------------
(***************************************************************************)
(* One workflow execution and everything that writes its rows.             *)
(*                                                                         *)
(* advance_workflow is run by several callers at once and takes no lock on *)
(* the execution: the scheduler daemon, the detail and list views, the     *)
(* websocket completion callback, a parent workflow.  Each caller is a     *)
(* ticker; a tick loads the RUNNING rows, polls them one by one, and then  *)
(* runs one transaction that retries, cancels, aggregates, inserts,        *)
(* dispatches, skips and finalises.  The settings name no isolation level: *)
(* the transaction computes with the snapshot of its first read (view), as *)
(* at REPEATABLE READ, or with what is committed when it reads (Reread),   *)
(* as at READ COMMITTED, while its writes fall on the current rows.  A     *)
(* Wrapped ticker (the daemon, which calls advance_workflow inside         *)
(* transaction.atomic) has polled in that transaction too.                 *)
(***************************************************************************)
EXTENDS WorkflowGraph

CONSTANTS
    Tickers,        \* concurrent callers of advance_workflow
    Wrapped,        \* the callers that wrap the whole tick in a transaction
    Anonymous,      \* the callers that pass no user_id
    Outcomes,       \* Outcomes[n]: what adapter.dispatch of a node may do
    Env             \* which user operations and faults happen

EnvKinds == {"cancel", "cancel_workflow", "retry_node", "skip_node",
             "approve_node", "rerun", "push", "sync",
             "E4401", "E4402", "E3111", "job_timeout", "crash"}

DispatchOutcomes == {"async", "ok", "bad", "unreachable", "reject", "raise"}

ASSUME RunnerAssumption ==
    /\ Wrapped \subseteq Tickers /\ Anonymous \subseteq Tickers
    /\ Outcomes \in [Nodes -> (SUBSET DispatchOutcomes) \ {{}}]
    /\ Env \subseteq EnvKinds

VARIABLES
    exec,       \* WorkflowExecution.status; "none" before the trigger and
                \* "error" when the trigger raised and was rolled back
    db,         \* the committed WorkflowNodeExecution rows
    job,        \* the remote job (the OpsExecution) behind each row; "killed":
                \* its status says aborted, the command may still run
    calls,      \* how often adapter.dispatch was called for a row: 0, 1, 2+
    callback,   \* what the completion callback of a row's job has read and
                \* is about to write; "-" when there is none
    pc,         \* where each ticker's tick stands
    snap,       \* the RUNNING rows it loaded and has not polled yet
    done,       \* completed_keys_this_tick
    view,       \* its transaction's snapshot, with its own writes
    wrote,      \* the rows its open transaction has written (and locked)
    aborts      \* those of them whose job it has told to stop

vars == <<exec, db, job, calls, callback, pc, snap, done, view, wrote, aborts>>
tick == <<pc, snap, done, view, wrote, aborts>>

FinishedJobs == {"ok", "bad", "timeout", "killed"}
JobStates == {"idle", "active"} \cup FinishedJobs

TypeOK ==
    /\ exec \in {"none", "error", "running", "success", "failed", "cancelled"}
    /\ db \in Tables
    /\ job \in [RowIds -> JobStates]
    /\ calls \in [RowIds -> 0 .. 2]
    /\ callback \in [RowIds -> FinishedJobs \cup {"-"}]
    /\ pc \in [Tickers -> {"idle", "load", "poll", "tx"}]
    /\ snap \in [Tickers -> SUBSET RowIds]
    /\ done \in [Tickers -> SUBSET Nodes]
    /\ view \in [Tickers -> Tables]
    /\ wrote \in [Tickers -> SUBSET RowIds]
    /\ aborts \in [Tickers -> SUBSET RowIds]

Init ==
    /\ exec = "none"
    /\ db = EmptyTable
    /\ job = [r \in RowIds |-> "idle"]
    /\ calls = [r \in RowIds |-> 0]
    /\ callback = [r \in RowIds |-> "-"]
    /\ pc = [t \in Tickers |-> "idle"]
    /\ snap = [t \in Tickers |-> {}]
    /\ done = [t \in Tickers |-> {}]
    /\ view = [t \in Tickers |-> EmptyTable]
    /\ wrote = [t \in Tickers |-> {}]
    /\ aborts = [t \in Tickers |-> {}]

(* A writer waits for the row locks of an open (wrapped) transaction.      *)
Unlocked(R) == \A t \in Tickers : wrote[t] \cap R = {}
UnlockedFor(t, R) == \A u \in Tickers \ {t} : wrote[u] \cap R = {}

-----------------------------------------------------------------------------
(* The steps of the tick's transaction, each from a table to a table.      *)

(* _retry_failed_rows: the next attempt of the latest FAILED attempt of    *)
(* each host, for nodes with a row that this tick's poll completed.        *)
retry_failed_rows(T, keys) ==
    LET failed == {r \in RowIds : r[4] = 0 /\ r[1] \in keys /\ T[r].st = "FAILED"}
        latest == {r \in failed : \A q \in failed :
                      q[1] = r[1] /\ q[2] = r[2] => q[3] <= r[3]}
    IN  {<<r[1], r[2], r[3] + 1, 0>> :
            r \in {q \in latest : q[3] < MaxRetries[q[1]] /\ T[q].err = "retryable"}}

InsertPending(T, R) ==
    [r \in RowIds |-> IF r \in R THEN [NoRow EXCEPT !.st = "PENDING"] ELSE T[r]]

(* _apply_fail_fast_cancel reads with select_for_update, so it sees the    *)
(* current rows (cur) and not the snapshot.                                *)
Unfinished(T) == {r \in RowIds : T[r].st \in {"PENDING", "RUNNING"}}

ToCancel(T, cur) ==
    IF ExecFailStrategy = "fail_fast" /\ \E r \in RowIds : T[r].st = "FAILED"
    THEN Unfinished(cur) ELSE {}

apply_fail_fast_cancel(T, cur, R) ==
    [r \in RowIds |-> IF r \in R THEN [cur[r] EXCEPT !.st = "CANCELLED"] ELSE T[r]]

(* Slips: every row is aggregated; a loop is aggregated with children      *)
(* still unfinished.                                                       *)
ToAggregate_AnyNode(T) ==
    {r \in RowIds : r[4] = 0 /\ Terminal(T, r) /\ T[r].mark # "agg"
                    /\ \A c \in ChildrenOf(T, r[1]) : Terminal(T, c)}

ToAggregate_Unfinished(T) ==
    {r \in RowIds : r[4] = 0 /\ NodeType[r[1]] = "loop" /\ Terminal(T, r) /\ T[r].mark # "agg"}

(* _collect_loop_parent_rows and _aggregate_loop_children.                 *)
ToAggregate(T) ==
    {r \in RowIds : /\ r[4] = 0 /\ NodeType[r[1]] = "loop"
                    /\ Exists(T, r) /\ T[r].mark # "agg"
                    /\ \A c \in ChildrenOf(T, r[1]) : Terminal(T, c)}

aggregate_loop_children(T) ==
    LET parents == ToAggregate(T)
    IN  [r \in RowIds |->
            IF r \notin parents THEN T[r]
            ELSE IF \E c \in ChildrenOf(T, r[1]) : T[c].st = "FAILED"
            THEN [st |-> "FAILED", err |-> "final", mark |-> "agg"]
            ELSE [st |-> "SUCCESS", err |-> "-", mark |-> "agg"]]

(* Slips: every PENDING row; rows that are RUNNING too; no loop children.  *)
Candidates_AllPending(T, created) == {r \in RowIds : T[r].st = "PENDING"}
Candidates_Running(T, created) == {r \in RowIds : T[r].st \in {"PENDING", "RUNNING"}}
Candidates_NoChildren(T, created) == {r \in created : T[r].st = "PENDING"}

(* The rows the tick hands to _dispatch_pending: those it has just created *)
(* and the PENDING rows still marked __loop_child__.                       *)
Candidates(T, created) ==
    {r \in RowIds : T[r].st = "PENDING" /\ (r \in created \/ T[r].mark = "child")}

(* A slip: the row is set RUNNING before the checks and left so when one   *)
(* of them rejects it.                                                     *)
AfterDispatch_LeftRunning(o) ==
    IF o = "ok" THEN [NoRow EXCEPT !.st = "SUCCESS"]
    ELSE IF o \in {"bad", "unreachable"} THEN [NoRow EXCEPT !.st = "FAILED", !.err = "final"]
    ELSE [NoRow EXCEPT !.st = "RUNNING"]

(* _dispatch_pending: a rejected row (E3120..E3124) and one whose dispatch *)
(* raised (E3125) are FAILED; the others are RUNNING or done at once.      *)
AfterDispatch(o) ==
    CASE o = "async" -> [NoRow EXCEPT !.st = "RUNNING"]
      [] o = "ok" -> [NoRow EXCEPT !.st = transition_status("RUNNING", "SUCCESS")]
      [] o = "unreachable" ->
             [NoRow EXCEPT !.st = transition_status("RUNNING", "FAILED"), !.err = "retryable"]
      [] OTHER -> [NoRow EXCEPT !.st = "FAILED", !.err = "final"]

(* _expand_loop_children: the child rows of the loop rows dispatched "ok". *)
Expanded(o) ==
    {r \in RowIds : /\ r[4] # 0 /\ NodeType[r[1]] = "loop"
                    /\ LET p == <<r[1], r[2], 1, 0>>
                       IN  p \in DOMAIN o /\ o[p] = "ok"}

dispatch_pending(T, o) ==
    LET children == Expanded(o)
    IN  [r \in RowIds |->
            IF r \in DOMAIN o THEN AfterDispatch(o[r])
            ELSE IF r \in children
            THEN [NoRow EXCEPT !.st = "PENDING", !.mark = "child"]
            ELSE T[r]]

(* The rows whose adapter.dispatch was called, and those it returned for.  *)
Called(o) == {r \in DOMAIN o : o[r] # "reject"}
Counted(o) == {r \in DOMAIN o : o[r] \notin {"reject", "raise"}}

(* A loop row itself is never left RUNNING (LoopAdapter.dispatch).         *)
DispatchChoices(R) ==
    {o \in [R -> DispatchOutcomes] : \A r \in R :
        /\ o[r] \in Outcomes[r[1]]
        /\ NodeType[r[1]] = "loop" /\ r[4] = 0 => o[r] # "async"}

(* The rows whose dispatch raised.  Their save names the field None when   *)
(* the caller has no user_id, and raises in turn.                          *)
Raised(o) == {r \in DOMAIN o : o[r] = "raise"}

StartJobs(j, o) ==
    [r \in RowIds |-> IF r \in DOMAIN o /\ o[r] = "async" THEN "active" ELSE j[r]]

(* A slip: the adapter is not told to cancel.                              *)
KillJobs_Forgotten(j, R) == j

(* adapter.cancel: websocket_async has no cancel_execution to import, so   *)
(* all it does is to mark an unfinished job aborted.  The command goes on, *)
(* and its result overwrites the mark (LateResult).                        *)
KillJobs(j, R) == [r \in RowIds |-> IF r \in R /\ j[r] = "active" THEN "killed" ELSE j[r]]

CountCalls(o) ==
    [r \in RowIds |-> IF r \in Called(o) /\ calls[r] < 2 THEN calls[r] + 1 ELSE calls[r]]

-----------------------------------------------------------------------------
(* trigger_workflow, one transaction on rows nobody else can see yet.  The *)
(* synchronous follow-up inserts the rows of every runnable end node, also *)
(* of one that the first round has inserted: the unique key then refuses   *)
(* the row and the whole trigger is rolled back.                           *)
Starts == {n \in Nodes : NodeType[n] = "start"}
Ends == {n \in Nodes : NodeType[n] = "end"}

trigger_workflow ==
    /\ exec = "none"
    /\ LET first == compute_next_runnables(EmptyTable)
           T1 == prep_node_rows(EmptyTable, Starts \cup first)
       IN  \E o \in DispatchChoices(Candidates(T1, RowIds)) :
             LET T2 == dispatch_pending(T1, o)
                 second == compute_next_runnables(T2) \cap Ends
                 T3 == prep_node_rows(T2, second)
             IN  /\ calls' = CountCalls(o)
                 /\ IF second \cap first # {}
                    THEN /\ exec' = "error"
                         /\ UNCHANGED <<db, job>>
                    ELSE /\ exec' = finalize_workflow_if_done(T3)
                         /\ db' = T3
                         /\ job' = StartJobs(job, o)
    /\ UNCHANGED <<callback, tick>>

(* A caller has seen the execution running and calls advance_workflow.     *)
StartTick(t) ==
    /\ pc[t] = "idle"
    /\ exec = "running"
    /\ pc' = [pc EXCEPT ![t] = "load"]
    /\ UNCHANGED <<exec, db, job, calls, callback, snap, done, view, wrote, aborts>>

(* advance_workflow loads the RUNNING rows.  For a wrapped caller this     *)
(* read fixes the snapshot of its transaction.                             *)
LoadRunning(t) ==
    /\ pc[t] = "load"
    /\ snap' = [snap EXCEPT ![t] = {r \in RowIds : db[r].st = "RUNNING"}]
    /\ view' = IF t \in Wrapped THEN [view EXCEPT ![t] = db] ELSE view
    /\ pc' = [pc EXCEPT ![t] = "poll"]
    /\ UNCHANGED <<exec, db, job, calls, callback, done, wrote, aborts>>

(* A slip: the job's own word for a failure is written to the row.         *)
PollRow_Verbatim(j) ==
    [st |-> IF j = "ok" THEN "SUCCESS" ELSE IF j = "killed" THEN "CANCELLED" ELSE j,
     err |-> IF j = "timeout" THEN "retryable" ELSE "-"]

(* What adapter.poll, or the websocket push, makes of a finished job.      *)
PollRow(j) ==
    CASE j = "ok" -> [st |-> "SUCCESS", err |-> "-"]
      [] j = "bad" -> [st |-> "FAILED", err |-> "final"]
      [] j = "timeout" -> [st |-> "FAILED", err |-> "retryable"]
      [] j = "killed" -> [st |-> "CANCELLED", err |-> "-"]

(* A row the poll finished is saved, whatever the row holds by now.        *)
SavePolled(t, r, s, e) ==
    /\ UnlockedFor(t, {r})
    /\ snap' = [snap EXCEPT ![t] = @ \ {r}]
    /\ done' = [done EXCEPT ![t] = IF r[4] = 0 THEN @ \cup {r[1]} ELSE @]
    /\ IF t \in Wrapped
       THEN /\ view' = [view EXCEPT ![t][r].st = s, ![t][r].err = e]
            /\ wrote' = [wrote EXCEPT ![t] = @ \cup {r}]
            /\ db' = db
       ELSE /\ db' = [db EXCEPT ![r].st = s, ![r].err = e]
            /\ UNCHANGED <<view, wrote>>
    /\ UNCHANGED <<exec, calls, callback, pc>>

(* _poll_one_row, still running or within its backoff: no status written.  *)
PollKeep(t, r) ==
    /\ pc[t] = "poll" /\ r \in snap[t]
    /\ snap' = [snap EXCEPT ![t] = @ \ {r}]
    /\ UNCHANGED <<exec, db, job, calls, callback, pc, done, view, wrote, aborts>>

(* _poll_one_row: adapter.poll sees the job finished.                      *)
PollDone(t, r) ==
    /\ pc[t] = "poll" /\ r \in snap[t]
    /\ job[r] \in FinishedJobs
    /\ SavePolled(t, r, transition_status("RUNNING", PollRow(job[r]).st), PollRow(job[r]).err)
    /\ UNCHANGED <<job, aborts>>

(* _poll_one_row, E4402: the node's timeout; the adapter is told to cancel *)
(* and marks the job in the caller's transaction, if it has one.           *)
PollTimeout(t, r) ==
    /\ "E4402" \in Env
    /\ pc[t] = "poll" /\ r \in snap[t]
    /\ SavePolled(t, r, "FAILED", "retryable")
    /\ IF t \in Wrapped
       THEN /\ aborts' = [aborts EXCEPT ![t] = @ \cup {r}]
            /\ job' = job
       ELSE /\ job' = KillJobs(job, {r})
            /\ aborts' = aborts

(* _poll_one_row, E4401: two hours, or 200 polls; the job is left alone.   *)
PollGiveUp(t, r) ==
    /\ "E4401" \in Env
    /\ pc[t] = "poll" /\ r \in snap[t]
    /\ SavePolled(t, r, "FAILED", "retryable")
    /\ UNCHANGED <<job, aborts>>

(* _poll_one_row, E3110/E3111: no adapter, or its poll raised.             *)
PollRaises(t, r) ==
    /\ "E3111" \in Env
    /\ pc[t] = "poll" /\ r \in snap[t]
    /\ SavePolled(t, r, "FAILED", "final")
    /\ UNCHANGED <<job, aborts>>

(* The second phase opens its transaction: its first read is the snapshot. *)
BeginTx(t) ==
    /\ pc[t] = "poll" /\ snap[t] = {}
    /\ pc' = [pc EXCEPT ![t] = "tx"]
    /\ view' = IF t \in Wrapped THEN view ELSE [view EXCEPT ![t] = db]
    /\ UNCHANGED <<exec, db, job, calls, callback, snap, done, wrote, aborts>>

EndTick(t) ==
    /\ pc' = [pc EXCEPT ![t] = "idle"]
    /\ snap' = [snap EXCEPT ![t] = {}]
    /\ done' = [done EXCEPT ![t] = {}]
    /\ view' = [view EXCEPT ![t] = EmptyTable]
    /\ wrote' = [wrote EXCEPT ![t] = {}]
    /\ aborts' = [aborts EXCEPT ![t] = {}]

(* The current row, as a locking read of t's transaction sees it.          *)
Current(t) == [r \in RowIds |-> IF r \in wrote[t] THEN view[t][r] ELSE db[r]]

(* At READ COMMITTED the reads of the transaction see what was committed   *)
(* since it began.                                                         *)
Reread(t) ==
    /\ pc[t] = "tx"
    /\ view' = [view EXCEPT ![t] = Current(t)]
    /\ UNCHANGED <<exec, db, job, calls, callback, pc, snap, done, wrote, aborts>>

(* The body of the transaction up to the dispatch: the retry rows, the     *)
(* cancelled rows, the table, the rows it created.                         *)
BeforeDispatch(t) ==
    LET retry == retry_failed_rows(view[t], done[t])
        T1 == InsertPending(view[t], retry)
        cur == [r \in RowIds |-> IF r \in retry THEN T1[r] ELSE Current(t)[r]]
        cancel == ToCancel(T1, cur)
        T2 == aggregate_loop_children(apply_fail_fast_cancel(T1, cur, cancel))
        next == {n \in compute_next_runnables(T2) : RowsOf(T2, n) = {}}
    IN  [retry |-> retry, cancel |-> cancel, ctx |-> refresh_ctx(T2),
         created |-> UNION {PrepIds(n) : n \in next},
         table |-> prep_node_rows(T2, next)]

(* The rest of it: dispatch, second aggregation when something was         *)
(* dispatched (the status table is refreshed before it), skip pass.        *)
AfterDispatching(b, o) ==
    LET T3 == dispatch_pending(b.table, o)
        ctx == IF Counted(o) # {} THEN refresh_ctx(T3) ELSE b.ctx
        T4 == IF Counted(o) # {} THEN aggregate_loop_children(T3) ELSE T3
        skipped == mark_ineligible_nodes_skipped(T4, ctx)
    IN  [late |-> Expanded(o) \cup UNION {PrepIds(n) : n \in skipped},
         table |-> insert_skipped(T4, skipped)]

(* A slip: the rows have no unique key.                                    *)
Taken_Never(R) == FALSE

(* Rows whose unique key is taken: the INSERT raises IntegrityError.       *)
Taken(R) == \E r \in R : Exists(db, r)

(* The transaction of advance_workflow commits.                            *)
Commit(t) ==
    /\ pc[t] = "tx"
    /\ \E b \in {BeforeDispatch(t)} :
           /\ ~Taken(b.retry \cup b.created)
           /\ \E o \in DispatchChoices(Candidates(b.table, b.created)) :
              \E a \in {AfterDispatching(b, o)} :
                LET W == wrote[t] \cup b.cancel \cup
                         {r \in RowIds : a.table[r] # view[t][r]}
                    status == finalize_workflow_if_done(a.table)
                IN  /\ t \in Anonymous => Raised(o) = {}
                    /\ ~Taken(a.late)
                    /\ UnlockedFor(t, W)
                    /\ db' = [r \in RowIds |-> IF r \in W THEN a.table[r] ELSE db[r]]
                    /\ exec' = IF status = "running" THEN exec ELSE status
                    /\ job' = StartJobs(KillJobs(job, b.cancel \cup aborts[t]), o)
                    /\ calls' = CountCalls(o)
    /\ EndTick(t)
    /\ UNCHANGED callback

(* An INSERT meets a key another tick has taken since the snapshot (or     *)
(* that the retry of an earlier tick holds): the transaction rolls back.   *)
(* What the adapters did before the INSERT that failed stays done.         *)
Conflict(t) ==
    /\ pc[t] = "tx"
    /\ \E b \in {BeforeDispatch(t)} :
           \/ /\ Taken(b.retry \cup b.created)
              /\ UNCHANGED calls
           \/ /\ ~Taken(b.retry \cup b.created)
              /\ \E o \in DispatchChoices(Candidates(b.table, b.created)) :
                    /\ t \in Anonymous => Raised(o) = {}
                    /\ Taken(AfterDispatching(b, o).late)
                    /\ calls' = CountCalls(o)
    /\ EndTick(t)
    /\ UNCHANGED <<exec, db, job, callback>>

(* What the adapters may have done when the dispatch phase is left half    *)
(* way: some of the rows were handed to them.                              *)
Abandoned(t) ==
    UNION {IF Taken(b.retry \cup b.created) THEN {}
           ELSE UNION {DispatchChoices(D) : D \in SUBSET Candidates(b.table, b.created)} :
              b \in {BeforeDispatch(t)}}

(* E3125 in a tick without user_id: the handler's own save raises and the  *)
(* transaction is rolled back.                                             *)
DispatchRaises(t) ==
    /\ t \in Anonymous
    /\ pc[t] = "tx"
    /\ \E o \in Abandoned(t) :
          /\ \E r \in DOMAIN o : Raised(o) = {r}
          /\ calls' = CountCalls(o)
    /\ EndTick(t)
    /\ UNCHANGED <<exec, db, job, callback>>

(* The process running the tick dies, or its transaction is the victim of  *)
(* a lock wait: nothing of the open transaction survives, but the adapters *)
(* may have been called already.                                           *)
CrashTick(t) ==
    /\ "crash" \in Env
    /\ pc[t] # "idle"
    /\ \/ UNCHANGED calls
       \/ /\ pc[t] = "tx"
          /\ \E o \in Abandoned(t) : calls' = CountCalls(o)
    /\ EndTick(t)
    /\ UNCHANGED <<exec, db, job, callback>>

-----------------------------------------------------------------------------
(* The remote job ends by itself and its coroutine writes how, unless an   *)
(* open transaction has the job's row.                                     *)
JobEnds(r) ==
    /\ \A t \in Tickers : r \notin aborts[t]
    /\ \E s \in {"ok", "bad"} \cup (IF "job_timeout" \in Env THEN {"timeout"} ELSE {}) :
          job' = [job EXCEPT ![r] = s]
    /\ UNCHANGED <<exec, db, calls, callback, tick>>

FinishJob(r) == job[r] = "active" /\ JobEnds(r)

(* The job that was told to stop has run on, and its end replaces the mark.*)
LateResult(r) == job[r] = "killed" /\ JobEnds(r)

(* websocket_async: the completion callback reads the job and its row, and *)
(* later saves every field of an unfinished row, whatever the row holds by *)
(* then (its advance_workflow call is a ticker's).                         *)
ReadResult(r) ==
    /\ "push" \in Env
    /\ job[r] \in FinishedJobs
    /\ db[r].st = "RUNNING"
    /\ callback[r] = "-"
    /\ callback' = [callback EXCEPT ![r] = job[r]]
    /\ UNCHANGED <<exec, db, job, calls, tick>>

WriteResult(r) ==
    /\ callback[r] # "-"
    /\ Unlocked({r})
    /\ db' = [db EXCEPT ![r] = [st |-> PollRow(callback[r]).st, err |-> PollRow(callback[r]).err,
                                mark |-> "-"]]
    /\ callback' = [callback EXCEPT ![r] = "-"]
    /\ UNCHANGED <<exec, job, calls, tick>>

(* _sync_stale_workflow_nodes of the daemon: a locked RUNNING row, and any *)
(* aborted job counts as CANCELLED.                                        *)
sync_stale_workflow_node(r) ==
    /\ "sync" \in Env
    /\ job[r] \in FinishedJobs
    /\ db[r].st = "RUNNING"
    /\ Unlocked({r})
    /\ db' = [db EXCEPT ![r].st = IF job[r] = "timeout" THEN "CANCELLED"
                                  ELSE PollRow(job[r]).st,
                        ![r].err = PollRow(job[r]).err]
    /\ UNCHANGED <<exec, job, calls, callback, tick>>

-----------------------------------------------------------------------------
(* Operations of users (WorkflowExecutionViewSet) and of a parent workflow.*)

(* cancel: the rows' update names a field the table does not have, and the *)
(* FieldError is swallowed, so only the execution changes.                 *)
Cancel ==
    /\ "cancel" \in Env
    /\ exec = "running"
    /\ exec' = "cancelled"
    /\ UNCHANGED <<db, job, calls, callback, tick>>

(* WorkflowRunner.cancel_workflow: every unfinished row is CANCELLED and   *)
(* its job killed; the execution's status is not looked at.                *)
cancel_workflow ==
    /\ "cancel_workflow" \in Env
    /\ exec \notin {"none", "error"}
    /\ Unlocked(Unfinished(db))
    /\ exec' = "cancelled"
    /\ db' = [r \in RowIds |->
                 IF r \in Unfinished(db) THEN [db[r] EXCEPT !.st = "CANCELLED"] ELSE db[r]]
    /\ job' = KillJobs(job, {r \in RowIds : db[r].st = "RUNNING"})
    /\ UNCHANGED <<calls, callback, tick>>

(* A slip: the row is deleted, to be created anew.                         *)
ResetRow_Deleted == NoRow

ResetRow == [NoRow EXCEPT !.st = "PENDING"]

(* The rows one node key names: the node's own, or those of one loop item. *)
KeyRows(n, i) == {r \in RowIds : r[1] = n /\ r[4] = i}

(* retry_node: the node's FAILED and CANCELLED rows become PENDING again.  *)
retry_node(n, i) ==
    LET R == {r \in KeyRows(n, i) : db[r].st \in {"FAILED", "CANCELLED"}}
    IN  /\ "retry_node" \in Env
        /\ exec = "running"
        /\ R # {} /\ Unlocked(R)
        /\ db' = [r \in RowIds |-> IF r \in R THEN ResetRow ELSE db[r]]
        /\ UNCHANGED <<exec, job, calls, callback, tick>>

(* skip_node: the node's PENDING rows get status 5, which is CANCELLED.    *)
skip_node(n, i) ==
    LET R == {r \in KeyRows(n, i) : db[r].st = "PENDING"}
    IN  /\ "skip_node" \in Env
        /\ exec = "running"
        /\ R # {} /\ Unlocked(R)
        /\ db' = [r \in RowIds |->
                     IF r \in R THEN [db[r] EXCEPT !.st = "CANCELLED"] ELSE db[r]]
        /\ UNCHANGED <<exec, job, calls, callback, tick>>

(* approve_node: the PENDING rows of an approval node become SUCCESS.      *)
approve_node(n) ==
    LET R == {r \in KeyRows(n, 0) : db[r].st = "PENDING"}
    IN  /\ "approve_node" \in Env
        /\ exec = "running"
        /\ NodeType[n] = "approval"
        /\ R # {} /\ Unlocked(R)
        /\ db' = [r \in RowIds |->
                     IF r \in R THEN [db[r] EXCEPT !.st = "SUCCESS"] ELSE db[r]]
        /\ UNCHANGED <<exec, job, calls, callback, tick>>

(* rerun, mode failed_only: a finished execution runs again with its       *)
(* FAILED, SKIPPED and CANCELLED rows reset (its tick is a ticker's).      *)
rerun_failed_only ==
    LET R == {r \in RowIds : db[r].st \in {"FAILED", "SKIPPED", "CANCELLED"}}
    IN  /\ "rerun" \in Env
        /\ exec \in {"success", "failed", "cancelled"}
        /\ Unlocked(R)
        /\ exec' = "running"
        /\ db' = [r \in RowIds |-> IF r \in R THEN ResetRow ELSE db[r]]
        /\ UNCHANGED <<job, calls, callback, tick>>

-----------------------------------------------------------------------------
Tick(t) ==
    \/ StartTick(t) \/ LoadRunning(t) \/ BeginTx(t) \/ Reread(t) \/ Commit(t)
    \/ Conflict(t) \/ DispatchRaises(t) \/ CrashTick(t)
    \/ \E r \in RowIds : \/ PollKeep(t, r) \/ PollDone(t, r) \/ PollTimeout(t, r)
                         \/ PollGiveUp(t, r) \/ PollRaises(t, r)

Next ==
    \/ trigger_workflow
    \/ \E t \in Tickers : Tick(t)
    \/ \E r \in RowIds : FinishJob(r) \/ LateResult(r) \/ ReadResult(r) \/ WriteResult(r)
                       \/ sync_stale_workflow_node(r)
    \/ Cancel \/ cancel_workflow \/ rerun_failed_only
    \/ \E n \in Nodes : \/ approve_node(n)
                        \/ \E i \in 0 .. LoopItems[n] : retry_node(n, i) \/ skip_node(n, i)

Spec == Init /\ [][Next]_vars

-----------------------------------------------------------------------------
(* What every interleaving keeps.                                          *)

(* advance_workflow's idempotency, as far as it goes: whatever the callers *)
(* interleave, adapter.dispatch is never called for a node row that is     *)
(* already in the database (loop children are another matter).             *)
NoRedispatch ==
    [][\A r \in RowIds : r[4] = 0 /\ calls'[r] # calls[r] => ~Exists(db, r)]_vars

(* Rows appear along the edges: a node has a row only when every node      *)
(* before it has one, also when ticks work from stale snapshots.           *)
UpstreamFirst ==
    \A r \in RowIds : Exists(db, r) =>
        \A e \in Incoming[r[1]] : RowsOf(db, e.from) # {}

(* A retry row follows the attempt before it, a loop child its loop row,   *)
(* and a row is RUNNING only with a job behind it that a poll can finish.  *)
Lineage ==
    \A r \in RowIds : Exists(db, r) =>
        /\ r[3] > 1 => Exists(db, <<r[1], r[2], r[3] - 1, 0>>)
        /\ r[4] > 0 => Exists(db, <<r[1], r[2], 1, 0>>)
        /\ db[r].st = "RUNNING" => job[r] # "idle"

-----------------------------------------------------------------------------
(* What one caller at a time keeps.                                        *)

(* schemas.py and VALID_TRANSITIONS: a terminal status is never left; only *)
(* that of a loop's own row may change until its children are aggregated:  *)
(* the aggregation replaces what the row has from its dispatch (SUCCESS or *)
(* FAILED) or from the skip pass.                                          *)
TerminalStable ==
    [][\A r \in RowIds :
          /\ Terminal(db, r)
          /\ ~(NodeType[r[1]] = "loop" /\ r[4] = 0 /\ db[r].mark # "agg")
          => db'[r].st = db[r].st]_vars

(* A node is dispatched only when no row of a node before it is unfinished.*)
StartsAfterUpstream ==
    [][\A n \in Nodes : \A r \in OwnRows[n] :
          ~Exists(db, r) /\ Exists(db', r) /\ db'[r].st # "SKIPPED" /\ r[3] = 1
          => \A e \in Incoming[n] : \A q \in RowsOf(db', e.from) : Terminal(db', q)]_vars

(* An adapter is called once for a row.                                    *)
DispatchOnce == \A r \in RowIds : calls[r] <= 1

(* Every unfinished job is accounted for: it is behind a RUNNING row, or   *)
(* it was told to stop, which happens together with closing its row.  (One *)
(* that was told to stop may still be running, see KillJobs.)              *)
JobsAccountedFor ==
    \A r \in RowIds : /\ job[r] = "active" => db[r].st = "RUNNING"
                      /\ job[r] = "killed" => Terminal(db, r)

(* The execution's result is the rows': finished only with every business  *)
(* node decided, success only when nothing failed or was cancelled, failed *)
(* only when something failed.                                             *)
HonestResult ==
    /\ exec \in {"success", "failed", "cancelled"} =>
          /\ \A n \in Business : RowsOf(db, n) # {}
          /\ \A r \in RowIds : Exists(db, r) => Terminal(db, r)
    /\ exec = "success" =>
          \A r \in RowIds : Exists(db, r) => db[r].st \in {"SUCCESS", "SKIPPED"}
    /\ exec = "failed" => \E r \in RowIds : db[r].st = "FAILED"

(* A loop row that was aggregated says what its children say.              *)
LoopVerdict ==
    \A r \in RowIds : db[r].mark = "agg" /\ exec = "running" =>
        /\ \A q \in ChildrenOf(db, r[1]) : Terminal(db, q)
        /\ db[r].st = "FAILED" <=> \E q \in ChildrenOf(db, r[1]) : db[q].st = "FAILED"

-----------------------------------------------------------------------------
(* The life of the execution, as one caller shows it.  A loop's own row    *)
(* has its verdict when its children were aggregated; until then the one   *)
(* from its dispatch is provisional.                                       *)
Word == [s \in Statuses \cup {"none"} |->
            CASE s = "none" -> "none"
              [] s \in {"PENDING", "RUNNING"} -> "open"
              [] s \in {"SUCCESS", "SKIPPED"} -> "passed"
              [] s = "FAILED" -> "failed"
              [] s = "CANCELLED" -> "cancelled"]

LoopRows == {r \in RowIds : NodeType[r[1]] = "loop" /\ r[4] = 0}

rowBar == [r \in RowIds |-> Word[db[r].st]]
firmBar == {r \in RowIds : Terminal(db, r) /\ (r \in LoopRows => db[r].mark = "agg")}
liveBar == {r \in RowIds : job[r] \in {"active", "killed"}}
toldBar == {r \in RowIds : job[r] = "killed"}

Life == INSTANCE ExecutionLife WITH
    Rows <- RowIds, Parts <- {OwnRows[n] : n \in Business}, Provisional <- LoopRows,
    result <- exec, row <- rowBar, firm <- firmBar,
    live <- liveBar, told <- toldBar

(* With the scheduler daemon as its one caller, advance_workflow keeps the *)
(* promise of ExecutionLife through timeouts, retries and failed dispatch: *)
(* no verdict it wrote is withdrawn, the execution ends in the tick that   *)
(* closes its last row, and a job that runs behind a closed row was told   *)
(* to stop when the row was closed.                                        *)
KeepsLife == Life!Spec

-----------------------------------------------------------------------------
(* Fairness.  The daemon calls advance_workflow for every running          *)
(* execution every few seconds, for ever; a job ends (its own timeout sees *)
(* to that); and a row's backoff is at most 30 seconds, so a finished job  *)
(* is polled in the end.  An open transaction ends: Commit, Conflict or    *)
(* DispatchRaises is possible in every "tx" state of a lone caller and     *)
(* only they leave it, so this is their weak fairness.                     *)
Fairness ==
    /\ \A t \in Wrapped :
          /\ WF_vars(StartTick(t)) /\ WF_vars(LoadRunning(t)) /\ WF_vars(BeginTx(t))
          /\ []<>(pc[t] # "tx")
          /\ WF_vars(\E r \in RowIds : PollKeep(t, r))
          /\ SF_vars(\E r \in RowIds : PollDone(t, r))
    /\ WF_vars(\E r \in RowIds : FinishJob(r))

FairSpec == Spec /\ Fairness

(* A running execution is finished in the end.                             *)
Terminates == exec = "running" ~> exec \in {"success", "failed", "cancelled"}

-----------------------------------------------------------------------------
(* Statements of the code's comments and tests that it does not keep.      *)

(* _retry_failed_rows: a retry row is "PENDING, handled by subsequent      *)
(* _dispatch_pending".                                                     *)
PendingIsDispatched ==
    \A r \in RowIds : db[r].st = "PENDING" ~> db[r].st # "PENDING"

(* _mark_ineligible_nodes_skipped: every node of the DAG eventually has a  *)
(* row (end nodes are left out of that pass).                              *)
EveryNodeGetsRow == \A n \in Business : exec = "running" ~> RowsOf(db, n) # {}

=============================================================================
