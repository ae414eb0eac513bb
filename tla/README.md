# A TLA+ model of the Taurus back end

Taurus is an operations platform: users draw workflows (DAGs of scripts, program
actions, approvals, loops, waits and HTTP calls) that an engine runs on many
hosts through remote executors. This directory models the parts of it that keep
state and run concurrently, checks them with TLC on small instances, and proves
their safety properties, and that they implement two abstract specifications, with
TLAPS for every DAG, script, flow and number of users.

## 1. Inventory

| Component | State it keeps | Operations | Talks to | What makes it correct |
|---|---|---|---|---|
| DAG scheduling core (`workflow/engine/executor.py`, `schemas.py`) | none (pure) | expand_hosts, edge conditions, collapse of host rows, compute_next_runnables, transition_status | runner | a node is started after all nodes before it, on the branch its conditions choose |
| Workflow runner (`workflow/engine/runner.py`) | `WorkflowExecution`, `WorkflowNodeExecution` rows | trigger_workflow, advance_workflow, cancel_workflow, and their steps: poll, retry, fail_fast, loop expansion and aggregation, dispatch, skip pass, finalise | adapters (units), database | idempotent ticks, terminal statuses stay, an honest result, it finishes |
| Scheduler daemon (`run_workflow_scheduler.py`) | none of its own | advance loop, stale-row sync, zombie reaper, OpsExecution resubmission | runner, database, executors | everything stuck is found and finished |
| Workflow API (`views.py`, WorkflowExecutionViewSet) | the same rows | cancel, retry_node, skip_node, approve_node, rerun, list/detail (light advance) | runner | an operation does what it says, in any state |
| Completion callback (`websocket_async.py`) | OpsExecution rows, node rows | _advance_workflow_for_ops_execution | runner | a result is applied once and to the right row |
| Remote jobs (`websocket_async.py`, units/ops_execution.py) | OpsExecution | submit, poll, orphan handling, abort, finalise of the script task | executors over RPC | every job ends in a terminal row, once |
| Units (`workflow/units/*`) | adapter_state of a row | dispatch, poll, cancel | approval engine, sub-workflows, HTTP | no lost or repeated effect |
| Scheduler worker (`run_scheduler_worker.py`, `tasks.py`) | Redis lists, ScriptTaskExecution | consume, run, mark | runner, remote jobs | no payload lost, no double run |
| Approval engines (`taurus_ee/services/*approval_engine.py`) | instances, nodes, records; the status of the script or workflow | submit, approve, reject, delegate, add_sign, cancel | scripts, workflows | a decision needs the approvers its flow asks for |
| Execution approvals (`views.py`, OpsExecutionApprovalViewSet; `units/approval.py`) | OpsExecutionApproval, its job | ask, approve, reject, delegate, add_sign, cancel, trigger, sync | remote jobs, runner | nothing runs without its approvers; it runs once; the approval ends with its job |
| Hosts, supervisors, certificates, CRL | Host, tokens, certificates | register, heartbeat, revoke | supervisors | a revoked host stays out |
| Program policies, canary, licence, shares | policy rows, share links | decide, install, promote | the above | decisions follow the policy |
| Serializers, admin framework, SDK stubs, config crypto, script checker | declarative or library code | – | – | not modelled |

The hard behaviour is in the first six rows and in the approvals: advance_workflow is called by the
daemon, by the list and detail views, by the completion callback and by parent
workflows at the same time and takes no lock on the execution; its transaction
computes with a snapshot; adapters are called before the transaction commits;
completion results arrive by a poll, by a callback and by a sync that do not know
of each other; users reset, skip, approve, cancel and rerun in between. Jobs
are started by a polling loop, by viewers and by dispatches, lose their process,
become orphans, are claimed, cancelled and terminated by other processes, and the
record of a scheduled task is written by the worker and by whichever host ends last.
Approvals are read without a lock and saved whole or in part by several users at
once, and a process may die between two of the saves of one request.

The full list of components, modelled or not, is in `PROJECT.json` ("components");
what is hard to test in each is listed there under "hazards", with the properties
that watch it.

## 2. Modules

| Module | What it is |
|---|---|
| `WorkflowGraph` | The pure part of the engine: the table of node rows, the status machine, and the passes that compute a new table from a table (prepare, runnable nodes, skip, finalise). No variables. |
| `WorkflowRunner` | One workflow execution and everything that writes its rows: concurrent ticks of advance_workflow, adapters and their jobs, the completion callback, the stale-row sync, users. |
| `MCWorkflowRunner` | The DAGs and outcome sets of its runs. |
| `WorkflowRunnerProofs` | Its theorems for any number of callers. |
| `WorkflowRunnerSerialProofs` | Its theorems for one caller, the daemon. |
| `ExecutionLife` | What the engine promises of one execution: rows that open and close, one result, and then rest. |
| `WorkflowRunnerRefinement` | The proof that the runner implements it. |
| `OpsExecution` | The life of the job rows: websocket process, adapter, terminate, scheduler worker, the task's record. |
| `MCOpsExecution` | Its runs' module. |
| `OpsExecutionProofs` | Its theorems. |
| `ApprovalDecision` | What an approval engine promises: stages, votes in turn, one decision. |
| `Approval` | The two approval engines and the views of scripts and workflows that start an approval or change the status of what is approved; its refinement of `ApprovalDecision`. |
| `MCApproval` | The scripts and workflows of its runs. |
| `ApprovalProofs` | Its theorems for any number of requests at once. |
| `ApprovalSerialProofs` | Its theorems for one request at a time. |
| `ApprovalRefinement` | The proof that the engines implement `ApprovalDecision`. |
| `ExecApproval` | The approval of one execution: who asks, who decides, the job it triggers, the syncs of the job's end, the workflow's approval unit. |
| `MCExecApproval` | The orders of its runs. |
| `ExecApprovalProofs` | Its theorems. |

### 2.1 WorkflowGraph and WorkflowRunner

A row is named `<<node, host, attempt, item>>`: the unique key of
`WorkflowNodeExecution`, with item 0 for the node's own rows and 1, 2, ... for the
children of a loop. A row's content is its status and a mark that stands for the
fields the engine looks at (aggregated, reset by a user, ...). A table maps every
row name to a content, `"none"` where the row does not exist, so an insert that
meets an existing name is the unique-key conflict of the code.

A tick of `advance_workflow` is several steps, because the code is:

| Step | Code |
|---|---|
| `StartTick`, `LoadRunning` | the caller picks the execution up; the RUNNING rows are loaded |
| `PollKeep`, `PollDone`, `PollTimeout`, `PollGiveUp`, `PollRaises` | `_poll_one_row`, one row at a time, each saved over whatever is there now |
| `BeginTx`, `Reread` | the transaction starts and takes its snapshot (`view`); a wrapped caller (the daemon) has taken it before the polls; the reads of the transaction may see later commits |
| `Commit`, `Conflict`, `DispatchRaises`, `CrashTick` | the transaction body (retry, fail_fast, aggregate, insert, dispatch, skip, finalise) as one function of the snapshot, with its four ends |

A job is an OpsExecution row, which `adapter.dispatch` creates in the tick's own
transaction: `Conflict`, `DispatchRaises` and `CrashTick` leave `job` as it was, since
the row is rolled back with the rest. What an adapter does outside the database is
not undone, so `calls` counts every call of a tick, rolled back or not.

`adapter.cancel` (node timeout, fail_fast) stops nothing. It would call
`cancel_execution`, which websocket_async does not have, and then marks the job
aborted. So `KillJobs` sets a job to "killed", which says what its row says: the
command may run on, and its coroutine's last save replaces the mark (`LateResult`).
The mark is part of the transaction the cancel is called in, and the row stays locked
until that ends: `aborts` holds the jobs a wrapped tick has told to stop and not
committed. A poll outside any transaction (an unwrapped caller) marks the job at once.

The settings name no isolation level. Under MySQL's REPEATABLE READ a transaction
computes with the snapshot of its first read; Django's default for MySQL is READ
COMMITTED, under which each read sees what is committed by then. `Reread` lets a tick
replace its snapshot by the current rows any number of times before its passes run,
or never; the passes of one tick still share one view, as what they write is decided
from rows they have all just read. The completion callback is two steps
(`ReadResult`, `WriteResult`), as it reads the row and saves all its fields later.
The handlers of the API (`cancel`, `retry_node`, `skip_node`, `approve_node`,
`rerun`) are one step each: they run in one request and read and write one row
(or one UPDATE), and the gap inside them adds nothing that the ticks' stale
snapshots do not have.

`ExecutionLife` knows no ticks, snapshots, adapters or passes: rows are opened and
closed, a verdict stands once given, the result is the rows' result from the moment
they have one, and after the result no row moves. A job starts behind an open row; when
the row is closed under it the job is told to stop (`told`), may run on all the same,
and no row heeds it any more. The mapping (`rowBar`, `firmBar`, `liveBar`, `toldBar`)
reads the rows and the jobs from the database. The
one verdict that may change is a loop's own: its row is SUCCESS at dispatch and gets
its real status when the children are aggregated, so it is provisional until then.

### 2.2 OpsExecution

The event loop's coroutines have a place each (read, mark, exec, save, final,
verdict, pop; oread, omark for the orphan handler); every await is a step. The
slot table is the one thing between two coroutines of a job. The polling loop
holds a list that grows old. `Restart` kills every coroutine of the process and
leaves `ghost` commands on hosts. Other processes appear as what they do to the
row: the adapter (`Dispatch`, `ForceExecution`, whose claim is committed before or
after its thread reads the row, or rolled back; `CancelRead`/`CancelWrite`),
`terminate_command` (kill, row, sum, record: four steps), the scheduler worker
(`TakePayload`, `CreateJob`, `CreateFails`, `MarkTask`, `WorkerDies`). The sum of a
task is read in one step and its record looked up and written in another, since
the code reads the rows first. The clock is one bit per row (`aged`: the start time
is more than timeout + 60 s ago); it cannot be set while a coroutine is between two
of its short steps, because that takes a minute at least. A viewer's read of the
row and its entry are one step: the gap is one round trip, and an old list of the
polling loop shows what a stale read can do.

### 2.3 ApprovalDecision and Approval

Scripts and workflows have engines of their own with the same steps; `target`
says which of the two it is, and where they differ (who may withdraw, what a
missing rule leads to, publish's approver lists) the definitions say so. What the
rule matcher finds is a choice of `Targets`: a rule with its nodes, or none.

A request is a record that says where it is and what it has read. The engine's
requests read the instance (`Arrive`), then its nodes (`Approve`, `Reject`,
`Invite`, or `Raise`), then save the node, the instance and the object
(`SaveNode`, `SaveInstance`, `SaveObject`): every save writes the whole row that was
read, as Django's `save()` does. A view has read the object and goes through the
statuses it will write (`writes`) and the rows start_approval inserts
(`CreateInstance`, `InsertNode`, `WritePending`), one step each. `Die` ends a request
anywhere. A list of users is its set and its length, because the engine counts
records against the length and an id sent twice makes the two differ. `asked` and
`said` are history: the nodes as they were created, and whose approvals were saved.
Two views write a script's status whatever approval is open (`Overrule`):
ScriptApproveViewSet.approve, whose ScriptApprove records are a second, unrelated way
to approve a script, and an edit in which the client sends the writable field status.
`overruled` records that one of them met an open approval of the script.

`ApprovalDecision` knows none of that: an approval has stages, each asks some
users, a vote is cast on a stage whose turn has come, and a decision is taken once.
The mapping reads the stages and votes from the node rows and the decision from
the instance's status.

### 2.4 ExecApproval

One approval. Here the saves name their fields (`update_fields`), so that a request
carries only those: the records, the candidates, the status. approve triggers the
job before it saves anything of the vote: the places of a request are trigger,
link (the save inside the trigger) and final (the save at the end). The job is
OpsExecution's, reduced to a status, whether a coroutine works on it, and how many
of its two syncs are still to come; terminate, a dead websocket process and the
orphan handler are there because they decide which syncs never come. A listing
reads an approval and its job in one step and updates the approval in another.
The workflow unit asks (`DispatchNode`), polls and withdraws in two steps. The
Approving row that execute_command creates is kept apart (`approving`): the job
that runs is another one.

## 3. Runs

| Run | Instance | Shows |
|---|---|---|
| RunnerUsers | s -> a -> (b on success, c on failure) -> e, a an approval with two retries, c without hosts; the daemon; every user operation, callback, sync and poll fault | `TypeOK`, `UpstreamFirst`, `Lineage`, `NoRedispatch` |
| RunnerRace | two branches that do not wait for each other; daemon and a second caller; callbacks, crashes, a dispatch that raises | `Lineage`, `NoRedispatch` against concurrent ticks |
| RunnerSequential | the branch DAG with a on two hosts; one caller, every dispatch outcome, node timeouts | `DispatchOnce`, `JobsAccountedFor`, `HonestResult`, `TerminalStable`, `StartsAfterUpstream`, `KeepsLife` (the runner implements `ExecutionLife`), and `Terminates` under fairness |
| RunnerLoop | a loop of two items, then a node; fail_fast | `HonestResult`, `LoopVerdict`, `KeepsLife`, `Terminates` |
| OpsJobs | one job, created by a workflow node or by a task, everyone who can touch it, two faults | `TypeOK`, `SlotOwned`, `NotAfterSuccess`, `NoRerun`, and `EveryJobEnds` under fairness |
| ApprovalRace | a script with two levels (any one; then both), two requests at once, invitations, one death | `TypeOK`, `Mandate` |
| ApprovalSerial | eight scripts and workflows (without a rule, public, with need_audit, with rules of no, one and two levels, with their own approvers), every view, two approvals one after the other, publish with approver lists (one naming an id twice), one death | `KeepsPromise` (the engines implement `ApprovalDecision`), `SomebodyIsAwaited`, `OneApprovalOfScript` |
| ExecApprovals | five orders (command and script, any and all, with and without an Approving row, a workflow node with and without an approver), two requests at once, two jobs, one fault | `TypeOK`, `Mandate`, `DoneIsTrue`, `NeverReopened`, and `Settles` under fairness |
| FindRetryRow, FindNoRow | the smallest DAG that shows it | see section 6 |
| FindTaskVerdict | a task on two hosts | see section 6 |
| FindRunTwice | one command, two approvers, no fault | see section 6 |

Bounds, and why they are enough. The DAGs have four or five nodes: a conditional
branch, a fork without a join, a loop and a chain are the shapes the engine treats
differently, and every pass looks at one node and its direct predecessors. Two
hosts are the smallest set whose statuses can differ, two callers the smallest that
can race, two loop items the smallest where one child is terminal and one is not,
two retries the smallest where a retry of a retry exists. `calls` counts 0, 1 and
"two or more". In OpsJobs every property is about one job and jobs share only the
polling loop, so one job suffices (the theorems are for any number); two coroutines
are one of the websocket process and one forced thread (a second thread, after a claim
that was rolled back, is left to the theorems); `MaxFaults = 2` lets a crash meet the
recovery from another; one terminate request is at work at a time.
In the approvals two users are the smallest set in which one may be missing, two
requests the smallest that race, two levels the smallest with an order; in
ApprovalSerial a second approval of the same object (`MaxInstances = 2`) is what
the guards of the views are about. `MaxNodes` bounds the nodes of two instances
together, so that a long chain is followed by itself and short ones by each other.
Two jobs are one more than an approval should trigger; candidates invite others
in the orders where it can matter (`Inviting`). ApprovalRace has one script because
nothing in the engine's steps depends on the kind of what is approved, and its
requests are interchangeable (symmetry).
`CHECK_DEADLOCK FALSE` is set because a finished execution, a job that has ended or
an approval that is decided has nothing more to do. ApprovalSerial checks deadlock:
a script or workflow can always be asked for something.

The properties of RunnerSequential and RunnerLoop are those one caller keeps. With
concurrent callers, or with users, some of them are lost by design or by mistake
(section 6), so the runs with concurrency check what is kept there.

## 4. Fairness

`WorkflowRunner`: the daemon calls advance_workflow for every running execution
every few seconds, for ever, so the steps of a wrapped ticker are weakly fair; a
transaction ends, one way or another (`[]<>(pc # "tx")`, the weak fairness of its
ends, one of which is always possible); a job ends, since the executor enforces
its timeout; a finished job is polled in the end although its polls are spaced out
(`SF` on `PollDone`: the backoff is at most 30 s). Nothing is assumed of users, of
the callback or of the sync.

`OpsExecution`: the polling loop never stops (its body catches every exception), a
coroutine goes on, a command ends by its timeout, and time passes (`WF` on `Age`).
Nothing is assumed of viewers, submissions, users or the worker.

`ExecApproval`: a request that is being served goes on, a job that was triggered is
started, ends (by its timeout) and does its syncs, and somebody lists the approvals
from time to time: without a listing the approval of a command would stay executing,
since the other two syncs are for scripts. Nothing is assumed of approvers.
`Approval` has no fairness: nobody has to approve anything.

## 5. Proofs

TLAPS checks the theorems for every value of the constants that satisfies the
named assumptions: `GraphAssumption`, `RunnerAssumption`, `OpsAssumption`,
`ApprovalAssumption` and `ExecAssumption` say what shape the constants have, `ControlNodeAssumption` that (as the DAG validator
ensures) no edge leaves an end node or enters a start node.

`WorkflowRunnerProofs`: `TypeCorrect`, `RowsFollowEdges` (`UpstreamFirst`),
`RowsHaveParents` (`Lineage`), `DispatchIsIdempotent` (`NoRedispatch`). Neither
`UpstreamFirst` nor `Lineage` is inductive, because a tick writes from a snapshot.
The inductive invariant is `IInv == TypeOK /\ Snapshots /\ Database /\ Callbacks`:
a snapshot never shows a row the database lacks and the tick has not written
itself, rows are never deleted, every row a snapshot or the database has was
inserted together with or after its ancestors, a RUNNING row has a job, the row a
callback is about to write exists. The proof goes through the passes of a tick one
by one (each keeps a table closed under ancestors), then through the actions.

`OpsExecutionProofs`: `TypeCorrect`, `OneCoroutinePerJob` (`SlotOwned`),
`SuccessIsFinal` (`NotAfterSuccess`), `OrphansAreNotRerun` (`NoRerun`). `SlotOwned`
is not inductive: a coroutine takes over a slot that holds a placeholder, and what
keeps it from taking the one of an orphan handler is that the handler's row has
begun, that a row never becomes pending again, and that the lists of the polling
loop hold rows that had begun when they were listed. The invariant adds these
(`Rows`, `Creation`), what a coroutine knows of its row at each place (`Knows`), and
for tasks that a ghost's job is in no pending list and only handled (`TaskJobs`).

`ApprovalProofs`: `TypeCorrect`, `MandateHolds` (`Mandate`). `Mandate` looks at the
instances only; what a save makes of them depends on a row a request read any
number of steps ago. The invariant says of every version of a node row, in the
table or in a request, that it is sound: its approvals are votes that were saved
(or the request's own, about to be saved), it lists everybody the node asked when
it was created, its count is the number of its approvals and its length no less
than its candidates. A lost update replaces a sound row by an older sound row; a
sound row that counts as approved has the approvals the node was created with
(`AllSigned`, by cardinality), and a request that is about to move an instance on
has saved such a row before.

`ExecApprovalProofs`: `TypeCorrect`, `MandateHolds` (`Mandate`), `DoneIsTrueHolds`
(`DoneIsTrue`), `NeverReopenedHolds` (`NeverReopened`). The invariant is
`TypeOK /\ Votes /\ Named /\ Created /\ Decided /\ Mandate /\ DoneIsTrue /\ Seen`:
copies in flight err on one side only. They never hold a vote that was not cast
(`Votes`) nor lack a candidate the order named (`Named`), a request past the
decision has its mandate (`Decided`), and whatever a listing is about to write has
a job that ended so (`Seen`), since the end of a job does not change again.

### 5.1 One caller, one request

The remaining safety properties are lost when ticks or requests overlap (section 6
says how), so their theorems have hypotheses, stated as definitions of the proof
modules. They are the conditions of the runs RunnerSequential, RunnerLoop and
ApprovalSerial, which therefore also show that they can be met; nothing else is
assumed, and the DAG, hosts, loops, retries, outcomes, flows and users stay arbitrary.

* `OneDaemon`: the scheduler daemon is the only caller and nobody else writes rows.
  Node timeouts (E4402), jobs that time out by themselves or run on after their cancel,
  unique-key conflicts, dispatches that raise and crashes of the daemon at any step
  are all allowed.
* `Steady`, in addition: no crash, and no raising dispatch that the handler turns
  into a rollback (it does when there is no user: runner.py:1594). A tick that is
  undone after its adapters were called calls them again, so `DispatchOnce` needs it.
* `OneAtATime`: requests on approvals are served one after the other. They may die half
  way; `SomebodyIsAwaited` and `OneApprovalOfScript` themselves speak of states in
  which none has, and the latter of those in which no approval was `overruled`.

`WorkflowRunnerSerialProofs`: `JobsHaveRows` (`JobsAccountedFor`), `ResultIsHonest`
(`HonestResult`), `LoopsAreJudged` (`LoopVerdict`), `TerminalIsFinal`
(`TerminalStable`), `CalledOnce` (`DispatchOnce`) and `UpstreamIsFinished`
(`StartsAfterUpstream`). None of them is inductive, since what a commit writes was
computed from a snapshot, and the polls in between wrote to the transaction only. The
invariant is `SInv == IInv /\ Alone /\ Orderly(db) /\ Judged(db) /\ JobsAccountedFor /\
HonestResult`. `Alone` says that the daemon's snapshot does not grow stale: off the
rows it has polled, it sees the database as it is, and the polled rows are still
RUNNING in the database, finished in the transaction, and their jobs have ended or are
among `aborts`.
`Orderly` says that only rows with an adapter run, `Judged` is `LoopVerdict` of any
table, the transaction's included. The proof follows the passes of a tick (poll,
fail_fast, aggregation, loop expansion, retry, insert, dispatch, skip, finalise): each
keeps a table orderly and judged and changes no settled row, and their composition is
the commit. `DispatchOnce` adds `Once`: a row that is not there, or is a loop child
still to be dispatched, has cost no call. `StartsAfterUpstream` adds `Unmixed`: only
fail_fast cancels rows, all the unfinished ones at once, and a poll never finds a
RUNNING row with an aborted job, since the two are written in one transaction. So a
cancelled row has no unfinished row of its node beside it, which `host_view_status`
would take for a finished node.

`WorkflowRunnerRefinement`: `LifeKept` (`KeepsLife`). The trigger and the commits are
steps of `ExecutionLife`, the end of a job, told to stop or not, is `JobsEnd`, and
loads, polls, rereads, conflicts and crashes are stutters. The two facts behind it are that
`finalize_workflow_if_done`, which looks at business rows only, gives the result that
all rows have (`ResultShown`), and that a commit withdraws no firm verdict.

`ApprovalSerialProofs`: `OrderKept` (`InOrder`), `SomebodyIsAwaitedHolds`,
`OneApprovalOfScriptHolds`. `InOrder` relates the rows of an approval to its index: the
nodes before the turn are signed, those after it untouched, and the request at work
still holds the current version of what it is about to save. `Awaiting` adds that the
node in turn is unsettled, except between the save of a node and of its instance; this
is where the count of records meets the length of the list of candidates.
`ScriptInOrder` adds that a script with an open approval that was not overruled is
pending, or the request at work is about to make it so.

`ApprovalRefinement`: `PromiseKept` (`KeepsPromise`). Saving a node is a vote or an
invitation of `ApprovalDecision`, saving an instance its decision or a stutter,
inserting nodes lays down stages; everything else stutters. A request that died
between two saves leaves an approval that waits for ever, which the promise allows.

Only model-checked: liveness (`Terminates`, `EveryJobEnds`, `Settles`), which is out of
the prover's reach, and the properties of the Find runs, which do not hold. Every
other property of a run is also a theorem.

## 6. Where the code and its words disagree

Shown by a run:

* FindRetryRow: the rows of `_retry_failed_rows` are never dispatched (runner.py:1171 against 1219).
* FindNoRow: hosts that end FAILED and CANCELLED leave the next node without a row for ever (runner.py:755 against 634).
* FindTaskVerdict: hosts that fail before the worker's mark are never summed up and the task says success (websocket_async.py:546 against 512).
* FindRunTwice: two approvers of an any-one approval both find it pending and each triggers the execution (views.py:6102 against the refusal at 6103).

Met while modelling, and modelled as the code is:

* Two ticks dispatch the same PENDING loop child, which they read without a lock (runner.py:1161 against 1030).
* A dispatch that raises in the daemon's tick rolls everything back, for ever: the handler puts None in update_fields when there is no user (runner.py:1594 against 1486).
* A forced execution whose claim is committed before its thread reads the row skips the job it has claimed: the claim makes the row look taken (units/ops_execution.py:657 against 595), and the job ends interrupted after its timeout. The handler that would make the row PENDING again (684) is out of reach, as `_execute_ops_async` catches every exception.
* `adapter.cancel` stops nothing: `cancel_execution` does not exist, the job is only marked aborted, and the result of the command that runs on overwrites the mark (units/ops_execution.py:724, whose own message says "executor side not yet actually killed", against runner.py:1396, "cleanup remote resources").
* A tick that is rolled back after its adapters were called calls them again (runner.py:1585): OpsExecution rows are rolled back with it, HTTP calls and mails are not.
* `retry_node` and `rerun` reset rows to PENDING, which no tick dispatches (views.py:2199, 2215).
* `skip_node` writes status 5, which is CANCELLED, not SKIPPED (views.py:2229, 2245).
* A terminal row may be overwritten by the poll and the callback, which save without `transition_status` (executor.py:969 against websocket_async.py:376, runner.py:1434).
* The empty DAG start -> end: the trigger's second round inserts rows of its first and is refused (runner.py:963).
* The skip pass runs before loop children are terminal (runner.py:632), and a loop row is terminal at dispatch.
* The retry key collides when a retry is computed twice (runner.py:1218); rows without an error code are not retried (1275), although the docstring says they are (1213, "or no error code (conservative retry)").
* The SKIPPED rows are inserted after the adapters were called, so that a conflict repeats a dispatch (runner.py:769 against 1030).
* The daemon wraps advance_workflow in a transaction, against the comment at runner.py:1067.
* `_execute_ops_async` skips only completed rows: a FAILED or interrupted job that an old list still holds is executed again; its branch for orphans says "resetting and retrying" where `_handle_orphan_execution` says they are never re-run.
* Forced execution and cancel together can run one job in two processes: the thread that claimed it and a coroutine from an old list both read "interrupted". `NotAfterSuccess` and `NoRerun` are therefore stated for the jobs of tasks.
* Interrupted hosts count as success in the sum of a task, and the orphan handler never sums up.
* The worker marks a task success when its rows are created, so the re-entrancy guard of `execute_now` passes while the jobs still run.
* `_get_execution_status_lock` makes a new lock on nearly every call (an uncontended asyncio.Lock has no loop yet); the critical sections contain no await, so nothing depends on it.
* The zombie reaper's `select_for_update` is outside a transaction (run_workflow_scheduler.py:346): on MySQL the query raises, the exception is logged and no row is ever reaped.
* An instance that is decided can be reopened or decided otherwise by a request that read it before (`instance.save()` writes every field: workflow_approval_engine.py:427, 458, 473 against "This approval already processed").
* A death between the save of a node and of its instance leaves a countersign node that nobody can vote on; a death among the inserts of start_approval leaves a chain that is too short. No death is needed for the latter: a vote that approves the first node before start_approval has inserted the second finds no further node and grants the approval (workflow_approval_engine.py:418; `Mandate` speaks of the nodes an instance has passed, and cannot see a node inserted after its end).
* An id sent twice in countersign_ids is counted twice and can sign once: the approval cannot be granted (workflow_approval_engine.py:146, 390).
* publish's search for a pending approval orders by `created_at`, which the model lacks; the exception is taken for "none" and every publish starts another approval (views.py:1125 against the comment at 1117).
* A script whose approval is open can be enabled by ScriptApproveViewSet.approve, which looks only at its own record (script_approval_views.py:76), and by an edit that sends status (serializers.py:1942; views.py:7007 refuses other fields while pending, not this one). The next edit or rollback then opens a second approval.
* A rejected script stays "pending approval": its views refuse it and no approval is open (script_approval_engine.py:375; views.py:7064 says "please withdraw before deleting").
* submit_approve leaves a workflow pending that needed no approval (workflow_dag.py:269); execute of a workflow with need_audit asks anew whenever no approval is open, however often it was approved (views.py:863).
* The rule's nodes default to step_order 1: with equal step_orders their order is the database's choice. The model takes them distinct.
* The OpsExecution that says Approving is neither run nor closed when its approval passes or is withdrawn, and counts in the quota for ever (views.py:6335).
* An approval that is rejected or withdrawn by a late request after the trigger leaves its job running; a job that was interrupted leaves its approval executing (`Settles` excepts it).
* The approval of a workflow node executes its placeholder script on some host when it passes, although the comments say it does not (units/approval.py:158, 268); an inform node without an approver can be passed by nobody, although the comment at 63 says its submitter passes it.
* `approved` is never saved, so the approved count of the statistics is 0 and approve's answer is always "Approval recorded"; candidates given by role raise a KeyError in `_is_approved_by_mode` (views.py:6082).

## 7. What is not modelled

The expression language of edge conditions and parameter rendering, and the
conditions of the approval rules (data, no control); the output stream and its
subscribers; generic edits of approval instances and their nodes through the REST
viewsets, which leave fields such as `status` and `current_node_index` writable, of
script and workflow approvals alike and of OpsExecutionApproval (so the branches of
`_is_approved_by_mode` for an approval without candidates, views.py:6071 and 6084, are
not reached); the ScriptApprove records themselves; candidates given by role; deletion of approvals and of what they
approve; RPC, TLS and X.509 (library code); serializers, settings, migrations,
static data, SDK stubs and the admin framework (declarative or taken over). The
program is the Python code under `src/taurus`, `src/taurus_ee` and `src/dvadmin`; the
JavaScript under `src/static` (swagger-ui, redoc, immutable, coreapi, the browsable
API of rest_framework) are the collected assets of third-party packages and no part
of it. The components under "not_modelled" in `PROJECT.json` that are the platform's
own logic are in the plan.

## 8. Plan

Done, in this order: WorkflowGraph, WorkflowRunner, its proofs, OpsExecution, its
proofs, Approval with ApprovalDecision, its proofs, ExecApproval, its proofs; then the
proofs for one caller and for one request, ExecutionLife, and the two refinements. Next:

1. Proofs: what of `HonestResult` and `DispatchOnce` survives when the completion callback joins the daemon; `TaskVerdict` of OpsExecution for rows that end after the worker's mark.
2. `Units`: wait, http_callback, sub_workflow and program adapters as state machines behind dispatch, poll and cancel; sub-workflows end with their parents.
3. `SchedulerWorker`: the other payloads, several workers, reconnection, trigger_now; no payload run twice.
4. `HostRegistry`: registration tokens, supervisor heartbeats and commands, certificates and revocation. Theorem: a revoked certificate stays revoked.
5. `ProgramPolicy` and `Canary`; `SharePermission`, quotas and licence; `DagValidator` and the edge-condition evaluator as operators against reference definitions.
