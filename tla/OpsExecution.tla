---------------------------- MODULE OpsExecution ----------------------------
(***************************************************************************)
(* The life of OpsExecution rows: the jobs that run a command or a script  *)
(* on a host (taurus/websocket_async.py), created by the adapter of a      *)
(* workflow node or by the scheduler worker for the hosts of one scheduled *)
(* task.                                                                   *)
(*                                                                         *)
(* The websocket process runs everything on one event loop.  A loop polls  *)
(* the table; a coroutine _execute_ops_async runs a job; a table of slots  *)
(* (_execution_output_queues) keeps two of them off the same job: a slot   *)
(* is free, held (the placeholder None of an orphan handler) or a queue (a *)
(* coroutine is at work).  A coroutine that was created takes its slot     *)
(* before any coroutine of the job gets further, since the event loop runs *)
(* its first step before any answer that comes later: creation and first   *)
(* step are one action here.  Every await after that is a step of its own. *)
(*                                                                         *)
(* exec_obj.save() writes every field of an object read earlier, so a step *)
(* that saves does not look at the row again.                              *)
(***************************************************************************)
EXTENDS Naturals, FiniteSets

CONSTANTS
    Jobs,           \* the OpsExecution rows, one per host
    NodeJobs,       \* the ones a workflow node may create
    Coros,          \* coroutines that can be alive at once (bound)
    MaxFaults,      \* crashes and database errors in a behaviour (bound)
    Env             \* which users and other processes take part

EnvKinds == {"viewer", "submit", "terminate", "cancel", "force"}

ASSUME OpsAssumption ==
    /\ NodeJobs \subseteq Jobs
    /\ MaxFaults \in Nat
    /\ Env \subseteq EnvKinds

VARIABLES
    origin,     \* who creates the jobs: "workflow" or "task"
    status,     \* OpsExecution.status; "none": no such row is visible
    aged,       \* started_at is more than timeout_seconds + 60 ago
    slot,       \* _execution_output_queues of the websocket process
    coro,       \* the coroutines
    ghost,      \* a process on the host whose coroutine has died
    poll,       \* the polling loop: the list it is working through
    cancelling, \* jobs whose cancel has read an unfinished row
    term,       \* the terminate_command request at work (one at a time, a bound)
    worker,     \* the scheduler worker's handling of the task's payload
    todo,       \* the hosts it has yet to create a job for
    task,       \* the ScriptTaskExecution
    faults      \* faults so far

vars == <<origin, status, aged, slot, coro, ghost, poll, cancelling, term,
          worker, todo, task, faults>>
others == <<origin, cancelling, term, worker, todo>>

FinalStatuses == {"success", "failed", "interrupted"}
OpsStatuses == {"none", "pending", "running"} \cup FinalStatuses

(* A coroutine: its job, the process it lives in ("ws", or "force" for the *)
(* thread a workflow poll starts elsewhere), its place, and the status it  *)
(* has read or is about to write.                                          *)
Places == {"read", "mark", "exec", "save", "final", "verdict", "pop", "oread", "omark"}
Idle == [at |-> "idle"]
Coroutine == [job : Jobs, home : {"ws", "force"}, at : Places, saw : OpsStatuses]

TypeOK ==
    /\ origin \in {"workflow", "task"}
    /\ status \in [Jobs -> OpsStatuses]
    /\ aged \in [Jobs -> BOOLEAN]
    /\ slot \in [Jobs -> {"free", "held", "queue"}]
    /\ coro \in [Coros -> Coroutine \cup {Idle}]
    /\ ghost \in [Jobs -> BOOLEAN]
    /\ poll \in [phase : {"pending", "orphan"}, ids : SUBSET Jobs]
    /\ cancelling \subseteq Jobs
    /\ term \in [job : Jobs, at : {"row", "final", "success", "failed"}] \cup {Idle}
    /\ worker \in {"idle", "queued", "create", "done"}
    /\ todo \subseteq Jobs
    /\ task \in [status : {"none", "running", "success", "failed"},
                 batch : BOOLEAN, summary : BOOLEAN]
    /\ faults \in 0 .. MaxFaults

Init ==
    /\ origin \in {"workflow", "task"}
    /\ status = [j \in Jobs |-> "none"]
    /\ aged = [j \in Jobs |-> FALSE]
    /\ slot = [j \in Jobs |-> "free"]
    /\ coro = [c \in Coros |-> Idle]
    /\ ghost = [j \in Jobs |-> FALSE]
    /\ poll = [phase |-> "orphan", ids |-> {}]
    /\ cancelling = {}
    /\ term = Idle
    /\ worker = "idle"
    /\ todo = {}
    /\ task = [status |-> "none", batch |-> FALSE, summary |-> FALSE]
    /\ faults = 0

Alive == {c \in Coros : coro[c] # Idle}
At(c, place) == c \in Alive /\ coro[c].at = place

(* A new coroutine; which of the idle ones it is does not matter.          *)
Fresh == CHOOSE c \in Coros : c \notin Alive

Start(j, home, place, s) ==
    /\ Alive # Coros
    /\ coro' = [coro EXCEPT ![Fresh] =
                   [job |-> j, home |-> home, at |-> place, saw |-> s]]

Goto(c, place, s) ==
    coro' = [coro EXCEPT ![c] = [job |-> @.job, home |-> @.home, at |-> place, saw |-> s]]

-----------------------------------------------------------------------------
(* _execute_ops_async.                                                     *)

(* A slip: a coroutine starts whether or not another has the slot.         *)
Enter_Always(j) ==
    /\ slot' = [slot EXCEPT ![j] = "queue"]
    /\ Start(j, "ws", "read", "none")

(* It takes the slot, over a placeholder too, unless a coroutine has it.   *)
Enter(j) ==
    \/ /\ slot[j] = "queue"
       /\ UNCHANGED <<slot, coro>>
    \/ /\ slot[j] # "queue"
       /\ slot' = [slot EXCEPT ![j] = "queue"]
       /\ Start(j, "ws", "read", "none")

(* A slip: a completed job is not skipped.                                 *)
Skipped_OnlyRunning(j) ==
    status[j] = "none" \/ (status[j] = "running" /\ ~aged[j])

(* The rows it leaves alone: missing, completed, or running for a time     *)
(* that is not suspicious.  FAILED and interrupted rows are not among them.*)
Skipped(j) ==
    \/ status[j] \in {"none", "success"}
    \/ status[j] = "running" /\ ~aged[j]

ReadRow(c) ==
    /\ At(c, "read")
    /\ Goto(c, IF Skipped(coro[c].job) THEN "pop" ELSE "mark", status[coro[c].job])
    /\ UNCHANGED <<status, aged, slot, ghost, poll, task, faults, others>>

(* mark_running, for a pending row or an orphan; then the host is found    *)
(* offline, or the command is started on it.                               *)
MarkRunning(c) ==
    LET j == coro[c].job
    IN  /\ At(c, "mark")
        /\ IF coro[c].saw \in {"pending", "running"}
           THEN /\ status' = [status EXCEPT ![j] = "running"]
                /\ aged' = [aged EXCEPT ![j] = FALSE]
           ELSE UNCHANGED <<status, aged>>
        /\ Goto(c, "exec", "none") \/ Goto(c, "save", "failed")
        /\ UNCHANGED <<slot, ghost, poll, task, faults, others>>

(* The output stream ends: exit code 0, or anything else (another exit     *)
(* code, a lost connection, no 'finished' marker).                         *)
StreamEnds(c) ==
    /\ At(c, "exec")
    /\ \E s \in {"success", "failed"} : Goto(c, "save", s)
    /\ UNCHANGED <<status, aged, slot, ghost, poll, task, faults, others>>

(* update_execution_success: the row, then the task it may be part of.     *)
SaveResult(c) ==
    /\ At(c, "save")
    /\ status' = [status EXCEPT ![coro[c].job] = coro[c].saw]
    /\ Goto(c, "final", "none")
    /\ UNCHANGED <<aged, slot, ghost, poll, task, faults, others>>

Batch == {j \in Jobs : status[j] # "none"}

(* A slip: the interruption of a host becomes the status of the task.      *)
Verdict_Interrupted ==
    IF origin # "task" \/ \E j \in Batch : status[j] \in {"pending", "running"}
    THEN "none"
    ELSE IF \E j \in Batch : status[j] = "interrupted" THEN "interrupted"
    ELSE IF \E j \in Batch : status[j] = "failed" THEN "failed" ELSE "success"

(* _try_finalize_script_task_execution: what it reads from the rows of the *)
(* batch, "none" when it returns early.  Only status 3 counts as failed.   *)
Verdict ==
    IF origin # "task" \/ \E j \in Batch : status[j] \in {"pending", "running"}
    THEN "none"
    ELSE IF \E j \in Batch : status[j] = "failed" THEN "failed" ELSE "success"

(* The record is looked up after the rows were counted; it has no batch id *)
(* before the worker's mark, and then nothing is written.                  *)
Summarised(v) ==
    IF task.batch THEN [task EXCEPT !.status = v, !.summary = TRUE] ELSE task

Finalize(c) ==
    /\ At(c, "final")
    /\ Goto(c, IF Verdict = "none" THEN "pop" ELSE "verdict", Verdict)
    /\ UNCHANGED <<status, aged, slot, ghost, poll, task, faults, others>>

WriteVerdict(c) ==
    /\ At(c, "verdict")
    /\ task' = Summarised(coro[c].saw)
    /\ Goto(c, "pop", "none")
    /\ UNCHANGED <<status, aged, slot, ghost, poll, faults, others>>

(* A slip: the slot stays behind.                                          *)
Released_Never(c) == slot

(* finally: the slot's entry is removed, whatever it holds.                *)
Released(c) ==
    IF coro[c].home = "ws" THEN [slot EXCEPT ![coro[c].job] = "free"] ELSE slot

Pop(c) ==
    /\ At(c, "pop")
    /\ slot' = Released(c)
    /\ coro' = [coro EXCEPT ![c] = Idle]
    /\ UNCHANGED <<status, aged, ghost, poll, task, faults, others>>

(* A database error in one of the steps: it is logged and the coroutine    *)
(* ends through its finally clause.                                        *)
StepFails(c) ==
    /\ faults < MaxFaults
    /\ \E p \in {"read", "mark", "save", "oread", "omark"} : At(c, p)
    /\ Goto(c, "pop", "none")
    /\ faults' = faults + 1
    /\ UNCHANGED <<status, aged, slot, ghost, poll, task, others>>

(* _handle_orphan_execution: the row is read, the executor is asked (its   *)
(* answer only words the message), and the row is marked interrupted.      *)
OrphanRead(c) ==
    /\ At(c, "oread")
    /\ Goto(c, IF status[coro[c].job] = "running" THEN "omark" ELSE "pop", "none")
    /\ UNCHANGED <<status, aged, slot, ghost, poll, task, faults, others>>

OrphanMark(c) ==
    /\ At(c, "omark")
    /\ status' = [status EXCEPT ![coro[c].job] = "interrupted"]
    /\ Goto(c, "pop", "none")
    /\ UNCHANGED <<aged, slot, ghost, poll, task, faults, others>>

-----------------------------------------------------------------------------
(* _poll_pending_executions: it lists the pending rows and goes through    *)
(* the list, then the orphans and theirs; the lists grow old meanwhile.    *)
ListPending ==
    /\ poll = [phase |-> "orphan", ids |-> {}]
    /\ poll' = [phase |-> "pending", ids |-> {j \in Jobs : status[j] = "pending"}]
    /\ UNCHANGED <<status, aged, slot, coro, ghost, task, faults, others>>

Orphans == {j \in Jobs : status[j] = "running" /\ aged[j]}

ListOrphans ==
    /\ poll = [phase |-> "pending", ids |-> {}]
    /\ poll' = [phase |-> "orphan", ids |-> Orphans]
    /\ UNCHANGED <<status, aged, slot, coro, ghost, task, faults, others>>

(* The query for orphans fails: the loop begins again.                     *)
PollFails ==
    /\ faults < MaxFaults
    /\ faults' = faults + 1
    /\ poll = [phase |-> "pending", ids |-> {}]
    /\ poll' = [phase |-> "orphan", ids |-> {}]
    /\ UNCHANGED <<status, aged, slot, coro, ghost, task, others>>

PollPending(j) ==
    /\ poll.phase = "pending" /\ j \in poll.ids
    /\ poll' = [poll EXCEPT !.ids = @ \ {j}]
    /\ \/ slot[j] = "free" /\ Enter(j)
       \/ slot[j] # "free" /\ UNCHANGED <<slot, coro>>
    /\ UNCHANGED <<status, aged, ghost, task, faults, others>>

(* A slip: an orphan is run again instead of being handled.                *)
HandleOrphan_Retry(j) == Enter(j)

(* The placeholder is put in the slot and the handler started.             *)
HandleOrphan(j) ==
    /\ slot' = [slot EXCEPT ![j] = "held"]
    /\ Start(j, "ws", "oread", "none")

PollOrphan(j) ==
    /\ poll.phase = "orphan" /\ j \in poll.ids
    /\ poll' = [poll EXCEPT !.ids = @ \ {j}]
    /\ \/ slot[j] = "free" /\ HandleOrphan(j)
       \/ slot[j] # "free" /\ UNCHANGED <<slot, coro>>
    /\ UNCHANGED <<status, aged, ghost, task, faults, others>>

(* handle_ops_websocket: a viewer of a pending job starts it.              *)
Viewer(j) ==
    /\ "viewer" \in Env
    /\ status[j] = "pending"
    /\ Enter(j)
    /\ UNCHANGED <<status, aged, ghost, poll, task, faults, others>>

(* submit_execution in the websocket process, from the dispatch of a       *)
(* workflow node (whose transaction may not have committed the row yet) or *)
(* from the poll of a pending one.                                         *)
Submit(j) ==
    /\ "submit" \in Env /\ origin = "workflow" /\ j \in NodeJobs
    /\ status[j] \in {"none", "pending"}
    /\ Enter(j)
    /\ UNCHANGED <<status, aged, ghost, poll, task, faults, others>>

(* The row's start time falls behind timeout_seconds + 60.  That takes a   *)
(* minute at least: a coroutine of the job is executing it or has gone.    *)
Age(j) ==
    /\ status[j] = "running" /\ ~aged[j]
    /\ \A c \in Alive : coro[c].job = j => coro[c].at = "exec"
    /\ aged' = [aged EXCEPT ![j] = TRUE]
    /\ UNCHANGED <<status, slot, coro, ghost, poll, task, faults, others>>

(* The websocket process dies and is started again.                        *)
Restart ==
    /\ faults < MaxFaults
    /\ faults' = faults + 1
    /\ slot' = [j \in Jobs |-> "free"]
    /\ coro' = [c \in Coros |->
                   IF c \in Alive /\ coro[c].home = "ws" THEN Idle ELSE coro[c]]
    /\ ghost' = [j \in Jobs |->
                    ghost[j] \/ \E c \in Coros :
                        At(c, "exec") /\ coro[c].home = "ws" /\ coro[c].job = j]
    /\ poll' = [phase |-> "orphan", ids |-> {}]
    /\ UNCHANGED <<status, aged, task, others>>

GhostEnds(j) ==
    /\ ghost[j]
    /\ ghost' = [ghost EXCEPT ![j] = FALSE]
    /\ UNCHANGED <<status, aged, slot, coro, poll, task, faults, others>>

-----------------------------------------------------------------------------
(* Other processes.                                                        *)

(* The dispatch of a workflow node commits its row.                        *)
Dispatch(j) ==
    /\ origin = "workflow" /\ j \in NodeJobs
    /\ status[j] = "none"
    /\ status' = [status EXCEPT ![j] = "pending"]
    /\ UNCHANGED <<aged, slot, coro, ghost, poll, task, faults, others>>

(* _resubmit_pending_ops_if_needed, outside the websocket process: the     *)
(* pending row is claimed under a lock and a thread runs the coroutine     *)
(* (with a slot table of its own, in which the job's slot is free).  The   *)
(* claim is part of the tick's transaction, and the lock keeps every other *)
(* write of the row waiting for its end: the thread reads the row after    *)
(* the commit, or before it, and goes on with what it has seen; or the     *)
(* tick is rolled back and the claim with it.  (The handler that makes the *)
(* row pending again is out of reach: the coroutine lets no exception out.)*)
ForceExecution(j) ==
    /\ "force" \in Env /\ origin = "workflow"
    /\ status[j] = "pending"
    /\ \/ /\ status' = [status EXCEPT ![j] = "running"]
          /\ Start(j, "force", "read", "none") \/ Start(j, "force", "mark", "pending")
          /\ UNCHANGED faults
       \/ /\ faults < MaxFaults /\ faults' = faults + 1
          /\ Start(j, "force", "read", "none")
          /\ UNCHANGED status
    /\ UNCHANGED <<aged, slot, ghost, poll, task, others>>

(* cancel of the adapter: the row is read, and marked interrupted when it  *)
(* was not finished (cancel_execution does not exist).                     *)
CancelRead(j) ==
    /\ "cancel" \in Env /\ origin = "workflow"
    /\ status[j] \in {"pending", "running"}
    /\ cancelling' = cancelling \cup {j}
    /\ UNCHANGED <<origin, term, worker, todo,
                   status, aged, slot, coro, ghost, poll, task, faults>>

CancelWrite(j) ==
    /\ j \in cancelling
    /\ cancelling' = cancelling \ {j}
    /\ status' = [status EXCEPT ![j] = "interrupted"]
    /\ UNCHANGED <<origin, term, worker, todo,
                   aged, slot, coro, ghost, poll, task, faults>>

(* terminate_command: a process that the executor lists is killed, the row *)
(* is marked failed, and the task is finalised if it can be.               *)
Terminate(j) ==
    /\ "terminate" \in Env
    /\ term = Idle
    /\ \/ \E c \in Coros :
             /\ At(c, "exec") /\ coro[c].job = j
             /\ Goto(c, "save", "failed")
             /\ UNCHANGED ghost
       \/ ghost[j] /\ ghost' = [ghost EXCEPT ![j] = FALSE] /\ UNCHANGED coro
    /\ term' = [job |-> j, at |-> "row"]
    /\ UNCHANGED <<origin, cancelling, worker, todo,
                   status, aged, slot, poll, task, faults>>

TerminateRow ==
    /\ term.at = "row"
    /\ status' = [status EXCEPT ![term.job] = "failed"]
    /\ term' = [term EXCEPT !.at = "final"]
    /\ UNCHANGED <<origin, cancelling, worker, todo,
                   aged, slot, coro, ghost, poll, task, faults>>

TerminateFinalize ==
    /\ term.at = "final"
    /\ term' = IF Verdict = "none" THEN Idle ELSE [term EXCEPT !.at = Verdict]
    /\ UNCHANGED <<origin, cancelling, worker, todo,
                   status, aged, slot, coro, ghost, poll, task, faults>>

TerminateWrite ==
    /\ term.at \in {"success", "failed"}
    /\ task' = Summarised(term.at)
    /\ term' = Idle
    /\ UNCHANGED <<origin, cancelling, worker, todo,
                   status, aged, slot, coro, ghost, poll, faults>>

-----------------------------------------------------------------------------
(* A scheduled task: execute_now and the scheduler worker.                 *)

(* execute_now: the record is created and its payload pushed to Redis; it  *)
(* is marked failed when the push fails.                                   *)
ExecuteNow ==
    /\ origin = "task" /\ worker = "idle"
    /\ \/ /\ worker' = "queued"
          /\ task' = [task EXCEPT !.status = "running"]
       \/ /\ worker' = "done"
          /\ task' = [task EXCEPT !.status = "failed"]
    /\ UNCHANGED <<origin, cancelling, term, todo,
                   status, aged, slot, coro, ghost, poll, faults>>

(* _process_script_task_payload_sync: a missing or disabled script, no     *)
(* host, or a full quota fail the record; otherwise one row per host.      *)
TakePayload ==
    /\ worker = "queued"
    /\ \/ /\ worker' = "done"
          /\ task' = [task EXCEPT !.status = "failed"]
          /\ UNCHANGED todo
       \/ /\ worker' = "create"
          /\ todo' = Jobs
          /\ UNCHANGED task
    /\ UNCHANGED <<origin, cancelling, term,
                   status, aged, slot, coro, ghost, poll, faults>>

CreateJob(j) ==
    /\ worker = "create" /\ j \in todo
    /\ todo' = todo \ {j}
    /\ status' = [status EXCEPT ![j] = "pending"]
    /\ UNCHANGED <<origin, cancelling, term, worker,
                   aged, slot, coro, ghost, poll, task, faults>>

(* One host's INSERT fails; the others go on.                              *)
CreateFails(j) ==
    /\ worker = "create" /\ j \in todo
    /\ faults < MaxFaults
    /\ faults' = faults + 1
    /\ todo' = todo \ {j}
    /\ UNCHANGED <<origin, cancelling, term, worker,
                   status, aged, slot, coro, ghost, poll, task>>

(* _mark_execution with the batch id: success when a row was created.  A   *)
(* later error in the bookkeeping marks the record again, as failed.       *)
MarkTask ==
    /\ worker = "create" /\ todo = {}
    /\ worker' = "done"
    /\ \E s \in {"success", "failed"} :
          /\ task' = [status |-> s, batch |-> TRUE, summary |-> FALSE]
          /\ IF s = "success" <=> Batch # {}
             THEN UNCHANGED faults
             ELSE s = "failed" /\ faults < MaxFaults /\ faults' = faults + 1
    /\ UNCHANGED <<origin, cancelling, term, todo,
                   status, aged, slot, coro, ghost, poll>>

(* The worker dies, or loses Redis right after the pop; the payload has    *)
(* left the queue.                                                         *)
WorkerDies ==
    /\ worker \in {"queued", "create"}
    /\ faults < MaxFaults
    /\ faults' = faults + 1
    /\ worker' = "done"
    /\ todo' = {}
    /\ UNCHANGED <<origin, cancelling, term,
                   status, aged, slot, coro, ghost, poll, task>>

-----------------------------------------------------------------------------
PollLoop == \/ ListPending \/ ListOrphans
            \/ \E j \in Jobs : PollPending(j) \/ PollOrphan(j)

CoroStep(c) == \/ ReadRow(c) \/ MarkRunning(c) \/ StreamEnds(c) \/ SaveResult(c)
               \/ Finalize(c) \/ WriteVerdict(c) \/ Pop(c)
               \/ OrphanRead(c) \/ OrphanMark(c)

Next ==
    \/ PollLoop \/ PollFails \/ Restart
    \/ \E c \in Coros : CoroStep(c) \/ StepFails(c)
    \/ \E j \in Jobs : \/ Viewer(j) \/ Submit(j) \/ Age(j) \/ GhostEnds(j)
                       \/ Dispatch(j) \/ ForceExecution(j)
                       \/ CancelRead(j) \/ CancelWrite(j)
                       \/ Terminate(j) \/ CreateJob(j) \/ CreateFails(j)
    \/ TerminateRow \/ TerminateFinalize \/ TerminateWrite
    \/ ExecuteNow \/ TakePayload \/ MarkTask \/ WorkerDies

Spec == Init /\ [][Next]_vars

(* The polling loop runs for ever, coroutines go on, commands end (the     *)
(* executor enforces timeout_seconds) and time passes.                     *)
Fairness ==
    /\ WF_vars(PollLoop)
    /\ \A c \in Coros : WF_vars(CoroStep(c))
    /\ \A j \in Jobs : WF_vars(Age(j))

FairSpec == Spec /\ Fairness

-----------------------------------------------------------------------------
Workers(j, home) == {c \in Alive : coro[c].job = j /\ coro[c].home = home}
Handlers(j) == {c \in Workers(j, "ws") : coro[c].at \in {"oread", "omark"}}

(* "Avoid [...] the same execution_id simultaneously starting two          *)
(* TaurusClients": in the websocket process a job never has two coroutines *)
(* at work, and its slot is taken exactly as long as there is one, so that *)
(* no slot is left behind that would keep the job from ever being run.     *)
SlotOwned ==
    \A j \in Jobs :
        /\ \A c, d \in Workers(j, "ws") : c = d
        /\ slot[j] = "free" <=> Workers(j, "ws") = {}
        /\ Handlers(j) # {} => slot[j] = "held"

StartsCommand(c) == At(c, "mark") /\ coro'[c] # Idle /\ coro'[c].at = "exec"

(* A command of a scheduled task is not started for a job whose row says   *)
(* it has succeeded, however old the list is that the job was taken from.  *)
NotAfterSuccess ==
    [][\A c \in Coros : StartsCommand(c) /\ origin = "task"
          => status[coro[c].job] # "success"]_vars

(* _handle_orphan_execution: "never re-run automatically".  A command of a *)
(* scheduled task that may still be running on its host, because its       *)
(* coroutine died with the websocket process, is not started again.        *)
NoRerun ==
    [][\A c \in Coros : StartsCommand(c) /\ origin = "task"
          => ~ghost[coro[c].job]]_vars

(* Every job that exists ends, also when the process that ran it died or   *)
(* the row was claimed by a thread that does not run it.                   *)
EveryJobEnds ==
    \A j \in Jobs : status[j] \in {"pending", "running"} ~> status[j] \in FinalStatuses

(* _try_finalize_script_task_execution: once nothing is at work any more,  *)
(* "any failed -> overall status=3".                                       *)
Quiet == /\ Alive = {} /\ worker = "done" /\ term = Idle
         /\ \A j \in Batch : status[j] \in FinalStatuses

TaskVerdict ==
    Quiet /\ Batch # {} =>
        (task.status = "failed" <=> \E j \in Batch : status[j] = "failed")
=============================================================================
