-------------------------- MODULE OpsExecutionProofs --------------------------
(***************************************************************************)
(* Safety of the life of OpsExecution rows, for any number of jobs,        *)
(* coroutines and faults.                                                  *)
(*                                                                         *)
(* The slot table is only safe because of facts about other state: nobody  *)
(* takes a slot over from an orphan handler, since the handler's row has   *)
(* begun (is past PENDING) and a row never goes back, and since the lists  *)
(* of the polling loop, old as they may be, hold rows that had begun.      *)
(***************************************************************************)
EXTENDS OpsExecution, TLAPS

Begun(j) == status[j] \notin {"none", "pending"}

(* Slots and coroutines of the websocket process correspond one to one.    *)
Slots ==
    /\ \A c, d \in Alive : /\ coro[c].home = "ws" /\ coro[d].home = "ws"
                           /\ coro[c].job = coro[d].job
                           => c = d
    /\ \A c \in Alive : coro[c].home = "ws" => slot[coro[c].job] # "free"
    /\ \A j \in Jobs : slot[j] # "free" =>
          \E c \in Alive : coro[c].home = "ws" /\ coro[c].job = j
    /\ \A c \in Alive : coro[c].home = "ws" /\ coro[c].at \in {"oread", "omark"}
          => slot[coro[c].job] = "held"

(* What is known of the row of a job that someone is at work on.           *)
Rows ==
    /\ \A j \in Jobs : slot[j] = "held" => Begun(j)
    /\ poll.phase = "orphan" => \A j \in poll.ids : Begun(j)
    /\ \A j \in cancelling : status[j] # "none"
    /\ term # Idle => Begun(term.job)
    /\ \A j \in Jobs : ghost[j] => Begun(j)

(* The worker creates a job's row once.                                    *)
Creation ==
    /\ \A j \in todo : status[j] = "none"
    /\ todo # {} => worker = "create"
    /\ worker # "idle" => origin = "task"
    /\ origin = "task" /\ worker \in {"idle", "queued"} =>
          \A j \in Jobs : status[j] = "none"

(* What a coroutine knows at each place.                                   *)
Knows ==
    \A c \in Alive :
        /\ coro[c].at = "mark" =>
              /\ status[coro[c].job] # "none" /\ coro[c].saw # "none"
              /\ coro[c].saw \in FinalStatuses => Begun(coro[c].job)
        /\ coro[c].at \in {"exec", "save", "omark"} => Begun(coro[c].job)
        /\ coro[c].at \in {"save", "verdict"} => coro[c].saw \in {"success", "failed"}

(* The jobs of a task stay in the websocket process; one that has          *)
(* succeeded, or runs on its host without a coroutine, is left alone.      *)
TaskJobs ==
    origin = "task" =>
        /\ \A c \in Alive : /\ coro[c].home = "ws"
                            /\ coro[c].at = "mark" => status[coro[c].job] # "success"
        /\ \A j \in Jobs : ghost[j] =>
              /\ poll.phase = "pending" => j \notin poll.ids
              /\ \A c \in Alive : coro[c].job = j => coro[c].at \in {"oread", "omark", "pop"}

IInv == TypeOK /\ Slots /\ Rows /\ Creation /\ Knows /\ TaskJobs

(* A new coroutine takes the place of an idle one.                         *)
LEMMA FreshIsIdle ==
    ASSUME Alive # Coros
    PROVE  Fresh \in Coros /\ Fresh \notin Alive
<1>1. PICK c \in Coros : c \notin Alive  BY DEF Alive
<1> QED  BY <1>1 DEF Fresh

(* A coroutine that goes on stays alive, on the same job and in the same   *)
(* process; the others stay where they are.                                *)
LEMMA GotoFacts ==
    ASSUME TypeOK, NEW c \in Alive, NEW p \in Places, NEW s \in OpsStatuses, Goto(c, p, s)
    PROVE  /\ coro' \in [Coros -> Coroutine \cup {Idle}]
           /\ Alive' = Alive
           /\ \A d \in Coros : d # c => coro'[d] = coro[d]
           /\ coro'[c].job = coro[c].job /\ coro'[c].home = coro[c].home
           /\ coro'[c].at = p /\ coro'[c].saw = s
<1>1. coro[c] \in Coroutine /\ c \in Coros  BY DEF TypeOK, Alive
<1>2. coro'[c] = [job |-> coro[c].job, home |-> coro[c].home, at |-> p, saw |-> s]
  BY <1>1 DEF Goto, TypeOK
<1>3. coro'[c] \in Coroutine /\ coro'[c] # Idle  BY <1>1, <1>2 DEF Coroutine, Idle, Places
<1>4. \A d \in Coros : d # c => coro'[d] = coro[d]  BY <1>1 DEF Goto, TypeOK
<1>5. coro' \in [Coros -> Coroutine \cup {Idle}]  BY <1>1, <1>3, <1>4 DEF Goto, TypeOK
<1> QED  BY <1>1, <1>2, <1>3, <1>4, <1>5 DEF Alive

(* The initial states satisfy the invariant.                               *)
LEMMA InitIInv == Init => IInv
BY OpsAssumption
   DEF Init, IInv, TypeOK, Slots, Rows, Creation, Knows, TaskJobs, Begun, Alive, Idle,
       Coroutine, OpsStatuses, FinalStatuses, Places

(* The state predicates and the record types are expanded in every step.   *)
USE DEF At, Alive, Idle, Begun, IInv, TypeOK, Slots, Rows, Creation, Knows, TaskJobs, others,
        Coroutine, Places, OpsStatuses, FinalStatuses

(* Every step of a coroutine, a database error in one included.            *)
LEMMA CoroutineSteps ==
    ASSUME IInv, NEW c \in Coros,
           CoroStep(c) \/ StepFails(c)
    PROVE  IInv'
<1>1. CASE ReadRow(c)
  <2>1. TypeOK'  BY <1>1 DEF ReadRow, Skipped, Goto
  <2>2. Slots'  BY <1>1, SMTT(30) DEF ReadRow, Skipped, Goto
  <2>3. Rows' /\ Creation'  BY <1>1 DEF ReadRow, Skipped, Goto
  <2>4. Knows' /\ TaskJobs'  BY <1>1 DEF ReadRow, Skipped, Goto
  <2> QED  BY <2>1, <2>2, <2>3, <2>4
<1>2. CASE MarkRunning(c)
  <2>1. TypeOK'
    <3>1. coro' \in [Coros -> Coroutine \cup {Idle}]  BY <1>2, GotoFacts DEF MarkRunning
    <3>2. status' \in [Jobs -> OpsStatuses]  BY <1>2 DEF MarkRunning
    <3>3. aged' = aged \/ aged' = [aged EXCEPT ![coro[c].job] = FALSE]  BY <1>2 DEF MarkRunning
    <3>4. aged' \in [Jobs -> BOOLEAN]
      <4>1. CASE aged' = aged  BY <4>1
      <4>2. CASE aged' = [aged EXCEPT ![coro[c].job] = FALSE]  BY <4>2
      <4> QED  BY <3>3, <4>1, <4>2
    <3> QED  BY <1>2, <3>1, <3>2, <3>4 DEF MarkRunning
  <2>2. Slots'  BY <1>2 DEF MarkRunning, Goto
  <2>3. Rows' /\ Creation'  BY <1>2 DEF MarkRunning, Goto
  <2>4. Knows' /\ TaskJobs'
    <3>1. PICK p \in {"exec", "save"} : Goto(c, p, IF p = "exec" THEN "none" ELSE "failed")
      BY <1>2 DEF MarkRunning
    <3>2. /\ coro[c].saw \in FinalStatuses => Begun(coro[c].job)
          /\ coro[c].saw \in {"pending", "running"} \cup FinalStatuses
      BY <1>2 DEF MarkRunning
    <3>3. status'[coro[c].job] \notin {"none", "pending"}  BY <1>2, <3>2 DEF MarkRunning
    <3>4. \A j \in Jobs : status[j] # "none" => status'[j] # "none"  BY <1>2 DEF MarkRunning
    <3>5. \A j \in Jobs : Begun(j) => Begun(j)'  BY <1>2 DEF MarkRunning
    <3>6. Knows'  BY <1>2, <3>1, <3>3, <3>4, <3>5 DEF MarkRunning, Goto
    <3>7. TaskJobs'  BY <1>2, <3>1 DEF MarkRunning, Goto
    <3> QED  BY <3>6, <3>7
  <2> QED  BY <2>1, <2>2, <2>3, <2>4
<1>3. CASE StreamEnds(c)
  <2>1. TypeOK'  BY <1>3 DEF StreamEnds, Goto
  <2>2. Slots'  BY <1>3 DEF StreamEnds, Goto
  <2>3. Rows' /\ Creation'  BY <1>3 DEF StreamEnds, Goto
  <2>4. Knows' /\ TaskJobs'  BY <1>3 DEF StreamEnds, Goto
  <2> QED  BY <2>1, <2>2, <2>3, <2>4
<1>4. CASE SaveResult(c)
  <2>1. TypeOK'  BY <1>4 DEF SaveResult, Goto
  <2>2. Slots'  BY <1>4 DEF SaveResult, Goto
  <2>3. Rows' /\ Creation'  BY <1>4 DEF SaveResult, Goto
  <2>4. Knows' /\ TaskJobs'  BY <1>4 DEF SaveResult, Goto
  <2> QED  BY <2>1, <2>2, <2>3, <2>4
<1>5. CASE Finalize(c)
  <2>1. TypeOK'  BY <1>5 DEF Finalize, Verdict, Batch, Goto
  <2>2. Slots'  BY <1>5 DEF Finalize, Verdict, Batch, Goto
  <2>3. Rows' /\ Creation'  BY <1>5 DEF Finalize, Verdict, Batch, Goto
  <2>4. Knows' /\ TaskJobs'  BY <1>5 DEF Finalize, Verdict, Batch, Goto
  <2> QED  BY <2>1, <2>2, <2>3, <2>4
<1>6. CASE WriteVerdict(c)
  <2>1. TypeOK'
    <3>1. coro' \in [Coros -> Coroutine \cup {Idle}]  BY <1>6, GotoFacts DEF WriteVerdict
    <3>2. coro[c].saw \in {"success", "failed"}  BY <1>6 DEF WriteVerdict
    <3> QED  BY <1>6, <3>1, <3>2 DEF WriteVerdict, Summarised
  <2>2. Slots'  BY <1>6 DEF WriteVerdict, Summarised, Goto
  <2>3. Rows' /\ Creation'  BY <1>6 DEF WriteVerdict, Summarised, Goto
  <2>4. Knows' /\ TaskJobs'  BY <1>6 DEF WriteVerdict, Summarised, Goto
  <2> QED  BY <2>1, <2>2, <2>3, <2>4
<1>7. CASE Pop(c)
  <2>1. TypeOK'  BY <1>7 DEF Pop, Released
  <2>2. Slots'  BY <1>7 DEF Pop, Released
  <2>3. Rows' /\ Creation'  BY <1>7 DEF Pop, Released
  <2>4. Knows' /\ TaskJobs'  BY <1>7 DEF Pop, Released
  <2> QED  BY <2>1, <2>2, <2>3, <2>4
<1>8. CASE OrphanRead(c)
  <2>1. TypeOK'  BY <1>8 DEF OrphanRead, Goto
  <2>2. Slots'  BY <1>8 DEF OrphanRead, Goto
  <2>3. Rows' /\ Creation'  BY <1>8 DEF OrphanRead, Goto
  <2>4. Knows' /\ TaskJobs'  BY <1>8 DEF OrphanRead, Goto
  <2> QED  BY <2>1, <2>2, <2>3, <2>4
<1>9. CASE OrphanMark(c)
  <2>1. TypeOK'  BY <1>9 DEF OrphanMark, Goto
  <2>2. Slots'  BY <1>9 DEF OrphanMark, Goto
  <2>3. Rows' /\ Creation'  BY <1>9 DEF OrphanMark, Goto
  <2>4. Knows' /\ TaskJobs'  BY <1>9 DEF OrphanMark, Goto
  <2> QED  BY <2>1, <2>2, <2>3, <2>4
<1>10. CASE StepFails(c)
  <2>1. TypeOK'  BY <1>10, OpsAssumption DEF StepFails, Goto
  <2>2. Slots'  BY <1>10 DEF StepFails, Goto
  <2>3. Rows' /\ Creation'  BY <1>10 DEF StepFails, Goto
  <2>4. Knows' /\ TaskJobs'  BY <1>10 DEF StepFails, Goto
  <2> QED  BY <2>1, <2>2, <2>3, <2>4
<1> QED  BY <1>1, <1>2, <1>3, <1>4, <1>5, <1>6, <1>7, <1>8, <1>9, <1>10 DEF CoroStep

(* The polling loop: a job taken from an old list is in a state the handler *)
(* or the coroutine expects.                                               *)
LEMMA PollingSteps ==
    ASSUME IInv, NEW j,
           PollFails \/ ListPending \/ ListOrphans \/ (j \in Jobs /\ (PollPending(j) \/ PollOrphan(j)))
    PROVE  IInv'
<1>1. CASE ListPending
  <2>1. TypeOK'  BY <1>1 DEF ListPending
  <2>2. Slots'  BY <1>1 DEF ListPending
  <2>3. Rows' /\ Creation'  BY <1>1 DEF ListPending
  <2>4. Knows' /\ TaskJobs'  BY <1>1 DEF ListPending
  <2> QED  BY <2>1, <2>2, <2>3, <2>4
<1>2. CASE ListOrphans
  <2>1. TypeOK'  BY <1>2 DEF ListOrphans, Orphans
  <2>2. Slots'  BY <1>2 DEF ListOrphans, Orphans
  <2>3. Rows' /\ Creation'  BY <1>2 DEF ListOrphans, Orphans
  <2>4. Knows' /\ TaskJobs'  BY <1>2 DEF ListOrphans, Orphans
  <2> QED  BY <2>1, <2>2, <2>3, <2>4
<1>3. CASE j \in Jobs /\ PollPending(j)
  <2>1. TypeOK'  BY <1>3, FreshIsIdle DEF PollPending, Enter, Start
  <2>2. Slots'  BY <1>3, FreshIsIdle DEF PollPending, Enter, Start
  <2>3. Rows' /\ Creation'  BY <1>3, FreshIsIdle DEF PollPending, Enter, Start
  <2>4. Knows' /\ TaskJobs'  BY <1>3, FreshIsIdle DEF PollPending, Enter, Start
  <2> QED  BY <2>1, <2>2, <2>3, <2>4
<1>4. CASE j \in Jobs /\ PollOrphan(j)
  <2>1. TypeOK'  BY <1>4, FreshIsIdle DEF PollOrphan, HandleOrphan, Start
  <2>2. Slots'  BY <1>4, FreshIsIdle DEF PollOrphan, HandleOrphan, Start
  <2>3. Rows' /\ Creation'  BY <1>4, FreshIsIdle DEF PollOrphan, HandleOrphan, Start
  <2>4. Knows' /\ TaskJobs'  BY <1>4, FreshIsIdle DEF PollOrphan, HandleOrphan, Start
  <2> QED  BY <2>1, <2>2, <2>3, <2>4
<1>5. CASE PollFails
  <2>1. TypeOK'  BY <1>5, OpsAssumption DEF PollFails
  <2>2. Slots'  BY <1>5 DEF PollFails
  <2>3. Rows' /\ Creation'  BY <1>5 DEF PollFails
  <2>4. Knows' /\ TaskJobs'  BY <1>5 DEF PollFails
  <2> QED  BY <2>1, <2>2, <2>3, <2>4
<1> QED  BY <1>1, <1>2, <1>3, <1>4, <1>5

(* The rest of the websocket process, its restart included.                *)
LEMMA ProcessSteps ==
    ASSUME IInv, NEW j,
           Restart \/ (j \in Jobs /\ (Viewer(j) \/ Submit(j) \/ Age(j) \/ GhostEnds(j)))
    PROVE  IInv'
<1>1. CASE j \in Jobs /\ Viewer(j)
  <2>1. TypeOK'  BY <1>1, FreshIsIdle DEF Viewer, Enter, Start
  <2>2. Slots'  BY <1>1, FreshIsIdle DEF Viewer, Enter, Start
  <2>3. Rows' /\ Creation'  BY <1>1, FreshIsIdle DEF Viewer, Enter, Start
  <2>4. Knows' /\ TaskJobs'  BY <1>1, FreshIsIdle DEF Viewer, Enter, Start
  <2> QED  BY <2>1, <2>2, <2>3, <2>4
<1>2. CASE j \in Jobs /\ Submit(j)
  <2>1. TypeOK'  BY <1>2, FreshIsIdle DEF Submit, Enter, Start
  <2>2. Slots'  BY <1>2, FreshIsIdle DEF Submit, Enter, Start
  <2>3. Rows' /\ Creation'  BY <1>2, FreshIsIdle DEF Submit, Enter, Start
  <2>4. Knows' /\ TaskJobs'  BY <1>2, FreshIsIdle DEF Submit, Enter, Start
  <2> QED  BY <2>1, <2>2, <2>3, <2>4
<1>3. CASE j \in Jobs /\ Age(j)
  <2>1. TypeOK'  BY <1>3 DEF Age
  <2>2. Slots'  BY <1>3 DEF Age
  <2>3. Rows' /\ Creation'  BY <1>3 DEF Age
  <2>4. Knows' /\ TaskJobs'  BY <1>3 DEF Age
  <2> QED  BY <2>1, <2>2, <2>3, <2>4
<1>4. CASE Restart
  <2>1. TypeOK'  BY <1>4, OpsAssumption DEF Restart
  <2>2. Slots'  BY <1>4 DEF Restart
  <2>3. Rows' /\ Creation'  BY <1>4 DEF Restart
  <2>4. Knows' /\ TaskJobs'  BY <1>4 DEF Restart
  <2> QED  BY <2>1, <2>2, <2>3, <2>4
<1>5. CASE j \in Jobs /\ GhostEnds(j)
  <2>1. TypeOK'  BY <1>5 DEF GhostEnds
  <2>2. Slots'  BY <1>5 DEF GhostEnds
  <2>3. Rows' /\ Creation'  BY <1>5 DEF GhostEnds
  <2>4. Knows' /\ TaskJobs'  BY <1>5 DEF GhostEnds
  <2> QED  BY <2>1, <2>2, <2>3, <2>4
<1> QED  BY <1>1, <1>2, <1>3, <1>4, <1>5

(* The adapter of a workflow node: dispatch, forced execution and cancel.  *)
LEMMA NodeSteps ==
    ASSUME IInv, NEW j \in Jobs,
           Dispatch(j) \/ ForceExecution(j) \/ CancelRead(j) \/
           CancelWrite(j)
    PROVE  IInv'
<1>1. CASE Dispatch(j)
  <2>1. TypeOK'  BY <1>1 DEF Dispatch
  <2>2. Slots'  BY <1>1 DEF Dispatch
  <2>3. Rows' /\ Creation'  BY <1>1 DEF Dispatch
  <2>4. Knows' /\ TaskJobs'  BY <1>1 DEF Dispatch
  <2> QED  BY <2>1, <2>2, <2>3, <2>4
<1>2. CASE ForceExecution(j)
  <2>1. TypeOK'
    <3>1. PICK s \in OpsStatuses, place \in Places : Start(j, "force", place, s)
      BY <1>2 DEF ForceExecution, OpsStatuses, Places
    <3>2. coro' \in [Coros -> Coroutine \cup {Idle}]
      BY <3>1, FreshIsIdle DEF Start, Coroutine, TypeOK
    <3>3. status' \in [Jobs -> OpsStatuses] /\ faults' \in 0 .. MaxFaults
      BY <1>2, OpsAssumption DEF ForceExecution, OpsStatuses, TypeOK
    <3> QED
      BY <1>2, <3>2, <3>3 DEF ForceExecution
  <2>2. Slots'  BY <1>2, FreshIsIdle DEF ForceExecution, Start
  <2>3. Rows' /\ Creation'  BY <1>2, FreshIsIdle DEF ForceExecution, Start
  <2>4. Knows' /\ TaskJobs'  BY <1>2, FreshIsIdle DEF ForceExecution, Start
  <2> QED  BY <2>1, <2>2, <2>3, <2>4
<1>3. CASE CancelRead(j)
  <2>1. TypeOK'  BY <1>3 DEF CancelRead
  <2>2. Slots'  BY <1>3 DEF CancelRead
  <2>3. Rows' /\ Creation'  BY <1>3 DEF CancelRead
  <2>4. Knows' /\ TaskJobs'  BY <1>3 DEF CancelRead
  <2> QED  BY <2>1, <2>2, <2>3, <2>4
<1>4. CASE CancelWrite(j)
  <2>1. TypeOK'  BY <1>4 DEF CancelWrite
  <2>2. Slots'  BY <1>4 DEF CancelWrite
  <2>3. Rows' /\ Creation'  BY <1>4 DEF CancelWrite
  <2>4. Knows' /\ TaskJobs'  BY <1>4 DEF CancelWrite
  <2> QED  BY <2>1, <2>2, <2>3, <2>4
<1> QED  BY <1>1, <1>2, <1>3, <1>4

(* terminate_command, from the kill to the task's summary.                 *)
LEMMA TerminateSteps ==
    ASSUME IInv, NEW j,
           \/ TerminateRow \/ TerminateFinalize \/ TerminateWrite
           \/ j \in Jobs /\ Terminate(j)
    PROVE  IInv'
<1>1. CASE j \in Jobs /\ Terminate(j)
  <2>1. TypeOK'
    <3>1. coro' \in [Coros -> Coroutine \cup {Idle}]  BY <1>1, GotoFacts DEF Terminate
    <3>1a. ghost' = ghost \/ ghost' = [ghost EXCEPT ![j] = FALSE]  BY <1>1, Zenon DEF Terminate
    <3>2. ghost' \in [Jobs -> BOOLEAN]
      <4>1. CASE ghost' = ghost  BY <4>1
      <4>2. CASE ghost' = [ghost EXCEPT ![j] = FALSE]  BY <4>2
      <4> QED  BY <3>1a, <4>1, <4>2
    <3> QED  BY <1>1, <3>1, <3>2 DEF Terminate
  <2>2. Slots'  BY <1>1, SMTT(30) DEF Terminate, Goto
  <2>3. Rows' /\ Creation'  BY <1>1 DEF Terminate, Goto
  <2>4. Knows' /\ TaskJobs'  BY <1>1 DEF Terminate, Goto
  <2> QED  BY <2>1, <2>2, <2>3, <2>4
<1>2. CASE TerminateRow
  <2>1. TypeOK'  BY <1>2 DEF TerminateRow
  <2>2. Slots'  BY <1>2 DEF TerminateRow
  <2>3. Rows' /\ Creation'  BY <1>2 DEF TerminateRow
  <2>4. Knows' /\ TaskJobs'  BY <1>2 DEF TerminateRow
  <2> QED  BY <2>1, <2>2, <2>3, <2>4
<1>3. CASE TerminateFinalize
  <2>1. TypeOK'  BY <1>3 DEF TerminateFinalize, Verdict, Batch
  <2>2. Slots'  BY <1>3 DEF TerminateFinalize, Verdict, Batch
  <2>3. Rows' /\ Creation'  BY <1>3 DEF TerminateFinalize, Verdict, Batch
  <2>4. Knows' /\ TaskJobs'  BY <1>3 DEF TerminateFinalize, Verdict, Batch
  <2> QED  BY <2>1, <2>2, <2>3, <2>4
<1>4. CASE TerminateWrite
  <2>1. TypeOK'  BY <1>4 DEF TerminateWrite, Summarised
  <2>2. Slots'  BY <1>4 DEF TerminateWrite, Summarised
  <2>3. Rows' /\ Creation'  BY <1>4 DEF TerminateWrite, Summarised
  <2>4. Knows' /\ TaskJobs'  BY <1>4 DEF TerminateWrite, Summarised
  <2> QED  BY <2>1, <2>2, <2>3, <2>4
<1> QED  BY <1>1, <1>2, <1>3, <1>4

(* The scheduled task and the scheduler worker.                            *)
LEMMA TaskSteps ==
    ASSUME IInv, NEW j,
           \/ ExecuteNow \/ TakePayload \/ MarkTask \/ WorkerDies
           \/ j \in Jobs /\ (CreateJob(j) \/ CreateFails(j))
    PROVE  IInv'
<1>1. CASE ExecuteNow
  <2>1. TypeOK'  BY <1>1 DEF ExecuteNow
  <2>2. Slots'  BY <1>1 DEF ExecuteNow
  <2>3. Rows' /\ Creation'  BY <1>1 DEF ExecuteNow
  <2>4. Knows' /\ TaskJobs'  BY <1>1 DEF ExecuteNow
  <2> QED  BY <2>1, <2>2, <2>3, <2>4
<1>2. CASE TakePayload
  <2>1. TypeOK'  BY <1>2 DEF TakePayload
  <2>2. Slots'  BY <1>2 DEF TakePayload
  <2>3. Rows' /\ Creation'  BY <1>2 DEF TakePayload
  <2>4. Knows' /\ TaskJobs'  BY <1>2 DEF TakePayload
  <2> QED  BY <2>1, <2>2, <2>3, <2>4
<1>3. CASE j \in Jobs /\ CreateJob(j)
  <2>1. TypeOK'  BY <1>3 DEF CreateJob
  <2>2. Slots'  BY <1>3 DEF CreateJob
  <2>3. Rows' /\ Creation'  BY <1>3 DEF CreateJob
  <2>4. Knows' /\ TaskJobs'  BY <1>3 DEF CreateJob
  <2> QED  BY <2>1, <2>2, <2>3, <2>4
<1>4. CASE j \in Jobs /\ CreateFails(j)
  <2>1. TypeOK'  BY <1>4, OpsAssumption DEF CreateFails
  <2>2. Slots'  BY <1>4 DEF CreateFails
  <2>3. Rows' /\ Creation'  BY <1>4 DEF CreateFails
  <2>4. Knows' /\ TaskJobs'  BY <1>4 DEF CreateFails
  <2> QED  BY <2>1, <2>2, <2>3, <2>4
<1>5. CASE MarkTask
  <2>1. TypeOK'  BY <1>5, OpsAssumption DEF MarkTask
  <2>2. Slots'  BY <1>5 DEF MarkTask
  <2>3. Rows' /\ Creation'  BY <1>5 DEF MarkTask
  <2>4. Knows' /\ TaskJobs'  BY <1>5 DEF MarkTask
  <2> QED  BY <2>1, <2>2, <2>3, <2>4
<1>6. CASE WorkerDies
  <2>1. TypeOK'  BY <1>6, OpsAssumption DEF WorkerDies
  <2>2. Slots'  BY <1>6 DEF WorkerDies
  <2>3. Rows' /\ Creation'  BY <1>6 DEF WorkerDies
  <2>4. Knows' /\ TaskJobs'  BY <1>6 DEF WorkerDies
  <2> QED  BY <2>1, <2>2, <2>3, <2>4
<1> QED  BY <1>1, <1>2, <1>3, <1>4, <1>5, <1>6

HIDE DEF At, Alive, Idle, Begun, IInv, TypeOK, Slots, Rows, Creation, Knows, TaskJobs, others,
        Coroutine, Places, OpsStatuses, FinalStatuses

(* Every step preserves the invariant.                                     *)
LEMMA NextIInv == IInv /\ [Next]_vars => IInv'
<1> SUFFICES ASSUME IInv, [Next]_vars PROVE IInv'  OBVIOUS
<1>1. CASE Next
  BY <1>1, CoroutineSteps, PollingSteps, ProcessSteps, NodeSteps, TerminateSteps, TaskSteps
     DEF Next, PollLoop
<1>2. CASE UNCHANGED vars
  BY <1>2 DEF vars, IInv, TypeOK, Slots, Rows, Creation, Knows, TaskJobs, Begun, Alive
<1> QED  BY <1>1, <1>2

(* The inductive invariant holds in every reachable state.                 *)
THEOREM Invariance == Spec => []IInv
BY InitIInv, NextIInv, PTL DEF Spec

(* Every reachable state is well typed, for any jobs and coroutines.       *)
THEOREM TypeCorrect == Spec => []TypeOK
<1>1. IInv => TypeOK  BY DEF IInv
<1> QED  BY <1>1, Invariance, PTL

(* The slot table keeps two coroutines of the websocket process off one    *)
(* job and leaves no slot behind, whoever starts them, in whatever order,  *)
(* across errors and restarts.                                             *)
THEOREM OneCoroutinePerJob == Spec => []SlotOwned
<1>1. IInv => SlotOwned
  BY DEF IInv, Slots, SlotOwned, Workers, Handlers, Alive
<1> QED  BY <1>1, Invariance, PTL

(* A job of a scheduled task that has succeeded is never run again.        *)
THEOREM SuccessIsFinal == Spec => NotAfterSuccess
<1>1. IInv /\ [Next]_vars =>
        [\A c \in Coros : StartsCommand(c) /\ origin = "task"
            => status[coro[c].job] # "success"]_vars
  BY DEF IInv, TaskJobs, StartsCommand, At
<1> QED  BY <1>1, Invariance, PTL DEF Spec, NotAfterSuccess

(* A command of a scheduled task that outlived the websocket process is    *)
(* never started a second time.                                            *)
THEOREM OrphansAreNotRerun == Spec => NoRerun
<1>1. IInv /\ [Next]_vars =>
        [\A c \in Coros : StartsCommand(c) /\ origin = "task"
            => ~ghost[coro[c].job]]_vars
  <2> SUFFICES ASSUME IInv, NEW c \in Coros, StartsCommand(c), origin = "task"
               PROVE  ~ghost[coro[c].job]
    OBVIOUS
  <2>1. c \in Alive /\ coro[c].at = "mark" /\ coro[c].job \in Jobs
    BY DEF StartsCommand, At, IInv, TypeOK, Alive, Coroutine
  <2> QED  BY <2>1 DEF IInv, TaskJobs
<1> QED  BY <1>1, Invariance, PTL DEF Spec, NoRerun

=============================================================================
