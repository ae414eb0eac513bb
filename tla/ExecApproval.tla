---------------------------- MODULE ExecApproval ----------------------------
(***************************************************************************)
(* Approval of an execution: OpsExecutionApprovalViewSet (taurus/views.py),*)
(* the views and the workflow unit that ask for such an approval, the job  *)
(* an approval triggers, and the three places that copy the job's end back *)
(* to the approval.                                                        *)
(*                                                                         *)
(* There is one approval here.  A request reads its row without a lock and *)
(* saves the fields it has changed (update_fields): two requests may both  *)
(* read it pending.  The jobs are those of OpsExecution, reduced to what   *)
(* an approval sees of them.                                               *)
(***************************************************************************)
EXTENDS Naturals, FiniteSets

CONSTANTS
    Users,
    Admins,         \* the superusers among them
    Orders,         \* what approval is asked for, one per behaviour
    Inviting,       \* the orders whose candidates invite others (bound)
    Requests,       \* requests served at once (bound)
    MaxJobs,        \* jobs the approval may trigger (bound)
    MaxFaults       \* requests and processes that die, saves that fail (bound)

(* Who asks: "row", execute_command and execute_script, which create an    *)
(* OpsExecution that says Approving; "bare", submit_script_approval; or    *)
(* "node", the approval unit of a workflow (an inform node and a view that *)
(* names nobody have no candidates).                                       *)
Order ==
    [type : {"command", "script"}, source : {"row", "bare", "node"},
     mode : {"any", "all"}, candidates : SUBSET Users, submitter : Users]

ASSUME ExecAssumption ==
    /\ Admins \subseteq Users
    /\ Orders \subseteq Order
    /\ Inviting \subseteq Orders
    /\ MaxJobs \in Nat
    /\ MaxFaults \in Nat

Jobs == 1 .. MaxJobs

VARIABLES
    order,          \* what was asked for
    appr,           \* the approval; link: the job it names, 0 before the trigger
    approving,      \* the OpsExecution of source "row"
    jobs,           \* the jobs triggered
    req,            \* the requests at work
    listing,        \* what a listing's fallback sync is about to write
    node,           \* what the workflow unit has answered
    faults,
    said            \* history: who has approved

vars == <<order, appr, approving, jobs, req, listing, node, faults, said>>

(* "approved" is set in memory only: the trigger makes it executing or     *)
(* failed before anything is saved.                                        *)
Statuses == {"none", "pending", "rejected", "cancelled", "executing", "done", "failed"}
Approval == [status : Statuses, candidates : SUBSET Users, approvals : SUBSET Users,
             link : 0 .. MaxJobs]
NoApproval == [status |-> "none", candidates |-> {}, approvals |-> {}, link |-> 0]
NewApproval ==
    [status |-> "pending", candidates |-> order.candidates, approvals |-> {}, link |-> 0]

(* alive: a coroutine works on the job; syncs: the times it has yet to     *)
(* tell the approval of its end.                                           *)
Job == [status : {"none", "pending", "running", "success", "failed", "interrupted"},
        alive : BOOLEAN, syncs : 0 .. 2]
NoJob == [status |-> "none", alive |-> FALSE, syncs |-> 0]

Places == {"idle", "create", "vote", "trigger", "link", "final", "fail",
           "reject", "row", "invite", "cancel"}
Request == [at : Places, candidates : SUBSET Users, approvals : SUBSET Users,
            job : 0 .. MaxJobs]
Doing(p, cs, votes, j) == [at |-> p, candidates |-> cs, approvals |-> votes, job |-> j]
Idle == Doing("idle", {}, {}, 0)

TypeOK ==
    /\ order \in Orders
    /\ appr \in Approval
    /\ approving \in {"none", "approving", "rejected"}
    /\ jobs \in [Jobs -> Job]
    /\ req \in [Requests -> Request]
    /\ listing \in {"none", "done", "failed"}
    /\ node \in {"none", "running", "withdrawing", "success", "failed", "cancelled"}
    /\ faults \in 0 .. MaxFaults
    /\ said \subseteq Users

Init ==
    /\ order \in Orders
    /\ appr = NoApproval
    /\ approving = "none"
    /\ jobs = [j \in Jobs |-> NoJob]
    /\ req = [r \in Requests |-> Idle]
    /\ listing = "none"
    /\ node = "none"
    /\ faults = 0
    /\ said = {}

Free(r) == req[r].at = "idle"
Goto(r, q) == req' = [req EXCEPT ![r] = q]

-----------------------------------------------------------------------------
(* Asking for an approval.                                                 *)

(* The row that says Approving, then the approval that names it.           *)
CreateRow(r) ==
    /\ order.source = "row" /\ approving = "none" /\ Free(r)
    /\ approving' = "approving"
    /\ Goto(r, Doing("create", {}, {}, 0))
    /\ UNCHANGED <<order, appr, jobs, listing, node, faults, said>>

CreateApproval(r) ==
    /\ appr.status = "none"
    /\ req[r].at = "create" \/ (order.source = "bare" /\ Free(r))
    /\ appr' = NewApproval
    /\ Goto(r, Idle)
    /\ UNCHANGED <<order, approving, jobs, listing, node, faults, said>>

(* dispatch of the unit, in the transaction of the runner's tick.          *)
DispatchNode ==
    /\ order.source = "node" /\ appr.status = "none"
    /\ appr' = NewApproval
    /\ node' = "running"
    /\ UNCHANGED <<order, approving, jobs, req, listing, faults, said>>

-----------------------------------------------------------------------------
(* The approvers.                                                          *)

(* A slip: whoever has approved, the mode does not matter.                 *)
IsApprovedByMode_Any(candidates, approvals) == approvals \cap candidates # {}

IsApprovedByMode(candidates, approvals) ==
    IF order.mode = "all" THEN candidates # {} /\ candidates \subseteq approvals
                          ELSE approvals \cap candidates # {}

(* A request of candidate u has found the approval pending.                *)
Finds(r, u) == Free(r) /\ appr.status = "pending" /\ u \in appr.candidates

(* The vote is added to the records that were read.  Where it decides, the *)
(* execution is triggered before any of it is saved.                       *)
Approve(r, u) ==
    LET votes == appr.approvals \cup {u}
    IN  /\ Finds(r, u) /\ u \notin appr.approvals
        /\ said' = said \cup {u}
        /\ Goto(r, Doing(IF IsApprovedByMode(appr.candidates, votes) THEN "trigger" ELSE "vote",
                         {}, votes, 0))
        /\ UNCHANGED <<order, appr, approving, jobs, listing, node, faults>>

(* A slip: save() instead of save(update_fields).                          *)
SaveVote_All(r) ==
    /\ req[r].at = "vote"
    /\ appr' = [appr EXCEPT !.approvals = req[r].approvals, !.status = "pending"]
    /\ Goto(r, Idle)
    /\ UNCHANGED <<order, approving, jobs, listing, node, faults, said>>

SaveVote(r) ==
    /\ req[r].at = "vote"
    /\ appr' = [appr EXCEPT !.approvals = req[r].approvals]
    /\ Goto(r, Idle)
    /\ UNCHANGED <<order, approving, jobs, listing, node, faults, said>>

(* One candidate is enough to reject.                                      *)
Reject(r, u) ==
    /\ Finds(r, u)
    /\ Goto(r, Doing("reject", {}, appr.approvals, 0))
    /\ UNCHANGED <<order, appr, approving, jobs, listing, node, faults, said>>

SaveReject(r) ==
    /\ req[r].at = "reject"
    /\ appr' = [appr EXCEPT !.approvals = req[r].approvals, !.status = "rejected"]
    /\ Goto(r, IF order.source = "row" THEN Doing("row", {}, {}, 0) ELSE Idle)
    /\ UNCHANGED <<order, approving, jobs, listing, node, faults, said>>

RejectRow(r) ==
    /\ req[r].at = "row"
    /\ approving' = "rejected"
    /\ Goto(r, Idle)
    /\ UNCHANGED <<order, appr, jobs, listing, node, faults, said>>

(* delegate (one user) and add_sign (some): who invites remains.           *)
Invite(r, u, vs) ==
    /\ Finds(r, u) /\ order \in Inviting
    /\ Goto(r, Doing("invite", appr.candidates \cup vs, appr.approvals, 0))
    /\ UNCHANGED <<order, appr, approving, jobs, listing, node, faults, said>>

SaveInvite(r) ==
    /\ req[r].at = "invite"
    /\ appr' = [appr EXCEPT !.approvals = req[r].approvals,
                            !.candidates = req[r].candidates]
    /\ Goto(r, Idle)
    /\ UNCHANGED <<order, approving, jobs, listing, node, faults, said>>

(* The submitter, or a superuser who can see the approval.                 *)
Cancel(r, u) ==
    /\ Free(r) /\ appr.status = "pending"
    /\ u = order.submitter \/ u \in Admins \cap appr.candidates
    /\ Goto(r, Doing("cancel", {}, {}, 0))
    /\ UNCHANGED <<order, appr, approving, jobs, listing, node, faults, said>>

SaveCancel(r) ==
    /\ req[r].at = "cancel"
    /\ appr' = [appr EXCEPT !.status = "cancelled"]
    /\ Goto(r, Idle)
    /\ UNCHANGED <<order, approving, jobs, listing, node, faults, said>>

-----------------------------------------------------------------------------
(* _trigger_approval_execution.                                            *)

(* The quota is full or the host is offline.                               *)
TriggerRaises(r) ==
    /\ req[r].at = "trigger"
    /\ Goto(r, Doing("fail", {}, req[r].approvals, 0))
    /\ UNCHANGED <<order, appr, approving, jobs, listing, node, faults, said>>

(* A new job; the Approving row is not the one that runs.                  *)
Trigger(r) ==
    LET new == CHOOSE j \in Jobs : jobs[j] = NoJob
    IN  /\ req[r].at = "trigger"
        /\ \E j \in Jobs : jobs[j] = NoJob
        /\ jobs' = [jobs EXCEPT ![new].status = "pending"]
        /\ Goto(r, Doing("link", {}, req[r].approvals, new))
        /\ UNCHANGED <<order, appr, approving, listing, node, faults, said>>

SaveLink(r) ==
    /\ req[r].at = "link"
    /\ appr' = [appr EXCEPT !.link = req[r].job, !.status = "executing"]
    /\ Goto(r, Doing("final", {}, req[r].approvals, 0))
    /\ UNCHANGED <<order, approving, jobs, listing, node, faults, said>>

(* That save fails: the job exists, and the approval fails.                *)
LinkFails(r) ==
    /\ req[r].at = "link" /\ faults < MaxFaults
    /\ faults' = faults + 1
    /\ Goto(r, Doing("fail", {}, req[r].approvals, 0))
    /\ UNCHANGED <<order, appr, approving, jobs, listing, node, said>>

(* The save at the end of approve: the records, and the status once more.  *)
SaveApproved(r) ==
    /\ req[r].at \in {"final", "fail"}
    /\ appr' = [appr EXCEPT !.approvals = req[r].approvals,
                            !.status = IF req[r].at = "final" THEN "executing" ELSE "failed"]
    /\ Goto(r, Idle)
    /\ UNCHANGED <<order, approving, jobs, listing, node, faults, said>>

Die(r) ==
    /\ ~Free(r) /\ faults < MaxFaults
    /\ faults' = faults + 1
    /\ Goto(r, Idle)
    /\ UNCHANGED <<order, appr, approving, jobs, listing, node, said>>

-----------------------------------------------------------------------------
(* The jobs and their end.                                                 *)

JobStarts(j) ==
    /\ jobs[j].status = "pending"
    /\ jobs' = [jobs EXCEPT ![j].status = "running", ![j].alive = TRUE]
    /\ UNCHANGED <<order, appr, approving, req, listing, node, faults, said>>

(* update_execution_success saves the row.  The post_save receiver and     *)
(* _sync_approval_status follow, both for scripts only.                    *)
JobSaves(j, s) ==
    /\ jobs[j].alive
    /\ jobs[j].status = "failed" => s = "failed"
    /\ jobs' = [jobs EXCEPT ![j] =
                   [status |-> s, alive |-> FALSE,
                    syncs |-> IF order.type = "script" THEN 2 ELSE 0]]
    /\ UNCHANGED <<order, appr, approving, req, listing, node, faults, said>>

(* A slip: the job's own word is copied.                                   *)
Outcome_Copied(s) == s

(* A slip: an end is taken for a success.                                  *)
Outcome_Done(s) == "done"

Outcome(s) == IF s = "success" THEN "done" ELSE "failed"

Synced(j) == appr.status = "executing" /\ appr.link = j

SyncApproval(j) ==
    /\ jobs[j].syncs > 0
    /\ jobs' = [jobs EXCEPT ![j].syncs = @ - 1]
    /\ appr' = IF Synced(j) THEN [appr EXCEPT !.status = Outcome(jobs[j].status)] ELSE appr
    /\ UNCHANGED <<order, approving, req, listing, node, faults, said>>

(* terminate_command marks the row failed with update(), which signals     *)
(* nobody; a coroutine at work on it then saves a failure too.             *)
Terminate(j) ==
    /\ jobs[j].status = "running"
    /\ jobs' = [jobs EXCEPT ![j].status = "failed"]
    /\ UNCHANGED <<order, appr, approving, req, listing, node, faults, said>>

WebsocketDies ==
    /\ faults < MaxFaults
    /\ faults' = faults + 1
    /\ jobs' = [j \in Jobs |-> [status |-> jobs[j].status, alive |-> FALSE, syncs |-> 0]]
    /\ UNCHANGED <<order, appr, approving, req, listing, node, said>>

(* The orphan of a dead process is marked interrupted.                     *)
JobIsOrphan(j) ==
    /\ jobs[j].status = "running" /\ ~jobs[j].alive
    /\ jobs' = [jobs EXCEPT ![j].status = "interrupted"]
    /\ UNCHANGED <<order, appr, approving, req, listing, node, faults, said>>

(* A slip: it looks for jobs that succeeded.                               *)
AutoSyncRead_Success ==
    /\ listing = "none"
    /\ appr.status = "executing" /\ appr.link # 0
    /\ jobs[appr.link].status = "success"
    /\ listing' = "done"
    /\ UNCHANGED <<order, appr, approving, jobs, req, node, faults, said>>

(* _auto_sync_stale_approvals, run by every listing of approvals: the      *)
(* approval and its job are read, and the approval is then updated by key. *)
AutoSyncRead ==
    /\ listing = "none"
    /\ appr.status = "executing" /\ appr.link # 0
    /\ jobs[appr.link].status \in {"success", "failed"}
    /\ listing' = Outcome(jobs[appr.link].status)
    /\ UNCHANGED <<order, appr, approving, jobs, req, node, faults, said>>

AutoSyncWrite ==
    /\ listing # "none"
    /\ appr' = [appr EXCEPT !.status = listing]
    /\ listing' = "none"
    /\ UNCHANGED <<order, approving, jobs, req, node, faults, said>>

-----------------------------------------------------------------------------
(* The approval unit of a workflow.                                        *)

(* The answer of poll: an approval that has come as far as executing has   *)
(* passed.                                                                 *)
Answer(s) ==
    CASE s \in {"executing", "done"} -> "success"
      [] s \in {"rejected", "failed"} -> "failed"
      [] s = "cancelled" -> "cancelled"
      [] OTHER -> "running"

Poll ==
    /\ node = "running"
    /\ node' = Answer(appr.status)
    /\ UNCHANGED <<order, appr, approving, jobs, req, listing, faults, said>>

(* cancel of the unit, by the node's timeout, a fail_fast or a cancel of   *)
(* the workflow: what is not terminal is withdrawn, executing too.  The    *)
(* runner then ends the row, whatever the unit returns.                    *)
UnitCancel ==
    /\ node = "running"
    /\ node' = IF appr.status \in {"rejected", "cancelled", "done"}
               THEN "cancelled" ELSE "withdrawing"
    /\ UNCHANGED <<order, appr, approving, jobs, req, listing, faults, said>>

UnitCancelSave ==
    /\ node = "withdrawing"
    /\ appr' = [appr EXCEPT !.status = "cancelled"]
    /\ node' = "cancelled"
    /\ UNCHANGED <<order, approving, jobs, req, listing, faults, said>>

-----------------------------------------------------------------------------

Ask(r) ==
    \/ CreateRow(r)
    \/ \E u \in Users :
          \/ Approve(r, u) \/ Reject(r, u) \/ Cancel(r, u)
          \/ \E vs \in SUBSET Users \ {{}} : Invite(r, u, vs)

Serve(r) ==
    \/ CreateApproval(r)
    \/ SaveVote(r) \/ SaveReject(r) \/ RejectRow(r) \/ SaveInvite(r) \/ SaveCancel(r)
    \/ TriggerRaises(r) \/ Trigger(r) \/ SaveLink(r) \/ SaveApproved(r)

Run(j) ==
    \/ JobStarts(j) \/ JobIsOrphan(j) \/ SyncApproval(j)
    \/ \E s \in {"success", "failed"} : JobSaves(j, s)

Unit == DispatchNode \/ Poll \/ UnitCancel \/ UnitCancelSave

Next ==
    \/ \E r \in Requests : Ask(r) \/ Serve(r) \/ LinkFails(r) \/ Die(r)
    \/ \E j \in Jobs : Run(j) \/ Terminate(j)
    \/ AutoSyncRead \/ AutoSyncWrite \/ WebsocketDies \/ Unit

Spec == Init /\ [][Next]_vars

(* A request that is being served and a job at work go on, and somebody    *)
(* lists the approvals from time to time.                                  *)
Fairness ==
    /\ \A r \in Requests : WF_vars(Serve(r))
    /\ \A j \in Jobs : WF_vars(Run(j))
    /\ WF_vars(AutoSyncRead) /\ WF_vars(AutoSyncWrite)

FairSpec == Spec /\ Fairness

-----------------------------------------------------------------------------

(* Whoever had to approve has: each of the approvers the order named where *)
(* all must sign, else somebody.                                           *)
Mandated ==
    IF order.mode = "all" THEN order.candidates \subseteq said /\ said # {}
                          ELSE said # {}

(* Nothing runs, no approval counts as passed and no workflow node passes  *)
(* without its mandate, whatever requests read of each other's rows.       *)
Mandate ==
    /\ \A j \in Jobs : jobs[j].status # "none" => Mandated
    /\ appr.status \in {"executing", "done", "failed"} => Mandated
    /\ node = "success" => Mandated

(* An approval that is done has a job that succeeded: no sync of another   *)
(* job, and no listing that has read an older link, invents a success.     *)
DoneIsTrue ==
    appr.status = "done" => \E j \in Jobs : jobs[j].status = "success"

(* An approval that was once processed is never pending again: a request   *)
(* that read it before leaves the status alone or decides it anew.         *)
NeverReopened ==
    [][appr.status \notin {"none", "pending"} => appr'.status # "pending"]_vars

(* An approval does not stay executing: it ends with its job, for good,    *)
(* unless the job is one that was interrupted, which no sync looks for.    *)
Settles ==
    appr.status = "executing" ~>
        [](appr.status = "executing" =>
              appr.link # 0 /\ jobs[appr.link].status = "interrupted")

(* _trigger_approval_execution: one approval, one execution.               *)
RunsOnce ==
    Cardinality({j \in Jobs : jobs[j].status # "none"}) <= 1

=============================================================================
