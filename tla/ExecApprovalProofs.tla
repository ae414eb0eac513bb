------------------------- MODULE ExecApprovalProofs -------------------------
(***************************************************************************)
(* Safety of the approval of an execution, for any users, orders, number   *)
(* of requests, jobs and faults.                                           *)
(*                                                                         *)
(* No request locks the approval, so what is read may be old when it is    *)
(* written.  What makes the mandate safe is that the two sets a request    *)
(* copies can only err on one side: the votes are never more than those    *)
(* cast, and the candidates never fewer than those the order named.        *)
(***************************************************************************)
EXTENDS ExecApproval, TLAPS

(* The votes of the row, and of every copy in flight, were cast.           *)
Votes ==
    /\ appr.approvals \subseteq said
    /\ \A r \in Requests : req[r].approvals \subseteq said

(* The candidates of the row, and of every copy in flight, include those   *)
(* the order named.                                                        *)
Named ==
    /\ appr.status # "none" => order.candidates \subseteq appr.candidates
    /\ \A r \in Requests : req[r].at = "invite" =>
          order.candidates \subseteq req[r].candidates

(* A request that triggers, and a listing that has found an execution to   *)
(* end, rest on a mandate.                                                 *)
Decided ==
    /\ \A r \in Requests : req[r].at \in {"trigger", "link", "final", "fail"} => Mandated
    /\ listing # "none" => Mandated

(* Nobody has read the approval or a job before its creation.              *)
Created ==
    /\ \A r \in Requests : req[r].at \notin {"idle", "create"} => appr.status # "none"
    /\ appr.status = "none" => node = "none" /\ listing = "none"
    /\ \A j \in Jobs : jobs[j].alive => jobs[j].status \in {"running", "failed"}

(* A listing that is about to write done has seen a success.               *)
Seen == listing = "done" => \E j \in Jobs : jobs[j].status = "success"

IInv == TypeOK /\ Votes /\ Named /\ Created /\ Decided /\ Mandate /\ DoneIsTrue /\ Seen

-----------------------------------------------------------------------------

(* A request that moves has its new record; the others stay where they are. *)
LEMMA Moves ==
    ASSUME TypeOK, NEW r \in Requests, NEW p \in Places, NEW cs \in SUBSET Users,
           NEW votes \in SUBSET Users, NEW k \in 0 .. MaxJobs,
           Goto(r, Doing(p, cs, votes, k))
    PROVE  /\ req' \in [Requests -> Request]
           /\ req'[r].at = p /\ req'[r].candidates = cs /\ req'[r].approvals = votes
           /\ \A s \in Requests : s # r => req'[s] = req[s]
<1>1. Doing(p, cs, votes, k) \in Request  BY DEF Doing, Request
<1>2. req' = [req EXCEPT ![r] = Doing(p, cs, votes, k)]  BY DEF Goto
<1>3. req \in [Requests -> Request]  BY DEF TypeOK
<1> HIDE DEF Doing
<1>4. req'[r] = Doing(p, cs, votes, k)  BY <1>2, <1>3
<1> QED  BY <1>1, <1>2, <1>3, <1>4 DEF Doing

LEMMA MovesToIdle ==
    ASSUME TypeOK, NEW r \in Requests, Goto(r, Idle)
    PROVE  /\ req' \in [Requests -> Request]
           /\ req'[r].at = "idle" /\ req'[r].candidates = {} /\ req'[r].approvals = {}
           /\ \A s \in Requests : s # r => req'[s] = req[s]
<1>1. 0 \in 0 .. MaxJobs  BY ExecAssumption
<1>2. "idle" \in Places  BY DEF Places
<1> QED  BY <1>1, <1>2, Moves DEF Idle

(* More votes only strengthen a mandate.                                   *)
LEMMA MandateStays ==
    ASSUME Mandated, order' = order, said \subseteq said'
    PROVE  Mandated'
BY DEF Mandated

(* The trigger takes a job that does not exist yet.                        *)
LEMMA NewJob ==
    ASSUME TypeOK, NEW r \in Requests, Trigger(r)
    PROVE  \E n \in Jobs :
              /\ jobs[n].status = "none" /\ ~jobs[n].alive
              /\ jobs' = [jobs EXCEPT ![n].status = "pending"]
              /\ Goto(r, Doing("link", {}, req[r].approvals, n))
<1> DEFINE new == CHOOSE j \in Jobs : jobs[j] = NoJob
<1>1. new \in Jobs /\ jobs[new] = NoJob  BY DEF Trigger
<1>2. /\ jobs' = [jobs EXCEPT ![new].status = "pending"]
      /\ Goto(r, Doing("link", {}, req[r].approvals, new))
    BY DEF Trigger
<1> HIDE DEF new
<1>3. jobs[new].status = "none" /\ ~jobs[new].alive  BY <1>1 DEF NoJob
<1> QED  BY <1>1, <1>2, <1>3, Zenon

-----------------------------------------------------------------------------

LEMMA TypeInit == Init => TypeOK
<1> SUFFICES ASSUME Init PROVE TypeOK  OBVIOUS
<1>1. appr \in Approval  BY ExecAssumption DEF Init, NoApproval, Approval, Statuses
<1>2. jobs \in [Jobs -> Job]  BY DEF Init, NoJob, Job
<1>3. Idle \in Request  BY ExecAssumption DEF Idle, Doing, Request, Places
<1>4. req \in [Requests -> Request]  BY <1>3 DEF Init
<1> QED  BY <1>1, <1>2, <1>4, ExecAssumption DEF Init, TypeOK

(* Type correctness: every step keeps the type invariant.                  *)
LEMMA TypeNext == TypeOK /\ [Next]_vars => TypeOK'
<1> SUFFICES ASSUME TypeOK, [Next]_vars PROVE TypeOK'  OBVIOUS
<1> USE ExecAssumption
<1>a. /\ appr \in Approval /\ jobs \in [Jobs -> Job]
      /\ appr.approvals \subseteq Users /\ appr.candidates \subseteq Users
    BY DEF TypeOK, Approval
<1>b. ASSUME NEW r \in Requests
      PROVE  req[r].approvals \subseteq Users /\ req[r].candidates \subseteq Users
    BY DEF TypeOK, Request
<1>c. 0 \in 0 .. MaxJobs /\ Jobs \subseteq 0 .. MaxJobs  BY DEF Jobs
<1>1. ASSUME NEW r \in Requests, CreateRow(r) PROVE TypeOK'
  <2>1. req' \in [Requests -> Request]  BY <1>1, <1>a, <1>b, <1>c, Moves DEF CreateRow, Places
  <2> QED  BY <1>1, <2>1 DEF CreateRow, TypeOK
<1>2. ASSUME NEW r \in Requests, CreateApproval(r) PROVE TypeOK'
  <2>1. req' \in [Requests -> Request]  BY <1>2, MovesToIdle DEF CreateApproval
  <2>2. appr' \in Approval
    BY <1>a, <1>b, <1>2 DEF CreateApproval, Approval, Statuses, NewApproval, Order, TypeOK
  <2> QED  BY <1>2, <2>1, <2>2 DEF CreateApproval, TypeOK
<1>3. ASSUME NEW r \in Requests, NEW u \in Users, Approve(r, u) PROVE TypeOK'
  <2>1. req' \in [Requests -> Request]  BY <1>3, <1>a, <1>b, <1>c, Moves DEF Approve, Places
  <2> QED  BY <1>3, <2>1 DEF Approve, TypeOK
<1>4. ASSUME NEW r \in Requests, NEW u \in Users, Reject(r, u) PROVE TypeOK'
  <2>1. req' \in [Requests -> Request]  BY <1>4, <1>a, <1>b, <1>c, Moves DEF Reject, Places
  <2> QED  BY <1>4, <2>1 DEF Reject, TypeOK
<1>5. ASSUME NEW r \in Requests, NEW u \in Users, Cancel(r, u) PROVE TypeOK'
  <2>1. req' \in [Requests -> Request]  BY <1>5, <1>a, <1>b, <1>c, Moves DEF Cancel, Places
  <2> QED  BY <1>5, <2>1 DEF Cancel, TypeOK
<1>6. ASSUME NEW r \in Requests, NEW u \in Users, NEW vs \in SUBSET Users, Invite(r, u, vs) PROVE TypeOK'
  <2>1. req' \in [Requests -> Request]  BY <1>6, <1>a, <1>b, <1>c, Moves DEF Invite, Places
  <2> QED  BY <1>6, <2>1 DEF Invite, TypeOK
<1>7. ASSUME NEW r \in Requests, SaveVote(r) PROVE TypeOK'
  <2>1. req' \in [Requests -> Request]  BY <1>7, MovesToIdle DEF SaveVote
  <2>2. appr' \in Approval
    BY <1>a, <1>b, <1>7 DEF SaveVote, Approval, Statuses, TypeOK
  <2> QED  BY <1>7, <2>1, <2>2 DEF SaveVote, TypeOK
<1>8. ASSUME NEW r \in Requests, SaveReject(r) PROVE TypeOK'
  <2>1. req' \in [Requests -> Request]  BY <1>8, <1>c, Moves, MovesToIdle DEF SaveReject, Places
  <2>2. appr' \in Approval
    BY <1>a, <1>b, <1>8 DEF SaveReject, Approval, Statuses, TypeOK
  <2> QED  BY <1>8, <2>1, <2>2 DEF SaveReject, TypeOK
<1>9. ASSUME NEW r \in Requests, RejectRow(r) PROVE TypeOK'
  <2>1. req' \in [Requests -> Request]  BY <1>9, MovesToIdle DEF RejectRow
  <2> QED  BY <1>9, <2>1 DEF RejectRow, TypeOK
<1>10. ASSUME NEW r \in Requests, SaveInvite(r) PROVE TypeOK'
  <2>1. req' \in [Requests -> Request]  BY <1>10, MovesToIdle DEF SaveInvite
  <2>2. appr' \in Approval
    BY <1>a, <1>b, <1>10 DEF SaveInvite, Approval, Statuses, TypeOK
  <2> QED  BY <1>10, <2>1, <2>2 DEF SaveInvite, TypeOK
<1>11. ASSUME NEW r \in Requests, SaveCancel(r) PROVE TypeOK'
  <2>1. req' \in [Requests -> Request]  BY <1>11, MovesToIdle DEF SaveCancel
  <2>2. appr' \in Approval
    BY <1>a, <1>b, <1>11 DEF SaveCancel, Approval, Statuses, TypeOK
  <2> QED  BY <1>11, <2>1, <2>2 DEF SaveCancel, TypeOK
<1>12. ASSUME NEW r \in Requests, TriggerRaises(r) PROVE TypeOK'
  <2>1. req' \in [Requests -> Request]  BY <1>12, <1>a, <1>b, <1>c, Moves DEF TriggerRaises, Places
  <2> QED  BY <1>12, <2>1 DEF TriggerRaises, TypeOK
<1>13. ASSUME NEW r \in Requests, Trigger(r) PROVE TypeOK'
  <2>1. PICK n \in Jobs :
           /\ jobs' = [jobs EXCEPT ![n].status = "pending"]
           /\ Goto(r, Doing("link", {}, req[r].approvals, n))
    BY <1>13, NewJob
  <2>2. req' \in [Requests -> Request]  BY <2>1, <1>b, <1>c, Moves DEF Places
  <2>3. jobs' \in [Jobs -> Job]  BY <2>1, <1>a DEF Job
  <2> QED  BY <1>13, <2>2, <2>3 DEF Trigger, TypeOK
<1>14. ASSUME NEW r \in Requests, SaveLink(r) PROVE TypeOK'
  <2>1. req' \in [Requests -> Request]  BY <1>14, <1>a, <1>b, <1>c, Moves DEF SaveLink, Places
  <2>2. appr' \in Approval
    BY <1>a, <1>b, <1>14 DEF SaveLink, Approval, Statuses, TypeOK, Request
  <2> QED  BY <1>14, <2>1, <2>2 DEF SaveLink, TypeOK
<1>15. ASSUME NEW r \in Requests, LinkFails(r) PROVE TypeOK'
  <2>1. req' \in [Requests -> Request]  BY <1>15, <1>a, <1>b, <1>c, Moves DEF LinkFails, Places
  <2> QED  BY <1>15, <2>1 DEF LinkFails, TypeOK
<1>16. ASSUME NEW r \in Requests, SaveApproved(r) PROVE TypeOK'
  <2>1. req' \in [Requests -> Request]  BY <1>16, MovesToIdle DEF SaveApproved
  <2>2. appr' \in Approval
    BY <1>a, <1>b, <1>16 DEF SaveApproved, Approval, Statuses, TypeOK
  <2> QED  BY <1>16, <2>1, <2>2 DEF SaveApproved, TypeOK
<1>17. ASSUME NEW r \in Requests, Die(r) PROVE TypeOK'
  <2>1. req' \in [Requests -> Request]  BY <1>17, MovesToIdle DEF Die
  <2> QED  BY <1>17, <2>1 DEF Die, TypeOK
<1>18. ASSUME NEW j \in Jobs, JobStarts(j) PROVE TypeOK'
  <2>1. jobs' \in [Jobs -> Job]  BY <1>a, <1>18 DEF JobStarts, Job
  <2> QED  BY <1>18, <2>1 DEF JobStarts, TypeOK
<1>19. ASSUME NEW j \in Jobs, JobIsOrphan(j) PROVE TypeOK'
  <2>1. jobs' \in [Jobs -> Job]  BY <1>a, <1>19 DEF JobIsOrphan, Job
  <2> QED  BY <1>19, <2>1 DEF JobIsOrphan, TypeOK
<1>20. ASSUME NEW j \in Jobs, SyncApproval(j) PROVE TypeOK'
  <2>1. appr' \in Approval
    BY <1>a, <1>20 DEF SyncApproval, Approval, Statuses, Outcome, TypeOK
  <2>2. jobs' \in [Jobs -> Job]  BY <1>a, <1>20 DEF SyncApproval, Job
  <2> QED  BY <1>20, <2>1, <2>2 DEF SyncApproval, TypeOK
<1>21. ASSUME NEW j \in Jobs, Terminate(j) PROVE TypeOK'
  <2>1. jobs' \in [Jobs -> Job]  BY <1>a, <1>21 DEF Terminate, Job
  <2> QED  BY <1>21, <2>1 DEF Terminate, TypeOK
<1>22. ASSUME NEW j \in Jobs, NEW s \in {"success", "failed"}, JobSaves(j, s) PROVE TypeOK'
  <2>1. jobs' \in [Jobs -> Job]  BY <1>a, <1>22 DEF JobSaves, Job
  <2> QED  BY <1>22, <2>1 DEF JobSaves, TypeOK
<1>23. ASSUME AutoSyncRead PROVE TypeOK'
    BY <1>23 DEF AutoSyncRead, TypeOK, Outcome
<1>24. ASSUME AutoSyncWrite PROVE TypeOK'
  <2>1. appr' \in Approval
    BY <1>a, <1>24 DEF AutoSyncWrite, Approval, Statuses, TypeOK
  <2> QED  BY <1>24, <2>1 DEF AutoSyncWrite, TypeOK
<1>25. ASSUME WebsocketDies PROVE TypeOK'
  <2>1. ASSUME NEW j \in Jobs
        PROVE  [status |-> jobs[j].status, alive |-> FALSE, syncs |-> 0] \in Job
    BY <1>a DEF Job
  <2>2. jobs' \in [Jobs -> Job]  BY <1>25, <2>1 DEF WebsocketDies
  <2> QED  BY <1>25, <2>2 DEF WebsocketDies, TypeOK
<1>26. ASSUME DispatchNode PROVE TypeOK'
  <2>1. appr' \in Approval
    BY <1>a, <1>26 DEF DispatchNode, Approval, Statuses, NewApproval, Order, TypeOK
  <2> QED  BY <1>26, <2>1 DEF DispatchNode, TypeOK
<1>27. ASSUME Poll PROVE TypeOK'
    BY <1>27 DEF Poll, TypeOK, Answer
<1>28. ASSUME UnitCancel PROVE TypeOK'
    BY <1>28 DEF UnitCancel, TypeOK
<1>29. ASSUME UnitCancelSave PROVE TypeOK'
  <2>1. appr' \in Approval
    BY <1>a, <1>29 DEF UnitCancelSave, Approval, Statuses, TypeOK
  <2> QED  BY <1>29, <2>1 DEF UnitCancelSave, TypeOK
<1>30. CASE UNCHANGED vars  BY <1>30 DEF TypeOK, vars
<1> QED
    BY <1>1, <1>2, <1>3, <1>4, <1>5, <1>6, <1>7, <1>8, <1>9, <1>10, <1>11, <1>12, <1>13, <1>14, <1>15, <1>16, <1>17, <1>18, <1>19, <1>20, <1>21, <1>22, <1>23, <1>24, <1>25, <1>26, <1>27, <1>28, <1>29, <1>30
    DEF Next, Ask, Serve, Run, Unit

-----------------------------------------------------------------------------

Grounds == Votes /\ Named /\ Created /\ Decided /\ Mandate

(* The mandate: no step, however old what it read, grants what was not     *)
(* asked and given.                                                        *)
LEMMA GroundsNext == TypeOK /\ Grounds /\ [Next]_vars => Grounds'
<1> SUFFICES ASSUME TypeOK, Grounds, [Next]_vars PROVE Grounds'  OBVIOUS
<1> USE ExecAssumption
<1> USE DEF Grounds, Votes, Named, Created, Decided, Mandate
<1>a. /\ appr.approvals \subseteq Users /\ appr.candidates \subseteq Users
      /\ jobs \in [Jobs -> Job] /\ appr \in Approval
    BY DEF TypeOK, Approval
<1>b. ASSUME NEW r \in Requests
      PROVE  req[r].approvals \subseteq Users /\ req[r].candidates \subseteq Users
    BY DEF TypeOK, Request
<1>c. 0 \in 0 .. MaxJobs /\ Jobs \subseteq 0 .. MaxJobs  BY DEF Jobs
<1>d. order' = order /\ said \subseteq said' /\ Mandated => Mandated'  BY MandateStays
<1>1. ASSUME NEW r \in Requests, CreateRow(r) PROVE Grounds'
    BY <1>1, <1>a, <1>d, <1>b, <1>c, Moves DEF CreateRow, Places
<1>2. ASSUME NEW r \in Requests, CreateApproval(r) PROVE Grounds'
    BY <1>2, <1>a, <1>d, <1>b, MovesToIdle DEF CreateApproval, NewApproval, Order
<1>3. ASSUME NEW r \in Requests, NEW u \in Users, Approve(r, u) PROVE Grounds'
  <2> DEFINE votes == appr.approvals \cup {u}
             p == IF IsApprovedByMode(appr.candidates, votes) THEN "trigger" ELSE "vote"
  <2>1. /\ votes \subseteq said' /\ said \subseteq said' /\ order' = order
        /\ order.candidates \subseteq appr.candidates
        /\ appr.status = "pending"
        /\ UNCHANGED <<appr, jobs, listing, node>>
    BY <1>3 DEF Approve, Finds
  <2>2. p = "trigger" => Mandated'
    BY <2>1 DEF IsApprovedByMode, Mandated
  <2>3. Goto(r, Doing(p, {}, votes, 0))  BY <1>3 DEF Approve
  <2>4. p \in Places /\ p \in {"trigger", "vote"} /\ votes \subseteq Users  BY <1>a DEF Places
  <2> HIDE DEF votes, p
  <2>5. /\ req'[r].at = p /\ req'[r].approvals = votes
        /\ \A s \in Requests : s # r => req'[s] = req[s]
    BY <2>3, <2>4, <1>c, Moves
  <2> QED  BY <2>1, <2>2, <2>4, <2>5, <1>d
<1>4. ASSUME NEW r \in Requests, NEW u \in Users, Reject(r, u) PROVE Grounds'
    BY <1>4, <1>a, <1>d, <1>b, <1>c, Moves DEF Reject, Places, Finds
<1>5. ASSUME NEW r \in Requests, NEW u \in Users, Cancel(r, u) PROVE Grounds'
    BY <1>5, <1>a, <1>d, <1>b, <1>c, Moves DEF Cancel, Places
<1>6. ASSUME NEW r \in Requests, NEW u \in Users, NEW vs \in SUBSET Users, Invite(r, u, vs) PROVE Grounds'
    BY <1>6, <1>a, <1>d, <1>b, <1>c, Moves DEF Invite, Places, Finds
<1>7. ASSUME NEW r \in Requests, SaveVote(r) PROVE Grounds'
    BY <1>7, <1>a, <1>d, <1>b, MovesToIdle DEF SaveVote
<1>8. ASSUME NEW r \in Requests, SaveReject(r) PROVE Grounds'
    BY <1>8, <1>a, <1>d, <1>b, <1>c, Moves, MovesToIdle DEF SaveReject, Places
<1>9. ASSUME NEW r \in Requests, RejectRow(r) PROVE Grounds'
    BY <1>9, <1>a, <1>d, <1>b, MovesToIdle DEF RejectRow
<1>10. ASSUME NEW r \in Requests, SaveInvite(r) PROVE Grounds'
    BY <1>10, <1>a, <1>d, <1>b, MovesToIdle DEF SaveInvite
<1>11. ASSUME NEW r \in Requests, SaveCancel(r) PROVE Grounds'
    BY <1>11, <1>a, <1>d, <1>b, MovesToIdle DEF SaveCancel
<1>12. ASSUME NEW r \in Requests, TriggerRaises(r) PROVE Grounds'
    BY <1>12, <1>a, <1>d, <1>b, <1>c, Moves DEF TriggerRaises, Places
<1>13. ASSUME NEW r \in Requests, Trigger(r) PROVE Grounds'
  <2>1. PICK n \in Jobs :
           /\ jobs[n].status = "none" /\ ~jobs[n].alive
           /\ jobs' = [jobs EXCEPT ![n].status = "pending"]
           /\ Goto(r, Doing("link", {}, req[r].approvals, n))
    BY <1>13, NewJob
  <2>2. /\ req'[r].at = "link" /\ req'[r].approvals = req[r].approvals
        /\ \A s \in Requests : s # r => req'[s] = req[s]
    BY <2>1, <1>b, <1>c, Moves DEF Places
  <2>3. \A k \in Jobs : jobs'[k].alive => jobs'[k].status \in {"running", "failed"}
    BY <2>1, <1>a DEF Job
  <2> QED  BY <1>13, <2>2, <2>3, <1>d DEF Trigger
<1>14. ASSUME NEW r \in Requests, SaveLink(r) PROVE Grounds'
    BY <1>14, <1>a, <1>d, <1>b, <1>c, Moves DEF SaveLink, Places
<1>15. ASSUME NEW r \in Requests, LinkFails(r) PROVE Grounds'
    BY <1>15, <1>a, <1>d, <1>b, <1>c, Moves DEF LinkFails, Places
<1>16. ASSUME NEW r \in Requests, SaveApproved(r) PROVE Grounds'
    BY <1>16, <1>a, <1>d, <1>b, MovesToIdle DEF SaveApproved
<1>17. ASSUME NEW r \in Requests, Die(r) PROVE Grounds'
    BY <1>17, <1>a, <1>d, <1>b, MovesToIdle DEF Die
<1>18. ASSUME NEW j \in Jobs, JobStarts(j) PROVE Grounds'
    BY <1>18, <1>a, <1>d DEF JobStarts
<1>19. ASSUME NEW j \in Jobs, JobIsOrphan(j) PROVE Grounds'
    BY <1>19, <1>a, <1>d DEF JobIsOrphan
<1>20. ASSUME NEW j \in Jobs, SyncApproval(j) PROVE Grounds'
    BY <1>20, <1>a, <1>d DEF SyncApproval, Outcome, Synced
<1>21. ASSUME NEW j \in Jobs, Terminate(j) PROVE Grounds'
    BY <1>21, <1>a, <1>d DEF Terminate
<1>22. ASSUME NEW j \in Jobs, NEW s \in {"success", "failed"}, JobSaves(j, s) PROVE Grounds'
    BY <1>22, <1>a, <1>d DEF JobSaves
<1>23. ASSUME AutoSyncRead PROVE Grounds'
    BY <1>23, <1>a, <1>d DEF AutoSyncRead, Outcome
<1>24. ASSUME AutoSyncWrite PROVE Grounds'
    BY <1>24, <1>a, <1>d DEF AutoSyncWrite, TypeOK
<1>25. ASSUME WebsocketDies PROVE Grounds'
    BY <1>25, <1>a, <1>d DEF WebsocketDies
<1>26. ASSUME DispatchNode PROVE Grounds'
    BY <1>26, <1>a, <1>d DEF DispatchNode, NewApproval, Order
<1>27. ASSUME Poll PROVE Grounds'
    BY <1>27, <1>a, <1>d DEF Poll, Answer
<1>28. ASSUME UnitCancel PROVE Grounds'
    BY <1>28, <1>a, <1>d DEF UnitCancel
<1>29. ASSUME UnitCancelSave PROVE Grounds'
    BY <1>29, <1>a, <1>d DEF UnitCancelSave
<1>30. CASE UNCHANGED vars  BY <1>30, <1>d DEF vars
<1> QED
    BY <1>1, <1>2, <1>3, <1>4, <1>5, <1>6, <1>7, <1>8, <1>9, <1>10, <1>11, <1>12, <1>13, <1>14, <1>15, <1>16, <1>17, <1>18, <1>19, <1>20, <1>21, <1>22, <1>23, <1>24, <1>25, <1>26, <1>27, <1>28, <1>29, <1>30
    DEF Next, Ask, Serve, Run, Unit

-----------------------------------------------------------------------------

(* What succeeded stays so.                                                *)
LEMMA SuccessStays ==
    ASSUME TypeOK, Created, [Next]_vars, NEW k \in Jobs, jobs[k].status = "success"
    PROVE  jobs'[k].status = "success"
<1>a. jobs \in [Jobs -> Job]  BY DEF TypeOK
<1>b. ~jobs[k].alive  BY DEF Created
<1>1. ASSUME NEW r \in Requests, Trigger(r) PROVE jobs'[k].status = "success"
  <2>1. PICK n \in Jobs :
           jobs[n].status = "none" /\ jobs' = [jobs EXCEPT ![n].status = "pending"]
    BY <1>1, NewJob
  <2> QED  BY <1>a, <2>1
<1>2. ASSUME NEW j \in Jobs, JobStarts(j) \/ JobIsOrphan(j) \/ Terminate(j)
      PROVE  jobs'[k].status = "success"
    BY <1>a, <1>2 DEF JobStarts, JobIsOrphan, Terminate, Job
<1>3. ASSUME NEW j \in Jobs, SyncApproval(j) PROVE jobs'[k].status = "success"
    BY <1>a, <1>3 DEF SyncApproval, Job
<1>4. ASSUME NEW j \in Jobs, NEW s \in {"success", "failed"}, JobSaves(j, s)
      PROVE  jobs'[k].status = "success"
    BY <1>a, <1>b, <1>4 DEF JobSaves
<1>5. ASSUME WebsocketDies PROVE jobs'[k].status = "success"
    BY <1>a, <1>5 DEF WebsocketDies
<1>6. CASE UNCHANGED jobs  BY <1>6
<1>7. ASSUME NEW r \in Requests, Ask(r) \/ LinkFails(r) \/ Die(r) PROVE UNCHANGED jobs
    BY <1>7 DEF Ask, CreateRow, Approve, Reject, Cancel, Invite, LinkFails, Die
<1>8. ASSUME NEW r \in Requests, Serve(r) PROVE Trigger(r) \/ UNCHANGED jobs
    BY <1>8 DEF Serve, CreateApproval, SaveVote, SaveReject, RejectRow, SaveInvite, SaveCancel,
                TriggerRaises, SaveLink, SaveApproved
<1>9. ASSUME AutoSyncRead \/ AutoSyncWrite \/ Unit PROVE UNCHANGED jobs
    BY <1>9 DEF AutoSyncRead, AutoSyncWrite, Unit, DispatchNode, Poll, UnitCancel, UnitCancelSave
<1> QED
    BY <1>1, <1>2, <1>3, <1>4, <1>5, <1>6, <1>7, <1>8, <1>9 DEF Next, Run, vars

(* Only a sync and a listing call an approval done, and they have seen the *)
(* success.                                                                *)
LEMMA TruthNext ==
    ASSUME TypeOK, Created, DoneIsTrue, Seen, [Next]_vars
    PROVE  DoneIsTrue' /\ Seen'
<1> DEFINE Success == \E j \in Jobs : jobs[j].status = "success"
<1>a. Success => Success'  BY SuccessStays
<1>b. appr \in Approval  BY DEF TypeOK
<1>1. ASSUME NEW r \in Requests, Ask(r) \/ LinkFails(r) \/ Die(r)
      PROVE  UNCHANGED <<appr, listing>>
    BY <1>1 DEF Ask, CreateRow, Approve, Reject, Cancel, Invite, LinkFails, Die
<1>2. ASSUME NEW r \in Requests, Serve(r)
      PROVE  UNCHANGED listing /\ (appr' = appr \/ appr'.status # "done" \/ appr.status = "done")
  <2>1. CASE CreateApproval(r)  BY <2>1, <1>b DEF CreateApproval, NewApproval
  <2>2. CASE SaveVote(r) \/ SaveInvite(r)
      BY <2>2, <1>b DEF SaveVote, SaveInvite, Approval
  <2>3. CASE SaveReject(r) \/ SaveCancel(r) \/ SaveLink(r) \/ SaveApproved(r)
      BY <2>3, <1>b DEF SaveReject, SaveCancel, SaveLink, SaveApproved, Approval
  <2>4. CASE RejectRow(r) \/ TriggerRaises(r) \/ Trigger(r)
      BY <2>4 DEF RejectRow, TriggerRaises, Trigger
  <2> QED  BY <1>2, <2>1, <2>2, <2>3, <2>4 DEF Serve
<1>3. ASSUME NEW j \in Jobs, SyncApproval(j)
      PROVE  UNCHANGED listing /\ (appr' = appr \/ appr'.status # "done" \/ Success)
    BY <1>3, <1>b DEF SyncApproval, Outcome, Approval
<1>4. ASSUME NEW j \in Jobs,
             \/ JobStarts(j) \/ JobIsOrphan(j) \/ Terminate(j)
             \/ \E s \in {"success", "failed"} : JobSaves(j, s)
      PROVE  UNCHANGED <<appr, listing>>
    BY <1>4 DEF JobStarts, JobIsOrphan, Terminate, JobSaves
<1>5. ASSUME AutoSyncRead
      PROVE  UNCHANGED appr /\ (listing' # "done" \/ Success)
    BY <1>5, <1>b DEF AutoSyncRead, Outcome, Approval, Jobs
<1>6. ASSUME AutoSyncWrite
      PROVE  listing' = "none" /\ (appr'.status # "done" \/ listing = "done")
    BY <1>6, <1>b DEF AutoSyncWrite, Approval
<1>7. ASSUME WebsocketDies PROVE UNCHANGED <<appr, listing>>  BY <1>7 DEF WebsocketDies
<1>8. ASSUME Unit
      PROVE  UNCHANGED listing /\ (appr' = appr \/ appr'.status # "done")
    BY <1>8, <1>b DEF Unit, DispatchNode, Poll, UnitCancel, UnitCancelSave, NewApproval, Approval
<1>9. CASE UNCHANGED vars  BY <1>9 DEF vars, DoneIsTrue, Seen
<1> HIDE DEF Success
<1>10. (appr.status = "done" \/ listing = "done" => Success)
    BY DEF DoneIsTrue, Seen, Success
<1>11. CASE Next
  <2>1. appr'.status = "done" => Success
      BY <1>10, <1>11, <1>1, <1>2, <1>3, <1>4, <1>5, <1>6, <1>7, <1>8 DEF Next, Run
  <2>2. listing' = "done" => Success
      BY <1>10, <1>11, <1>1, <1>2, <1>3, <1>4, <1>5, <1>6, <1>7, <1>8 DEF Next, Run
  <2> QED  BY <2>1, <2>2, <1>a DEF DoneIsTrue, Seen, Success
<1> QED  BY <1>9, <1>11

-----------------------------------------------------------------------------

LEMMA GroundsInit == Init => Grounds /\ DoneIsTrue /\ Seen
BY DEF Init, Grounds, Votes, Named, Created, Decided, Mandate, DoneIsTrue, Seen,
       NoApproval, NoJob, Idle, Doing

LEMMA Inductive == IInv /\ [Next]_vars => IInv'
BY TypeNext, GroundsNext, TruthNext DEF IInv, Grounds

(* The inductive invariant holds for ever.                                 *)
THEOREM Invariance == Spec => []IInv
<1>1. Init => IInv  BY TypeInit, GroundsInit DEF IInv, Grounds
<1> QED  BY <1>1, Inductive, PTL DEF Spec

(* The rows and the requests have their types.                             *)
THEOREM TypeCorrect == Spec => []TypeOK
<1>1. IInv => TypeOK  BY DEF IInv
<1> QED  BY <1>1, Invariance, PTL

(* Nothing runs and no workflow node passes without the approvals that the *)
(* order asked for (approve, _is_approved_by_mode, the trigger and poll).  *)
THEOREM MandateHolds == Spec => []Mandate
<1>1. IInv => Mandate  BY DEF IInv
<1> QED  BY <1>1, Invariance, PTL

(* An approval that says done has a job that succeeded, whichever of the   *)
(* three syncs wrote it.                                                   *)
THEOREM DoneIsTrueHolds == Spec => []DoneIsTrue
<1>1. IInv => DoneIsTrue  BY DEF IInv
<1> QED  BY <1>1, Invariance, PTL

(* No save of approve, reject, delegate, add_sign or cancel, and no sync,  *)
(* makes a processed approval pending again.                               *)
THEOREM NeverReopenedHolds == Spec => NeverReopened
<1> DEFINE Processed == appr.status \notin {"none", "pending"}
           Kept == Processed => appr'.status # "pending"
<1>1. ASSUME TypeOK, [Next]_vars PROVE Kept
  <2>a. appr \in Approval  BY <1>1 DEF TypeOK
  <2> SUFFICES ASSUME Processed PROVE appr' = appr \/ appr'.status # "pending"
      OBVIOUS
  <2>1. ASSUME NEW r \in Requests, Ask(r) \/ LinkFails(r) \/ Die(r) PROVE UNCHANGED appr
      BY <2>1 DEF Ask, CreateRow, Approve, Reject, Cancel, Invite, LinkFails, Die
  <2>2. ASSUME NEW r \in Requests, Serve(r) PROVE appr' = appr \/ appr'.status # "pending"
    <3>1. CASE CreateApproval(r)  BY <3>1 DEF CreateApproval
    <3>2. CASE SaveVote(r) \/ SaveInvite(r)
        BY <3>2, <2>a DEF SaveVote, SaveInvite, Approval
    <3>3. CASE SaveReject(r) \/ SaveCancel(r) \/ SaveLink(r) \/ SaveApproved(r)
        BY <3>3, <2>a DEF SaveReject, SaveCancel, SaveLink, SaveApproved, Approval
    <3>4. CASE RejectRow(r) \/ TriggerRaises(r) \/ Trigger(r)
        BY <3>4 DEF RejectRow, TriggerRaises, Trigger
    <3> QED  BY <2>2, <3>1, <3>2, <3>3, <3>4 DEF Serve
  <2>3. ASSUME NEW j \in Jobs, Run(j) \/ Terminate(j)
        PROVE  appr' = appr \/ appr'.status # "pending"
      BY <2>3, <2>a DEF Run, JobStarts, JobIsOrphan, SyncApproval, JobSaves, Terminate,
                        Outcome, Approval
  <2>4. ASSUME AutoSyncRead \/ AutoSyncWrite \/ WebsocketDies
        PROVE  appr' = appr \/ appr'.status # "pending"
      BY <1>1, <2>4, <2>a DEF AutoSyncRead, AutoSyncWrite, WebsocketDies, TypeOK, Approval
  <2>5. ASSUME Unit PROVE appr' = appr \/ appr'.status # "pending"
      BY <2>5, <2>a DEF Unit, DispatchNode, Poll, UnitCancel, UnitCancelSave, Approval
  <2>6. CASE UNCHANGED vars  BY <2>6 DEF vars
  <2> QED  BY <1>1, <2>1, <2>2, <2>3, <2>4, <2>5, <2>6 DEF Next
<1>2. TypeOK /\ [Next]_vars => [Kept]_vars  BY <1>1
<1> HIDE DEF Kept
<1>3. Spec => [][Kept]_vars  BY <1>2, TypeCorrect, PTL DEF Spec
<1> QED  BY <1>3 DEF NeverReopened, Kept

=============================================================================
