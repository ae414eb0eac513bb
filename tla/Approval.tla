------------------------------ MODULE Approval ------------------------------
(***************************************************************************)
(* Approval of a script or a workflow: the two approval engines            *)
(* (taurus_ee/services/script_approval_engine.py and                       *)
(* workflow_approval_engine.py), and the views that start an approval or   *)
(* change the status of what is approved (ScriptViewSet, WorkflowViewSet,  *)
(* ScriptApproveViewSet).                                                  *)
(*                                                                         *)
(* An instance goes through its nodes in order; current_node_index is the  *)
(* node in turn, counted from 0.  No request opens a transaction or locks  *)
(* a row: it reads the instance, then the nodes, then saves the node, the  *)
(* instance and the approved object one after the other, and each save()   *)
(* writes every field of a row read before.  Those are the steps here; a   *)
(* request may die between any two of them.                                *)
(*                                                                         *)
(* A list of users is its set and its length, which differ when a list of  *)
(* ids names a user twice.  The nodes of an instance have distinct         *)
(* step_orders (see the README for the ones that do not).                  *)
(***************************************************************************)
EXTENDS Naturals, Sequences, FiniteSets

CONSTANTS
    Users,
    Admins,         \* the superusers among them
    Targets,        \* the scripts and workflows considered, one per behaviour
    Overrides,      \* the approver lists a client may send with publish
    Requests,       \* requests served at once (bound)
    MaxInstances,   \* approval instances of the object (bound)
    MaxNodes,       \* nodes of two instances together (bound)
    MaxFaults,      \* requests that die half way (bound)
    Env             \* what users do besides approving

(* "view": they use the views after the object's creation; "invite": they  *)
(* delegate and add signs.                                                 *)
EnvKinds == {"view", "invite"}

Modes == {"any", "all", "first"}

(* What a node asks for.                                                   *)
Asked == [mode : Modes, candidates : SUBSET Users, listed : Nat]

(* A script or a workflow: the rule the matcher finds, if it matches one,  *)
(* with the candidates of its nodes; whether it is public (its category,   *)
(* or a workflow's auth_type); need_audit; and the approvers the workflow  *)
(* itself names (custom_approver_ids, else those of its graph).            *)
Target ==
    [kind : {"script", "workflow"}, matched : BOOLEAN, rule : Seq(Asked),
     public : BOOLEAN, audit : BOOLEAN, custom : SUBSET Users]

(* Approver lists after _build_user_candidates has dropped unknown ids;    *)
(* given: the client has sent some.                                        *)
Override == [given : BOOLEAN, any : SUBSET Users, all : SUBSET Users, twice : Nat]

ASSUME ApprovalAssumption ==
    /\ IsFiniteSet(Users)
    /\ Admins \subseteq Users
    /\ Targets \subseteq Target
    /\ \A t \in Targets : \A k \in 1 .. Len(t.rule) :
          t.rule[k].listed = Cardinality(t.rule[k].candidates)
    /\ Overrides \subseteq Override
    /\ MaxInstances \in Nat
    /\ MaxNodes \in Nat
    /\ MaxFaults \in Nat
    /\ Env \subseteq EnvKinds

Instances == 1 .. MaxInstances
Decisions == {"approved", "rejected", "cancelled"}
ObjectStatuses == {"enabled", "disabled", "pending", "archived"}

VARIABLES
    target,     \* what is approved
    object,     \* its status; "new" before it is created
    instance,   \* the approval instances
    nodes,      \* the node executions of each instance
    req,        \* the requests at work
    faults,     \* requests that have died so far
    asked,      \* history: the nodes of each instance as they were created
    said,       \* history: <<i, k, u>> when u's approval of node k was saved
    overruled   \* history: an open approval of the script has been overruled

vars == <<target, object, instance, nodes, req, faults, asked, said, overruled>>

InstanceRow ==
    [status : {"none", "pending"} \cup Decisions, index : Nat,
     submitter : Users \cup {"none"}]
NoInstance == [status |-> "none", index |-> 0, submitter |-> "none"]

NodeRow ==
    [mode : Modes, candidates : SUBSET Users, listed : Nat,
     approvals : SUBSET Users, count : Nat, rejections : SUBSET Users,
     status : {"pending", "approved", "rejected"}]

NewRow(a) ==
    [mode |-> a.mode, candidates |-> a.candidates, listed |-> a.listed,
     approvals |-> {}, count |-> 0, rejections |-> {}, status |-> "pending"]
NoRow == NewRow([mode |-> "any", candidates |-> {}, listed |-> 0])

(* A request: its place; in the engine, the rows it has read and will      *)
(* write; in a view, the statuses it has still to write to the object and  *)
(* whether it then starts an approval, along which plan.                   *)
Places == {"idle", "nodes", "node", "inst", "object", "view", "create", "insert", "last"}
Request ==
    [at : Places, op : {"none", "approve", "reject", "invite"},
     by : Users \cup {"none"}, named : SUBSET Users, inst : 0 .. MaxInstances,
     snap : InstanceRow, k : Nat, row : NodeRow, moves : BOOLEAN,
     writes : Seq(ObjectStatuses), starts : BOOLEAN, plan : Seq(Asked), again : BOOLEAN]
Idle ==
    [at |-> "idle", op |-> "none", by |-> "none", named |-> {}, inst |-> 0,
     snap |-> NoInstance, k |-> 0, row |-> NoRow, moves |-> FALSE,
     writes |-> <<>>, starts |-> FALSE, plan |-> <<>>, again |-> FALSE]

TypeOK ==
    /\ target \in Targets
    /\ object \in ObjectStatuses \cup {"new"}
    /\ instance \in [Instances -> InstanceRow]
    /\ nodes \in [Instances -> Seq(NodeRow)]
    /\ req \in [Requests -> Request]
    /\ faults \in 0 .. MaxFaults
    /\ asked \in [Instances -> Seq(Asked)]
    /\ said \subseteq Instances \X Nat \X Users
    /\ overruled \in BOOLEAN

Init ==
    /\ target \in Targets
    /\ object = "new"
    /\ instance = [i \in Instances |-> NoInstance]
    /\ nodes = [i \in Instances |-> <<>>]
    /\ req = [r \in Requests |-> Idle]
    /\ faults = 0
    /\ asked = [i \in Instances |-> <<>>]
    /\ said = {}
    /\ overruled = FALSE

data == <<object, instance, nodes, asked, said, overruled>>

Open(i) == instance[i].status = "pending"
Finish(r) == req' = [req EXCEPT ![r] = Idle]

-----------------------------------------------------------------------------
(* The engines.                                                            *)

(* objects.get of an instance, which must be pending.                      *)
Arrive(r, op, u, named, i) ==
    /\ req[r].at = "idle"
    /\ Open(i)
    /\ req' = [req EXCEPT ![r] =
                  [Idle EXCEPT !.at = "nodes", !.op = op, !.by = u, !.named = named,
                               !.inst = i, !.snap = instance[i], !.k = instance[i].index + 1]]
    /\ UNCHANGED <<target, data, faults>>

AskApprove(r, u, i) == Arrive(r, "approve", u, {}, i)
AskReject(r, u, i) == Arrive(r, "reject", u, {}, i)
AskDelegate(r, u, i, v) == "invite" \in Env /\ Arrive(r, "invite", u, {v}, i)
AskAddSign(r, u, i, vs) == "invite" \in Env /\ Arrive(r, "invite", u, vs, i)

(* The submitter may withdraw; a workflow's approval, a superuser too.     *)
MayCancel(u, i) ==
    \/ u = instance[i].submitter
    \/ target.kind = "workflow" /\ u \in Admins

AskCancel(r, u, i) ==
    /\ req[r].at = "idle"
    /\ Open(i) /\ MayCancel(u, i)
    /\ req' = [req EXCEPT ![r] =
                  [Idle EXCEPT !.at = "inst", !.inst = i,
                               !.snap = [instance[i] EXCEPT !.status = "cancelled"]]]
    /\ UNCHANGED <<target, data, faults>>

(* A slip: one approval is enough, whatever the mode.                      *)
IsNodeApproved_AnyOne(row) == row.count >= 1

(* A slip: the last approval does not count.                               *)
IsNodeApproved_OneMore(row) ==
    IF row.mode \in {"first", "any"} THEN row.count >= 1
                                     ELSE row.count > row.listed

IsNodeApproved(row) ==
    IF row.mode \in {"first", "any"} THEN row.count >= 1
                                     ELSE row.count >= row.listed /\ row.listed > 0

(* A slip: nobody looks whether the user has voted.                        *)
MayVote_Again(q, row) == q.by \in row.candidates

(* _is_user_approver, and no vote of the user on record.                   *)
MayVote(q, row) ==
    /\ q.by \in row.candidates
    /\ q.by \notin row.approvals \cup row.rejections

(* The nodes are read; the request raises, or goes on.                     *)
MayGoOn(q) ==
    /\ q.k <= Len(nodes[q.inst])
    /\ LET row == nodes[q.inst][q.k]
       IN  IF q.op = "invite" THEN q.by \in row.candidates ELSE MayVote(q, row)

Raise(r) ==
    /\ req[r].at = "nodes"
    /\ ~MayGoOn(req[r])
    /\ Finish(r)
    /\ UNCHANGED <<target, data, faults>>

(* The vote is recorded; a node that is thereby approved moves the         *)
(* instance on, or ends it.                                                *)
Approve(r) ==
    LET q == req[r]
        old == nodes[q.inst][q.k]
        new == [old EXCEPT !.approvals = @ \cup {q.by}, !.count = @ + 1]
        last == q.k >= Len(nodes[q.inst])
    IN  /\ q.at = "nodes" /\ q.op = "approve" /\ MayGoOn(q)
        /\ req' = [req EXCEPT ![r] =
              IF IsNodeApproved(new)
              THEN [q EXCEPT !.at = "node", !.moves = TRUE,
                             !.row = [new EXCEPT !.status = "approved"],
                             !.snap = IF last THEN [q.snap EXCEPT !.status = "approved"]
                                              ELSE [q.snap EXCEPT !.index = q.k]]
              ELSE [q EXCEPT !.at = "node", !.row = new, !.snap = NoInstance]]
        /\ UNCHANGED <<target, data, faults>>

(* One rejection ends the instance.                                        *)
Reject(r) ==
    LET q == req[r]
        old == nodes[q.inst][q.k]
    IN  /\ q.at = "nodes" /\ q.op = "reject" /\ MayGoOn(q)
        /\ req' = [req EXCEPT ![r] =
              [q EXCEPT !.at = "node", !.moves = TRUE, !.by = "none",
                        !.row = [old EXCEPT !.rejections = @ \cup {q.by},
                                            !.status = "rejected"],
                        !.snap = [q.snap EXCEPT !.status = "rejected"]]]
        /\ UNCHANGED <<target, data, faults>>

(* delegate and add_sign add candidates; who delegates remains one.        *)
Invite(r) ==
    LET q == req[r]
        old == nodes[q.inst][q.k]
    IN  /\ q.at = "nodes" /\ q.op = "invite" /\ MayGoOn(q)
        /\ req' = [req EXCEPT ![r] =
              [q EXCEPT !.at = "node", !.by = "none", !.named = {}, !.snap = NoInstance,
                        !.row = [old EXCEPT !.candidates = @ \cup q.named,
                                            !.listed = @ + Cardinality(q.named \ old.candidates)]]]
        /\ UNCHANGED <<target, data, faults>>

(* node_exec.save()                                                        *)
SaveNode(r) ==
    LET q == req[r]
    IN  /\ q.at = "node"
        /\ nodes' = [nodes EXCEPT ![q.inst] = [@ EXCEPT ![q.k] = q.row]]
        /\ said' = IF q.op = "approve" THEN said \cup {<<q.inst, q.k, q.by>>} ELSE said
        /\ IF q.moves
           THEN req' = [req EXCEPT ![r] = [Idle EXCEPT !.at = "inst", !.inst = q.inst, !.snap = q.snap]]
           ELSE Finish(r)
        /\ UNCHANGED <<target, object, instance, asked, overruled, faults>>

(* instance.save(); an approval and a withdrawal then change the object.   *)
SaveInstance(r) ==
    LET q == req[r]
    IN  /\ q.at = "inst"
        /\ instance' = [instance EXCEPT ![q.inst] = q.snap]
        /\ IF q.snap.status \in {"approved", "cancelled"}
           THEN req' = [req EXCEPT ![r] = [Idle EXCEPT !.at = "object", !.snap.status = q.snap.status]]
           ELSE Finish(r)
        /\ UNCHANGED <<target, object, nodes, asked, said, overruled, faults>>

(* instance.script is read here for the first time, and saved.             *)
SaveObject(r) ==
    /\ req[r].at = "object"
    /\ object' = IF req[r].snap.status = "approved" THEN "enabled" ELSE "disabled"
    /\ Finish(r)
    /\ UNCHANGED <<target, instance, nodes, asked, said, overruled, faults>>

-----------------------------------------------------------------------------
(* start_approval.                                                         *)

Lists(mode, users, twice) ==
    [mode |-> mode, candidates |-> users, listed |-> Cardinality(users) + twice]
NodeIf(mode, users, twice) ==
    IF users = {} THEN <<>> ELSE <<Lists(mode, users, twice)>>
AdminNodes == <<Lists("any", Admins, 0)>>
NoOverride == [given |-> FALSE, any |-> {}, all |-> {}, twice |-> 0]

(* _create_custom_node: the approvers the client sent, else the workflow's *)
(* own, else the superusers.                                               *)
CustomNodes(o) ==
    LET any == IF o.any = {} /\ o.all = {} THEN target.custom ELSE o.any
        own == NodeIf("any", any, 0) \o NodeIf("all", o.all, o.twice)
    IN  IF own = <<>> THEN AdminNodes ELSE own

NeedsApproval ==
    target.matched \/ target.audit \/ (target.kind = "workflow" /\ target.public)

Plan(o) ==
    IF target.matched /\ ~(target.kind = "workflow" /\ o.given) THEN target.rule
    ELSE IF target.kind = "script" THEN AdminNodes ELSE CustomNodes(o)

(* A view that writes some statuses and then calls start_approval, which   *)
(* writes enabled where there is nothing to approve.                       *)
Submission(u, o, writes) ==
    IF NeedsApproval
    THEN [Idle EXCEPT !.at = IF writes = <<>> THEN "create" ELSE "view",
                      !.by = u, !.writes = writes, !.starts = TRUE, !.plan = Plan(o)]
    ELSE [Idle EXCEPT !.at = "view", !.writes = Append(writes, "enabled")]

(* A view that only writes a status.                                       *)
Change(s) == [Idle EXCEPT !.at = "view", !.writes = <<s>>]

(* Bounds: the instances there are and those that requests will create,    *)
(* and the nodes of two of them together.                                  *)
Room(plan) ==
    /\ Cardinality({i \in Instances : instance[i].status # "none"})
           + Cardinality({r \in Requests : req[r].starts}) < MaxInstances
    /\ \A i \in Instances : nodes[i] # <<>> => Len(nodes[i]) + Len(plan) <= MaxNodes

(* A view has read the object, and q is what it will do.                   *)
Serve(r, q) ==
    /\ "view" \in Env
    /\ req[r].at = "idle"
    /\ q.starts => Room(q.plan)
    /\ req' = [req EXCEPT ![r] = q]
    /\ UNCHANGED <<target, data, faults>>

-----------------------------------------------------------------------------
(* The views.                                                              *)

SomeOpen == \E i \in Instances : Open(i)
IsScript == target.kind = "script"
IsWorkflow == target.kind = "workflow"
AsksForApproval == target.public \/ target.audit

(* perform_create: the object exists from here on, enabled; a script is    *)
(* then submitted, a workflow when it asks for an approval.                *)
CreateObject(r, u) ==
    /\ object = "new"
    /\ req[r].at = "idle"
    /\ object' = "enabled"
    /\ req' = [req EXCEPT ![r] =
                  IF IsScript THEN Submission(u, NoOverride, <<>>)
                  ELSE IF AsksForApproval THEN Submission(u, NoOverride, <<"pending">>)
                  ELSE Idle]
    /\ UNCHANGED <<target, instance, nodes, asked, said, overruled, faults>>

-----------------------------------------------------------------------------
(* The views of a script.                                                  *)

(* Enabling a public script asks for an approval.                          *)
Enable(u) ==
    IF target.public THEN Submission(u, NoOverride, <<"pending">>) ELSE Change("enabled")

ToggleScript(r, u) ==
    /\ IsScript /\ object \in {"enabled", "disabled"}
    /\ Serve(r, IF object = "enabled" THEN Change("disabled") ELSE Enable(u))

Archive(r) ==
    /\ IsScript /\ object \in {"enabled", "disabled"}
    /\ Serve(r, Change("archived"))

Unarchive(r, u) ==
    /\ IsScript /\ object = "archived"
    /\ Serve(r, Enable(u))

(* A view that writes a status whatever approval is open: any but pending  *)
(* overrules the open approvals of a script.                               *)
Overrule(r, s) ==
    /\ "view" \in Env /\ object # "new"
    /\ req[r].at = "idle"
    /\ req' = [req EXCEPT ![r] = Change(s)]
    /\ overruled' = (overruled \/ (IsScript /\ SomeOpen /\ s # "pending"))
    /\ UNCHANGED <<target, object, instance, nodes, asked, said, faults>>

(* ScriptApproveViewSet.approve decides a ScriptApprove record of its own  *)
(* and enables the script; its reject leaves the script alone.             *)
ApproveSingle(r) == IsScript /\ Overrule(r, "enabled")

(* perform_update that leaves content and category alone saves the status  *)
(* it has read, or the one the client has sent: the field is writable, and *)
(* not among those refused while pending.                                  *)
EditObject(r) == \E s \in ObjectStatuses : Overrule(r, s)

(* perform_update of the content (which saves once more, for the version)  *)
(* or the category: refused while pending, else a new approval, unless the *)
(* status sent is pending.                                                 *)
EditScript(r, u) ==
    /\ IsScript /\ object \notin {"new", "pending"}
    /\ \E s \in ObjectStatuses \ {"pending"} : \E writes \in {<<s>>, <<s, s>>} :
          Serve(r, Submission(u, NoOverride, writes))

(* A slip: a pending script is rolled back too.                            *)
Rollback_Pending(r, u) ==
    /\ IsScript /\ object # "new"
    /\ Serve(r, Submission(u, NoOverride, <<object>>))

(* rollback_version saves the script and submits it.                       *)
Rollback(r, u) ==
    /\ IsScript /\ object \notin {"new", "pending"}
    /\ Serve(r, Submission(u, NoOverride, <<object>>))

-----------------------------------------------------------------------------
(* The views of a workflow.                                                *)

ToggleWorkflow(r) ==
    /\ IsWorkflow /\ object \in {"enabled", "disabled"}
    /\ Serve(r, Change(IF object = "enabled" THEN "disabled" ELSE "enabled"))

(* perform_update of the graph, with the status read or sent.              *)
EditWorkflow(r, u) ==
    /\ IsWorkflow /\ object # "new" /\ AsksForApproval
    /\ \E s \in ObjectStatuses : Serve(r, Submission(u, NoOverride, <<s, "pending">>))

(* submit_approve: not while an approval is pending; the object is pending *)
(* afterwards whether or not there was anything to approve.                *)
SubmitApprove(r, u) ==
    /\ IsWorkflow /\ object # "new" /\ ~SomeOpen
    /\ LET q == Submission(u, NoOverride, <<>>)
       IN  Serve(r, IF NeedsApproval THEN [q EXCEPT !.again = TRUE]
                                     ELSE [q EXCEPT !.writes = Append(@, "pending")])

(* publish.  Its search for a pending instance orders by created_at, which *)
(* the model lacks, and the exception counts as "none found".              *)
Publish(r, u, o) ==
    /\ IsWorkflow /\ object # "new"
    /\ Serve(r, IF AsksForApproval THEN Submission(u, o, <<"pending">>) ELSE Change("enabled"))

(* create of the approval centre.                                          *)
CentreSubmit(r, u) ==
    /\ IsWorkflow /\ object # "new"
    /\ Serve(r, Submission(u, NoOverride, <<>>))

(* execute asks for an approval when a rule matches, and for need_audit    *)
(* with nothing pending; otherwise it refuses or starts a run of the       *)
(* steps, which changes nothing here.                                      *)
ExecuteAsks(r, u) ==
    /\ IsWorkflow /\ object # "new"
    /\ target.matched \/ (target.audit /\ ~SomeOpen)
    /\ Serve(r, Submission(u, NoOverride, <<>>))

-----------------------------------------------------------------------------
(* The writes of a view and of start_approval, one at a time.              *)

WriteObject(r) ==
    LET q == req[r]
    IN  /\ q.at = "view"
        /\ object' = Head(q.writes)
        /\ req' = [req EXCEPT ![r] =
              IF Len(q.writes) > 1 THEN [q EXCEPT !.writes = Tail(@)]
              ELSE IF q.starts THEN [q EXCEPT !.at = "create", !.writes = <<>>]
              ELSE Idle]
        /\ UNCHANGED <<target, instance, nodes, asked, said, overruled, faults>>

(* A slip: the status the listings also look for.                          *)
NewInstance_Approving(u) == [status |-> "approving", index |-> 0, submitter |-> u]

NewInstance(u) == [status |-> "pending", index |-> 0, submitter |-> u]

CreateInstance(r) ==
    LET q == req[r]
        new == CHOOSE i \in Instances : instance[i].status = "none"
    IN  /\ q.at = "create"
        /\ \E i \in Instances : instance[i].status = "none"
        /\ instance' = [instance EXCEPT ![new] = NewInstance(q.by)]
        /\ req' = [req EXCEPT ![r] =
              [q EXCEPT !.at = IF q.plan = <<>> THEN "last" ELSE "insert",
                        !.inst = new, !.starts = FALSE]]
        /\ UNCHANGED <<target, object, nodes, asked, said, overruled, faults>>

InsertNode(r) ==
    LET q == req[r]
    IN  /\ q.at = "insert"
        /\ nodes' = [nodes EXCEPT ![q.inst] = Append(@, NewRow(Head(q.plan)))]
        /\ asked' = [asked EXCEPT ![q.inst] = Append(@, Head(q.plan))]
        /\ req' = [req EXCEPT ![r] =
              [q EXCEPT !.at = IF Len(q.plan) > 1 THEN "insert" ELSE "last",
                        !.plan = Tail(@)]]
        /\ UNCHANGED <<target, object, instance, said, overruled, faults>>

(* The object is pending; submit_approve saves that once more.             *)
WritePending(r) ==
    /\ req[r].at = "last"
    /\ object' = "pending"
    /\ req' = [req EXCEPT ![r] = IF @.again THEN [@ EXCEPT !.again = FALSE] ELSE Idle]
    /\ UNCHANGED <<target, instance, nodes, asked, said, overruled, faults>>

(* The process dies, or a save fails: what was saved stays saved.          *)
Die(r) ==
    /\ req[r].at # "idle"
    /\ faults < MaxFaults
    /\ faults' = faults + 1
    /\ Finish(r)
    /\ UNCHANGED <<target, data>>

-----------------------------------------------------------------------------

EngineStep(r) ==
    \/ \E u \in Users, i \in Instances :
          \/ AskApprove(r, u, i)
          \/ AskReject(r, u, i)
          \/ AskCancel(r, u, i)
          \/ \E v \in Users : AskDelegate(r, u, i, v)
          \/ \E vs \in SUBSET Users : AskAddSign(r, u, i, vs)
    \/ Raise(r) \/ Approve(r) \/ Reject(r) \/ Invite(r)
    \/ SaveNode(r) \/ SaveInstance(r) \/ SaveObject(r)

ViewStep(r) ==
    \/ \E u \in Users :
          \/ CreateObject(r, u)
          \/ ToggleScript(r, u) \/ Unarchive(r, u) \/ EditScript(r, u) \/ Rollback(r, u)
          \/ EditWorkflow(r, u) \/ SubmitApprove(r, u)
          \/ CentreSubmit(r, u) \/ ExecuteAsks(r, u)
          \/ \E o \in Overrides \cup {NoOverride} : Publish(r, u, o)
    \/ Archive(r) \/ ApproveSingle(r) \/ EditObject(r) \/ ToggleWorkflow(r)
    \/ WriteObject(r) \/ CreateInstance(r) \/ InsertNode(r) \/ WritePending(r)

Next == \E r \in Requests : EngineStep(r) \/ ViewStep(r) \/ Die(r)

Spec == Init /\ [][Next]_vars

-----------------------------------------------------------------------------
(* Properties of any number of requests at once.                           *)

(* Node k has been approved by whom it asked when it was created: by each  *)
(* of its candidates where all must sign, else by somebody.                *)
Mandated(i, k) ==
    /\ k \in 1 .. Len(asked[i])
    /\ \E u \in Users : <<i, k, u>> \in said
    /\ asked[i][k].mode = "all" =>
          \A u \in asked[i][k].candidates : <<i, k, u>> \in said

(* The nodes an instance row says are behind it.  A node inserted after    *)
(* the instance was approved is not one of them: a vote that approves the  *)
(* only node there is, while start_approval inserts the next, ends it.     *)
Passed(row) == 1 .. (IF row.status = "approved" THEN row.index + 1 ELSE row.index)

(* No node is passed without its mandate, however requests overwrite each  *)
(* other's rows: approve counts records of the row it has read, and what a *)
(* lost update takes away is asked for again, never granted.               *)
Mandate == \A i \in Instances : \A k \in Passed(instance[i]) : Mandated(i, k)

-----------------------------------------------------------------------------
(* Properties of one request at a time.                                    *)

Quiet == \A r \in Requests : req[r].at = "idle"
InTurn(i) == nodes[i][instance[i].index + 1]

(* An open approval has a vote to wait for: where nobody is listed twice,  *)
(* nobody has died half way and the node asks somebody, a candidate of the *)
(* node in turn has yet to vote.                                           *)
SomebodyIsAwaited ==
    Quiet /\ faults = 0 =>
        \A i \in Instances : Open(i) /\ nodes[i] # <<>> =>
            /\ instance[i].index < Len(nodes[i])
            /\ LET row == InTurn(i)
               IN  row.candidates # {} /\ row.listed = Cardinality(row.candidates)
                     => row.candidates \ (row.approvals \cup row.rejections) # {}

(* Until a single-step approval or an edit that sends a status overrules   *)
(* an open approval, the guards of ScriptViewSet (status 2) keep a script  *)
(* to one approval at a time, and pending as long as it has one: every     *)
(* other view and the engine's own saves leave no second way round them.   *)
OneApprovalOfScript ==
    IsScript /\ faults = 0 /\ ~overruled =>
        /\ \A i, j \in Instances : Open(i) /\ Open(j) => i = j
        /\ Quiet /\ SomeOpen => object = "pending"

(* The engine keeps the promises of ApprovalDecision.                      *)
Decision ==
    [none |-> "none", pending |-> "open", approved |-> "granted",
     rejected |-> "refused", cancelled |-> "withdrawn"]
StageOf(row) == [all |-> row.mode = "all", asks |-> row.candidates]

decisionBar == [i \in Instances |-> Decision[instance[i].status]]
stagesBar == [i \in Instances |-> [k \in 1 .. Len(nodes[i]) |-> StageOf(nodes[i][k])]]
votesBar == [i \in Instances |-> [k \in 1 .. Len(nodes[i]) |-> nodes[i][k].approvals]]

Promise == INSTANCE ApprovalDecision WITH
    Approvals <- Instances,
    decision <- decisionBar, stages <- stagesBar, votes <- votesBar

KeepsPromise == Promise!Spec

=============================================================================
