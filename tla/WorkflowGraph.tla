--------------------------- MODULE WorkflowGraph ---------------------------
(***************************************************************************)
(* The pure half of the workflow engine: the DAG of one published version, *)
(* the table of WorkflowNodeExecution rows of one execution, and what the  *)
(* engine computes from them (taurus/workflow/engine/executor.py and the   *)
(* row helpers of engine/runner.py).                                       *)
(*                                                                         *)
(* A row is named by the key the database keeps unique, <<node, host,      *)
(* attempt, item>>; item 0 is the node's own row and item i > 0 the i-th   *)
(* child of a loop node (node_key "<n>__loop_<i>").  A table maps every    *)
(* row name to its contents, st = "none" meaning that no such row exists.  *)
(***************************************************************************)
EXTENDS Naturals, FiniteSets, FiniteSetsExt

CONSTANTS
    Nodes,          \* the node keys of the DAG definition
    Hosts,          \* host ids, "__NO_HOST__" included
    NodeType,       \* node_type: start, end, unit, approval or loop
    Edges,          \* normalised edges: [from, to, cond]
    HostsOf,        \* the hosts expand_hosts gives a node
    Placeholder,    \* nodes with requires_host that expand to no host
    NodeFailStrategy,   \* the node's own fail_strategy, "unset" if it has none
    ExecFailStrategy,   \* WorkflowExecution.fail_strategy
    MaxRetries,     \* max_retries of each node
    LoopItems       \* how many loop_items a loop node returns

Strategies == {"fail_fast", "continue"}
Statuses == {"PENDING", "RUNNING", "SUCCESS", "FAILED", "SKIPPED", "CANCELLED"}

(* schemas.py: the statuses with no outgoing transition. *)
TERMINAL_STATUSES == {"SUCCESS", "FAILED", "SKIPPED", "CANCELLED"}

(* An edge condition: empty, __else__, or status(__from__, <status>).      *)
Conditions == {"", "else"} \cup TERMINAL_STATUSES

ASSUME GraphAssumption ==
    /\ IsFiniteSet(Nodes)
    /\ NodeType \in [Nodes -> {"start", "end", "unit", "approval", "loop"}]
    /\ Edges \subseteq [from : Nodes, to : Nodes, cond : Conditions]
    /\ HostsOf \in [Nodes -> (SUBSET Hosts) \ {{}}]
    /\ Placeholder \subseteq Nodes
    /\ NodeFailStrategy \in [Nodes -> Strategies \cup {"unset"}]
    /\ ExecFailStrategy \in Strategies
    /\ MaxRetries \in [Nodes -> Nat]
    /\ LoopItems \in [Nodes -> Nat]

(* dag_validator.py lets neither an edge leave an end node nor one enter a *)
(* start node.                                                             *)
ASSUME ControlNodeAssumption ==
    \A e \in Edges : NodeType[e.from] # "end" /\ NodeType[e.to] # "start"

Attempts(n) == 1 .. (IF MaxRetries[n] > 1 THEN MaxRetries[n] ELSE 1)

OwnIds(n) == {<<n, h, k, 0>> : h \in HostsOf[n], k \in Attempts(n)}
ItemIds(n) == {<<n, h, 1, i>> : h \in HostsOf[n], i \in 1 .. LoopItems[n]}

RowIds == UNION {OwnIds(n) \cup ItemIds(n) : n \in Nodes}

(* err is the class of the error code in error_message: E2xxx/E4xxx are    *)
(* "retryable", any other "final".  mark is what the engine itself keeps   *)
(* in adapter_state: "child" for __loop_child__, "agg" for loop_aggregated.*)
Row == [st : Statuses \cup {"none"}, err : {"-", "final", "retryable"},
        mark : {"-", "child", "agg"}]

Tables == [RowIds -> Row]

NoRow == [st |-> "none", err |-> "-", mark |-> "-"]
EmptyTable == [r \in RowIds |-> NoRow]

Exists(T, r) == T[r].st # "none"
Terminal(T, r) == T[r].st \in TERMINAL_STATUSES
Business == {n \in Nodes : NodeType[n] \notin {"start", "end"}}

OwnRows == [n \in Nodes |-> {r \in RowIds : r[1] = n /\ r[4] = 0}]
ItemRows == [n \in Nodes |-> {r \in RowIds : r[1] = n /\ r[4] # 0}]

RowsOf(T, n) == {r \in OwnRows[n] : Exists(T, r)}
ChildrenOf(T, n) == {r \in ItemRows[n] : Exists(T, r)}
StatusesOf(T, n) == {T[r].st : r \in RowsOf(T, n)}

-----------------------------------------------------------------------------
(* VALID_TRANSITIONS, and transition_status as _apply_unit_output uses it: *)
(* an invalid transition leaves the status as it was.                      *)
ValidTransitions ==
    [s \in Statuses |->
        CASE s = "PENDING" -> {"RUNNING", "SKIPPED", "CANCELLED"}
          [] s = "RUNNING" -> {"SUCCESS", "FAILED", "CANCELLED", "RUNNING"}
          [] OTHER -> {}]

transition_status(current, target) ==
    IF target \in ValidTransitions[current] THEN target ELSE current

(* The strategy a node's rows carry: the node's own "continue", else the   *)
(* execution's (a node-level fail_fast counts as not set).                 *)
resolved_fail_strategy(n) ==
    IF NodeFailStrategy[n] = "continue" THEN "continue" ELSE ExecFailStrategy

(* A slip: a failed host decides before the other hosts have finished.     *)
host_view_status_FailedFirst(T, n) ==
    LET S == StatusesOf(T, n)
    IN  IF S = {} THEN "PENDING"
        ELSE IF "CANCELLED" \in S THEN "CANCELLED"
        ELSE IF "FAILED" \in S THEN "FAILED"
        ELSE IF S \cap {"RUNNING", "PENDING"} # {} THEN "RUNNING"
        ELSE IF S = {"SKIPPED"} THEN "SKIPPED" ELSE "SUCCESS"

(* _host_view_status: the rows of a node on its hosts, and of its retries, *)
(* collapsed to the status the scheduler of the DAG works with.            *)
host_view_status(T, n) ==
    LET S == StatusesOf(T, n)
    IN  CASE S = {} -> "PENDING"
          [] "CANCELLED" \in S -> "CANCELLED"
          [] "CANCELLED" \notin S /\ S \cap {"RUNNING", "PENDING"} # {} -> "RUNNING"
          [] S # {} /\ S \subseteq {"SUCCESS", "FAILED", "SKIPPED"} ->
                 IF "FAILED" \in S THEN "FAILED"
                 ELSE IF S = {"SKIPPED"} THEN "SKIPPED" ELSE "SUCCESS"

(* The node's view in compute_next_runnables: a start node counts as done, *)
(* an end node never as expanded.                                          *)
NodeView(T, n) ==
    CASE NodeType[n] = "start" -> "SUCCESS"
      [] NodeType[n] = "end" -> "PENDING"
      [] OTHER -> host_view_status(T, n)

(* _refresh_ctx_from_db: the status edge conditions read, the maximum over *)
(* the node's rows in the order below; "none" for a node without rows.     *)
CtxOrder == <<"SUCCESS", "SKIPPED", "PENDING", "RUNNING", "CANCELLED", "FAILED">>

CtxStatus(S) ==
    IF S = {} THEN "none" ELSE CtxOrder[Max({k \in 1 .. 6 : CtxOrder[k] \in S})]

refresh_ctx(T) == [n \in Nodes |-> CtxStatus(StatusesOf(T, n))]

(* Which edges are hit.  view is the status that decides whether the       *)
(* source is terminal, ctx the one its condition reads.  An else edge is   *)
(* hit when no other edge of its source is, unless the source is CANCELLED.*)
PlainHit(e, view, ctx) ==
    /\ view[e.from] \in TERMINAL_STATUSES
    /\ IF e.cond = ""
       THEN \/ view[e.from] = "SUCCESS"
            \/ view[e.from] = "FAILED" /\ resolved_fail_strategy(e.from) = "continue"
       ELSE e.cond # "else" /\ ctx[e.from] = e.cond

EdgeHit(e, view, ctx) ==
    IF e.cond # "else" THEN PlainHit(e, view, ctx)
    ELSE /\ view[e.from] \in TERMINAL_STATUSES \ {"CANCELLED"}
         /\ \A f \in Edges : f.from = e.from => ~PlainHit(f, view, ctx)

Incoming == [n \in Nodes |-> {e \in Edges : e.to = n}]

(* compute_next_runnables, less the nodes whose rows exist already (for an *)
(* end node it is the caller that looks).                                  *)
compute_next_runnables(T) ==
    LET ctx == refresh_ctx(T)
        view == [n \in Nodes |-> NodeView(T, n)]
        seen == [n \in Nodes |-> IF ctx[n] = "none" THEN view[n] ELSE ctx[n]]
        done == {n \in Nodes : view[n] \in TERMINAL_STATUSES}
        hit == {e \in Edges : e.from \in done /\ EdgeHit(e, view, seen)}
    IN  {n \in Nodes :
            /\ NodeType[n] # "start"
            /\ NodeType[n] # "end" => RowsOf(T, n) = {}
            /\ \/ Incoming[n] = {}
               \/ /\ \A e \in Incoming[n] : e.from \in done
                  /\ Incoming[n] \cap hit # {}}

(* _prep_node_rows: one row per host; a node that requires a host and has  *)
(* none gets one FAILED row (E0301).                                       *)
PrepIds(n) == {<<n, h, 1, 0>> : h \in HostsOf[n]}

PrepRow(n) ==
    CASE NodeType[n] \in {"start", "end"} -> [NoRow EXCEPT !.st = "SUCCESS"]
      [] n \in Placeholder /\ NodeType[n] \notin {"start", "end"} ->
             [NoRow EXCEPT !.st = "FAILED", !.err = "final"]
      [] OTHER -> [NoRow EXCEPT !.st = "PENDING"]

prep_node_rows(T, N) ==
    [r \in RowIds |->
        IF r[1] \in N /\ r \in PrepIds(r[1]) THEN PrepRow(r[1]) ELSE T[r]]

(* _mark_ineligible_nodes_skipped.  ctx is the status table of the tick;   *)
(* the edges are judged once, before the pass, and a node the pass skips   *)
(* counts as terminal for the nodes after it in topological order.  On an  *)
(* acyclic graph the set of skipped nodes is the fixpoint below.           *)
Ineligible(T, ctx) ==
    LET hit == {e \in Edges : EdgeHit(e, ctx, ctx)}
    IN  {n \in Business :
            RowsOf(T, n) = {} /\ Incoming[n] # {} /\ Incoming[n] \cap hit = {}}

(* A slip: the pass is left out.                                           *)
mark_ineligible_nodes_skipped_Never(T, ctx) == {}

mark_ineligible_nodes_skipped(T, ctx) ==
    LET done == {n \in Nodes : ctx[n] \in TERMINAL_STATUSES}
    IN  UNION {S \in SUBSET Ineligible(T, ctx) :
                  \A n \in S : \A e \in Incoming[n] : e.from \in done \cup S}

insert_skipped(T, N) ==
    [r \in RowIds |->
        IF r[1] \in N /\ r \in PrepIds(r[1]) THEN [NoRow EXCEPT !.st = "SKIPPED"]
        ELSE T[r]]

(* Slips: rows that are not finished are not looked at; FAILED rows are    *)
(* not looked at.                                                          *)
finalize_workflow_if_done_Early(T) ==
    IF \E n \in Business : RowsOf(T, n) = {} THEN "running"
    ELSE IF \E r \in RowIds : T[r].st = "CANCELLED" THEN "cancelled"
    ELSE IF \E r \in RowIds : T[r].st = "FAILED" THEN "failed" ELSE "success"

finalize_workflow_if_done_NoFailed(T) ==
    IF \/ \E n \in Business : RowsOf(T, n) = {}
       \/ \E r \in RowIds : Exists(T, r) /\ ~Terminal(T, r)
    THEN "running"
    ELSE IF \E r \in RowIds : T[r].st = "CANCELLED" THEN "cancelled" ELSE "success"

(* _finalize_workflow_if_done: the execution's final status, or "running". *)
finalize_workflow_if_done(T) ==
    LET rows == {r \in RowIds : r[1] \in Business /\ Exists(T, r)}
        has(s) == \E r \in rows : T[r].st = s
    IN  IF \/ \E n \in Business : RowsOf(T, n) = {}
           \/ \E r \in rows : ~Terminal(T, r)
        THEN "running"
        ELSE IF has("CANCELLED") THEN "cancelled"
        ELSE IF has("FAILED") THEN "failed" ELSE "success"

=============================================================================
