--------------------- MODULE WorkflowRunnerSerialProofs ---------------------
(***************************************************************************)
(* Theorems about WorkflowRunner when the scheduler daemon is its only     *)
(* caller: no view, callback or user operation writes the execution's rows *)
(* beside it.  Jobs may time out, nodes may time out (E4402), and the      *)
(* daemon may crash at any step.                                           *)
(***************************************************************************)
EXTENDS WorkflowRunnerProofs

OneDaemon ==
    /\ \E t \in Wrapped : Tickers = {t}
    /\ Env \subseteq {"E4402", "job_timeout", "crash"}

(* A row whose status is final: terminal, and if it is a loop's own row,   *)
(* aggregated.                                                             *)
Settled(T, r) ==
    /\ Terminal(T, r)
    /\ ~(NodeType[r[1]] = "loop" /\ r[4] = 0 /\ T[r].mark # "agg")

(* Only rows with an adapter run: no loop's own row, and start and end     *)
(* rows are inserted finished.                                             *)
Orderly(T) ==
    \A r \in RowIds :
        /\ T[r].st = "RUNNING" => T[r].mark = "-" /\ ~(NodeType[r[1]] = "loop" /\ r[4] = 0)
        /\ NodeType[r[1]] \in {"start", "end"} => T[r].st \in {"none", "SUCCESS"}

(* LoopVerdict, of any table and whatever the execution's status.          *)
Judged(T) ==
    \A r \in RowIds : T[r].mark = "agg" =>
        /\ r[4] = 0 /\ T[r].st \in {"SUCCESS", "FAILED"}
        /\ \A q \in ChildrenOf(T, r[1]) : Terminal(T, q)
        /\ T[r].st = "FAILED" <=> \E q \in ChildrenOf(T, r[1]) : T[q].st = "FAILED"

(* Only fail_fast cancels rows, and a cancelled row has no unfinished row  *)
(* of its node beside it.                                                  *)
Together(T) ==
    \A r \in RowIds : r[4] = 0 /\ T[r].st = "CANCELLED" =>
        /\ ExecFailStrategy = "fail_fast"
        /\ \A q \in RowsOf(T, r[1]) : Terminal(T, q)

(* Table U comes after T: finished rows stay finished, settled rows stand  *)
(* as they are, and so do RUNNING rows that are not in X.                  *)
Follows(U, T, X) ==
    \A r \in RowIds :
        /\ Terminal(T, r) => Terminal(U, r)
        /\ Settled(T, r) \/ (T[r].st = "RUNNING" /\ r \notin X) => U[r] = T[r]

-----------------------------------------------------------------------------
(* Rows of a node.                                                         *)

LEMMA ChildRow ==
    \A T : \A n \in Nodes : \A q : q \in ChildrenOf(T, n) <=>
        q \in RowIds /\ q[1] = n /\ q[4] # 0 /\ T[q].st # "none"
  BY DEF ChildrenOf, ItemRows, Exists

LEMMA ItemNumber == \A r \in RowIds : r[4] # 0 => r[4] > 0
  BY RowShape

LEMMA OwnRow ==
    \A T : \A n \in Nodes : \A q : q \in RowsOf(T, n) <=>
        q \in RowIds /\ q[1] = n /\ q[4] = 0 /\ T[q].st # "none"
  BY DEF RowsOf, OwnRows, Exists

LEMMA PrepRows ==
    ASSUME NEW N \in SUBSET Nodes, NEW r \in RowIds
    PROVE  r \in Prep(N) <=> r[1] \in N /\ r \in PrepIds(r[1])
  BY DEF Prep, PrepIds

LEMMA PrepFresh ==
    ASSUME NEW T, NEW N \in SUBSET Nodes, \A n \in N : RowsOf(T, n) = {}
    PROVE  \A r \in Prep(N) : r \in RowIds /\ r \notin Rows(T)
<1> SUFFICES ASSUME NEW r \in Prep(N) PROVE r \in RowIds /\ r \notin Rows(T)
  OBVIOUS
<1>1. r \in RowIds
  BY PrepIdsAreRows DEF Prep
<1>2. r[1] \in N /\ r[4] = 0
  BY PrepNode
<1>3. T[r].st = "none"
  BY <1>1, <1>2, OwnRow
<1> QED
  BY <1>1, <1>3 DEF Rows, Exists

LEMMA FollowsTrans ==
    ASSUME NEW T, NEW U, NEW V, NEW X, NEW Y, Follows(U, T, X), Follows(V, U, Y)
    PROVE  Follows(V, T, X \cup Y)
<1> SUFFICES ASSUME NEW r \in RowIds
            PROVE  /\ Terminal(T, r) => Terminal(V, r)
                   /\ Settled(T, r) \/ (T[r].st = "RUNNING" /\ r \notin X \cup Y) => V[r] = T[r]
  BY DEF Follows
<1>1. ASSUME Settled(T, r) \/ (T[r].st = "RUNNING" /\ r \notin X \cup Y)
      PROVE  V[r] = T[r]
  <2>1. U[r] = T[r]
    BY <1>1 DEF Follows
  <2>2. Settled(U, r) \/ (U[r].st = "RUNNING" /\ r \notin Y)
    BY <1>1, <2>1 DEF Settled, Terminal
  <2> QED
    BY <2>1, <2>2 DEF Follows
<1> QED
  BY <1>1 DEF Follows

(* The verdicts stand when no row is newly aggregated and the children of  *)
(* a node with an aggregated row are left alone.                           *)
LEMMA JudgedKept ==
    ASSUME NEW T, NEW U, Judged(T),
           \A r \in RowIds : U[r].mark = "agg" => U[r] = T[r],
           \A q, r \in RowIds :
              T[q].mark = "agg" /\ q[1] = r[1] /\ r[4] # 0 => U[r] = T[r]
    PROVE  Judged(U)
<1> SUFFICES ASSUME NEW r \in RowIds, U[r].mark = "agg"
            PROVE  /\ r[4] = 0 /\ U[r].st \in {"SUCCESS", "FAILED"}
                   /\ \A q \in ChildrenOf(U, r[1]) : Terminal(U, q)
                   /\ U[r].st = "FAILED" <=> \E q \in ChildrenOf(U, r[1]) : U[q].st = "FAILED"
  BY DEF Judged
<1>1. U[r] = T[r] /\ T[r].mark = "agg" /\ r[1] \in Nodes
  BY RowNode
<1>2. \A q \in RowIds : q[1] = r[1] /\ q[4] # 0 => U[q] = T[q]
  BY <1>1
<1>3. \A q : q \in ChildrenOf(U, r[1]) <=> q \in ChildrenOf(T, r[1])
  BY <1>1, <1>2, ChildRow
<1>4. \A q \in ChildrenOf(T, r[1]) : U[q] = T[q]
  BY <1>1, <1>2, ChildRow
<1>5. /\ r[4] = 0 /\ T[r].st \in {"SUCCESS", "FAILED"}
      /\ \A q \in ChildrenOf(T, r[1]) : Terminal(T, q)
      /\ T[r].st = "FAILED" <=> \E q \in ChildrenOf(T, r[1]) : T[q].st = "FAILED"
  BY <1>1 DEF Judged
<1> QED
  BY <1>1, <1>3, <1>4, <1>5 DEF Terminal

(* A child of a node with an aggregated row is finished.                   *)
LEMMA JudgedChildren ==
    ASSUME NEW T, Judged(T), NEW q \in RowIds, T[q].mark = "agg",
           NEW r \in RowIds, q[1] = r[1], r[4] # 0
    PROVE  T[r].st = "none" \/ Terminal(T, r)
<1>1. r \in ChildrenOf(T, q[1]) \/ T[r].st = "none"
  BY ChildRow, RowNode
<1> QED
  BY <1>1 DEF Judged

-----------------------------------------------------------------------------
(* The stages of a tick, once more: each keeps a table in order.           *)

LEMMA InsertKeeps ==
    ASSUME NEW T \in Tables, Orderly(T), Judged(T), NEW K
    PROVE  LET R == retry_failed_rows(T, K)
               U == InsertPending(T, R)
           IN  R \cap Rows(T) = {} =>
                  /\ Orderly(U) /\ Judged(U) /\ Follows(U, T, {})
                  /\ \A r \in RowIds : U[r].mark = "child" => T[r].mark = "child"
<1> DEFINE R == retry_failed_rows(T, K)
           U == InsertPending(T, R)
<1> SUFFICES ASSUME R \cap Rows(T) = {}
            PROVE  /\ Orderly(U) /\ Judged(U) /\ Follows(U, T, {})
                   /\ \A r \in RowIds : U[r].mark = "child" => T[r].mark = "child"
  OBVIOUS
<1>1. \A r \in RowIds : U[r] = IF r \in R THEN [NoRow EXCEPT !.st = "PENDING"] ELSE T[r]
  BY DEF InsertPending
<1>2. [NoRow EXCEPT !.st = "PENDING"].st = "PENDING" /\ [NoRow EXCEPT !.st = "PENDING"].mark = "-"
  BY DEF NoRow
<1>3. \A r \in R : r[4] = 0 /\ NodeType[r[1]] \notin {"start", "end"}
  <2> SUFFICES ASSUME NEW r \in R PROVE r[4] = 0 /\ NodeType[r[1]] \notin {"start", "end"}
    OBVIOUS
  <2>1. PICK q \in RowIds : /\ q[4] = 0 /\ T[q].st = "FAILED"
                            /\ r = <<q[1], q[2], q[3] + 1, 0>>
    BY DEF retry_failed_rows
  <2> QED
    BY <2>1 DEF Orderly
<1>4. \A r \in R \cap RowIds : T[r].st = "none"
  BY DEF Rows, Exists
<1> HIDE DEF R, U
<1>5. Orderly(U)
  BY <1>1, <1>2, <1>3 DEF Orderly
<1>6. Follows(U, T, {})
  BY <1>1, <1>4 DEF Follows, Settled, Terminal, TERMINAL_STATUSES
<1>7. Judged(U)
  <2>1. \A r \in RowIds : U[r].mark = "agg" => U[r] = T[r]
    BY <1>1, <1>2
  <2>2. \A r \in RowIds : r[4] # 0 => U[r] = T[r]
    BY <1>1, <1>3
  <2> QED
    BY <2>1, <2>2, JudgedKept
<1>8. \A r \in RowIds : U[r].mark = "child" => T[r].mark = "child"
  BY <1>1, <1>2
<1> QED
  BY <1>5, <1>6, <1>7, <1>8

LEMMA CancelKeeps ==
    ASSUME NEW T \in Tables, Orderly(T), Judged(T), NEW cur, NEW R \in SUBSET Unfinished(T),
           \A r \in RowIds : cur[r] = T[r]
    PROVE  LET U == apply_fail_fast_cancel(T, cur, R)
           IN  /\ Orderly(U) /\ Judged(U) /\ Follows(U, T, R)
               /\ \A r \in RowIds : U[r].mark = "child" => T[r].mark = "child"
<1> DEFINE U == apply_fail_fast_cancel(T, cur, R)
<1>1. \A r \in RowIds : U[r] = IF r \in R THEN [T[r] EXCEPT !.st = "CANCELLED"] ELSE T[r]
  BY DEF apply_fail_fast_cancel
<1>2. \A r \in RowIds : /\ [T[r] EXCEPT !.st = "CANCELLED"].st = "CANCELLED"
                        /\ [T[r] EXCEPT !.st = "CANCELLED"].mark = T[r].mark
  BY DEF Tables, Row
<1>3. \A r \in R : r \in RowIds /\ T[r].st \in {"PENDING", "RUNNING"}
  BY DEF Unfinished
<1> HIDE DEF U
<1>4. Orderly(U)
  BY <1>1, <1>2, <1>3 DEF Orderly
<1>5. Follows(U, T, R)
  BY <1>1, <1>3 DEF Follows, Settled, Terminal, TERMINAL_STATUSES
<1>6. Judged(U)
  <2>1. \A r \in RowIds : U[r].mark = "agg" => U[r] = T[r]
    <3>1. \A r \in RowIds : T[r].mark = "agg" => r \notin R
      BY <1>3 DEF Judged
    <3> QED
      BY <1>1, <1>2, <3>1
  <2>2. ASSUME NEW q \in RowIds, NEW r \in RowIds, T[q].mark = "agg", q[1] = r[1], r[4] # 0
        PROVE  U[r] = T[r]
    <3>1. r \notin R
      BY <1>3, <2>2, JudgedChildren DEF Terminal, TERMINAL_STATUSES
    <3> QED
      BY <1>1, <3>1
  <2> QED
    BY <2>1, <2>2, JudgedKept
<1>7. \A r \in RowIds : U[r].mark = "child" => T[r].mark = "child"
  BY <1>1, <1>2
<1> QED
  BY <1>4, <1>5, <1>6, <1>7 DEF U

LEMMA AggregateKeeps ==
    ASSUME NEW T \in Tables, Orderly(T), Judged(T)
    PROVE  LET U == aggregate_loop_children(T)
           IN  /\ Orderly(U) /\ Judged(U) /\ Follows(U, T, {})
               /\ \A r \in RowIds : U[r].mark = "child" => T[r].mark = "child"
<1> DEFINE U == aggregate_loop_children(T)
           some(r) == \E c \in ChildrenOf(T, r[1]) : T[c].st = "FAILED"
<1>1. \A r \in RowIds : r \notin ToAggregate(T) => U[r] = T[r]
  BY DEF aggregate_loop_children
<1>2. \A r \in ToAggregate(T) : /\ U[r].mark = "agg" /\ U[r].st \in {"SUCCESS", "FAILED"}
                                /\ U[r].st = "FAILED" <=> some(r)
  <2>1. \A r \in ToAggregate(T) :
           /\ some(r) => U[r] = [st |-> "FAILED", err |-> "final", mark |-> "agg"]
           /\ ~some(r) => U[r] = [st |-> "SUCCESS", err |-> "-", mark |-> "agg"]
    BY DEF aggregate_loop_children, ToAggregate
  <2> HIDE DEF some, U
  <2> QED
    BY <2>1
<1>3. \A r \in ToAggregate(T) :
         /\ r \in RowIds /\ r[4] = 0 /\ NodeType[r[1]] = "loop" /\ T[r].mark # "agg"
         /\ \A c \in ChildrenOf(T, r[1]) : Terminal(T, c)
  BY DEF ToAggregate
<1> HIDE DEF U
<1>4. Orderly(U)
  BY <1>1, <1>2, <1>3 DEF Orderly
<1>5. Follows(U, T, {})
  <2>1. \A r \in ToAggregate(T) : ~Settled(T, r) /\ T[r].st # "RUNNING" /\ Terminal(U, r)
    BY <1>2, <1>3 DEF Settled, Orderly, Terminal, TERMINAL_STATUSES
  <2>2. \A r \in RowIds : r \notin ToAggregate(T) /\ Terminal(T, r) => Terminal(U, r)
    BY <1>1 DEF Terminal
  <2> QED
    BY <1>1, <2>1, <2>2 DEF Follows
<1>6. Judged(U)
  <2> SUFFICES ASSUME NEW r \in RowIds, U[r].mark = "agg"
              PROVE  /\ r[4] = 0 /\ U[r].st \in {"SUCCESS", "FAILED"}
                     /\ \A q \in ChildrenOf(U, r[1]) : Terminal(U, q)
                     /\ U[r].st = "FAILED" <=> \E q \in ChildrenOf(U, r[1]) : U[q].st = "FAILED"
    BY DEF Judged
  <2>1. /\ \A q : q \in ChildrenOf(U, r[1]) <=> q \in ChildrenOf(T, r[1])
        /\ \A q \in ChildrenOf(T, r[1]) : U[q] = T[q]
    BY <1>1, <1>3, ChildRow, RowNode
  <2>2. CASE r \in ToAggregate(T)
    BY <1>2, <1>3, <2>1, <2>2 DEF Terminal
  <2>3. CASE r \notin ToAggregate(T)
    <3>1. U[r] = T[r]
      BY <1>1, <2>3
    <3>2. /\ r[4] = 0 /\ T[r].st \in {"SUCCESS", "FAILED"}
          /\ \A q \in ChildrenOf(T, r[1]) : Terminal(T, q)
          /\ T[r].st = "FAILED" <=> \E q \in ChildrenOf(T, r[1]) : T[q].st = "FAILED"
      BY <3>1 DEF Judged
    <3> QED
      BY <2>1, <3>1, <3>2 DEF Terminal
  <2> QED
    BY <2>2, <2>3
<1>7. \A r \in RowIds : U[r].mark = "child" => T[r].mark = "child"
  BY <1>1, <1>2
<1> QED
  BY <1>4, <1>5, <1>6, <1>7 DEF U

(* The rows inserted for nodes that have none: prepared, or skipped.       *)
LEMMA NewRowsKeep ==
    ASSUME NEW T \in Tables, Orderly(T), Judged(T), NEW N \in SUBSET Nodes,
           \A n \in N : RowsOf(T, n) = {}, NEW U,
           \A r \in RowIds : \/ r \notin Prep(N) /\ U[r] = T[r]
                             \/ /\ r \in Prep(N) /\ U[r].mark = "-" /\ U[r].st # "RUNNING"
                                /\ NodeType[r[1]] \in {"start", "end"} => U[r].st = "SUCCESS"
    PROVE  /\ Orderly(U) /\ Judged(U) /\ Follows(U, T, {})
           /\ \A r \in RowIds : U[r].mark = "child" => T[r].mark = "child"
<1>1. \A r \in Prep(N) : r[1] \in N /\ r[4] = 0
  BY PrepNode
<1>2. \A r \in RowIds : r \in Prep(N) => T[r].st = "none"
  BY <1>1, OwnRow
<1>3. Orderly(U)
  BY DEF Orderly
<1>4. Follows(U, T, {})
  BY <1>2 DEF Follows, Settled, Terminal, TERMINAL_STATUSES
<1>5. Judged(U)
  <2>1. \A r \in RowIds : U[r].mark = "agg" => U[r] = T[r]
    OBVIOUS
  <2>2. \A r \in RowIds : r[4] # 0 => U[r] = T[r]
    BY <1>1
  <2> QED
    BY <2>1, <2>2, JudgedKept
<1> QED
  BY <1>3, <1>4, <1>5

LEMMA PrepKeeps ==
    ASSUME NEW T \in Tables, Orderly(T), Judged(T), NEW N \in SUBSET Nodes,
           \A n \in N : RowsOf(T, n) = {}
    PROVE  LET U == prep_node_rows(T, N)
           IN  /\ Orderly(U) /\ Judged(U) /\ Follows(U, T, {})
               /\ \A r \in RowIds : U[r].mark = "child" => T[r].mark = "child"
               /\ \A r \in RowIds : IF r \in Prep(N) THEN U[r].mark = "-" ELSE U[r] = T[r]
<1> DEFINE U == prep_node_rows(T, N)
<1>1. \A r \in RowIds : U[r] = IF r \in Prep(N) THEN PrepRow(r[1]) ELSE T[r]
  BY PrepRows DEF prep_node_rows
<1>2. \A n \in Nodes : NodeType[n] \in {"start", "end"} => PrepRow(n).st = "SUCCESS"
  BY DEF PrepRow, NoRow
<1> HIDE DEF U
<1>3. \A r \in RowIds : \/ r \notin Prep(N) /\ U[r] = T[r]
                        \/ /\ r \in Prep(N) /\ U[r].mark = "-" /\ U[r].st # "RUNNING"
                           /\ NodeType[r[1]] \in {"start", "end"} => U[r].st = "SUCCESS"
  BY <1>1, <1>2, RowTypes, RowNode
<1>4. \A r \in RowIds : IF r \in Prep(N) THEN U[r].mark = "-" ELSE U[r] = T[r]
  BY <1>3
<1> QED
  BY <1>3, <1>4, NewRowsKeep DEF U

LEMMA SkipKeeps ==
    ASSUME NEW T \in Tables, Orderly(T), Judged(T), NEW N \in SUBSET Business,
           \A n \in N : RowsOf(T, n) = {}
    PROVE  LET U == insert_skipped(T, N)
           IN  /\ Orderly(U) /\ Judged(U) /\ Follows(U, T, {})
               /\ \A r \in RowIds : U[r].mark = "child" => T[r].mark = "child"
               /\ \A r \in RowIds : r \in Prep(N) \/ U[r] = T[r]
<1> DEFINE U == insert_skipped(T, N)
<1>1. N \in SUBSET Nodes /\ \A n \in N : NodeType[n] \notin {"start", "end"}
  BY DEF Business
<1>2. \A r \in RowIds : U[r] = IF r \in Prep(N) THEN [NoRow EXCEPT !.st = "SKIPPED"] ELSE T[r]
  BY <1>1, PrepRows DEF insert_skipped
<1>3. [NoRow EXCEPT !.st = "SKIPPED"].st = "SKIPPED" /\ [NoRow EXCEPT !.st = "SKIPPED"].mark = "-"
  BY DEF NoRow
<1> HIDE DEF U
<1>4. \A r \in RowIds : \/ r \notin Prep(N) /\ U[r] = T[r]
                        \/ /\ r \in Prep(N) /\ U[r].mark = "-" /\ U[r].st # "RUNNING"
                           /\ NodeType[r[1]] \in {"start", "end"} => U[r].st = "SUCCESS"
  BY <1>1, <1>2, <1>3, PrepNode
<1>5. \A r \in RowIds : r \in Prep(N) \/ U[r] = T[r]
  BY <1>4
<1> QED
  BY <1>1, <1>4, <1>5, NewRowsKeep DEF U

(* The rows handed to _dispatch_pending: N are the nodes whose rows the    *)
(* tick has created, and the others are children of loops.                 *)
LEMMA DispatchKeeps ==
    ASSUME NEW T \in Tables, Orderly(T), Judged(T), NEW N \in SUBSET Nodes,
           NEW C \in SUBSET RowIds, NEW o \in DispatchChoices(C),
           \A r \in C : T[r].st = "PENDING" /\ (r \in Prep(N) \/ r[4] # 0),
           \A r \in RowIds : r[1] \in N /\ r[4] = 0 =>
               IF r \in Prep(N) THEN T[r].mark = "-" ELSE T[r].st = "none",
           \A r \in Expanded(o) : T[r].st = "none"
    PROVE  LET U == dispatch_pending(T, o)
           IN  /\ Orderly(U) /\ Judged(U) /\ Follows(U, T, {})
               /\ \A r \in C : U[r].mark = "-" /\ (o[r] = "async" => U[r].st = "RUNNING")
               /\ \A r \in RowIds : U[r].mark = "child" => T[r].mark = "child" \/ T[r].st = "none"
<1> DEFINE U == dispatch_pending(T, o)
           child == [NoRow EXCEPT !.st = "PENDING", !.mark = "child"]
<1>1. o \in [C -> DispatchOutcomes]
      /\ \A r \in C : NodeType[r[1]] = "loop" /\ r[4] = 0 => o[r] # "async"
  BY DEF DispatchChoices
<1>2. \A r \in RowIds : U[r] =
         IF r \in C THEN AfterDispatch(o[r]) ELSE IF r \in Expanded(o) THEN child ELSE T[r]
  BY <1>1 DEF dispatch_pending
<1>3. child.st = "PENDING" /\ child.mark = "child"
  BY DEF NoRow
<1>4. \A r \in C : /\ AfterDispatch(o[r]).mark = "-"
                   /\ AfterDispatch(o[r]).st = "RUNNING" <=> o[r] = "async"
  <2>1. AfterDispatch("async").st = "RUNNING"
    BY DEF AfterDispatch, NoRow
  <2>2. \A r \in C : o[r] \in DispatchOutcomes
    BY <1>1
  <2> QED
    BY <2>1, <2>2, RowTypes
<1>5. \A r \in Expanded(o) : /\ r \in RowIds /\ r[4] # 0 /\ NodeType[r[1]] = "loop"
                             /\ <<r[1], r[2], 1, 0>> \in C
  BY ChildParent DEF Expanded
<1> HIDE DEF U, child
<1>6. Orderly(U)
  <2>1. \A r \in C : NodeType[r[1]] \notin {"start", "end"}
    BY DEF Orderly
  <2>2. ASSUME NEW r \in RowIds
        PROVE  /\ U[r].st = "RUNNING" => U[r].mark = "-" /\ ~(NodeType[r[1]] = "loop" /\ r[4] = 0)
               /\ NodeType[r[1]] \in {"start", "end"} => U[r].st \in {"none", "SUCCESS"}
    <3>1. CASE r \in C
      BY <1>1, <1>2, <1>4, <2>1, <3>1
    <3>2. CASE r \notin C /\ r \in Expanded(o)
      BY <1>2, <1>3, <1>5, <3>2
    <3>3. CASE r \notin C /\ r \notin Expanded(o)
      BY <1>2, <3>3 DEF Orderly
    <3> QED
      BY <3>1, <3>2, <3>3
  <2> QED
    BY <2>2 DEF Orderly
<1>7. Follows(U, T, {})
  BY <1>2 DEF Follows, Settled, Terminal, TERMINAL_STATUSES
<1>8. Judged(U)
  <2>1. \A r \in RowIds : U[r].mark = "agg" => U[r] = T[r]
    BY <1>2, <1>3, <1>4
  <2>2. ASSUME NEW q \in RowIds, NEW r \in RowIds, T[q].mark = "agg", q[1] = r[1], r[4] # 0
        PROVE  U[r] = T[r]
    <3>1. r \notin C
      BY <2>2, JudgedChildren DEF Terminal, TERMINAL_STATUSES
    <3>2. q[4] = 0 /\ T[q].st # "none"
      BY <2>2 DEF Judged
    <3>3. ASSUME r \in Expanded(o) PROVE FALSE
      <4>1. <<r[1], r[2], 1, 0>> \in Prep(N)
        BY <1>5, <3>3
      <4>2. q[1] \in N
        BY <2>2, <4>1, PrepNode
      <4> QED
        BY <2>2, <3>2, <4>2
    <3> QED
      BY <1>2, <3>1, <3>3
  <2> QED
    BY <2>1, <2>2, JudgedKept
<1>9. \A r \in C : U[r].mark = "-" /\ (o[r] = "async" => U[r].st = "RUNNING")
  BY <1>2, <1>4
<1>10. \A r \in RowIds : U[r].mark = "child" => T[r].mark = "child" \/ T[r].st = "none"
  BY <1>2, <1>3, <1>4
<1> QED
  BY <1>6, <1>7, <1>8, <1>9, <1>10 DEF U

-----------------------------------------------------------------------------
(* The same stages, and cancelled rows.                                    *)

LEMMA TogetherKept ==
    ASSUME NEW T, NEW U, NEW X, Together(T), Follows(U, T, X),
           \A r \in RowIds : r[4] = 0 /\ U[r].st = "CANCELLED" =>
              /\ T[r].st = "CANCELLED"
              /\ \A q \in RowIds : q[1] = r[1] /\ q[4] = 0 /\ U[q].st # "none" => T[q].st # "none"
    PROVE  Together(U)
<1> SUFFICES ASSUME NEW r \in RowIds, r[4] = 0, U[r].st = "CANCELLED", NEW q \in RowsOf(U, r[1])
            PROVE  ExecFailStrategy = "fail_fast" /\ Terminal(U, q)
  <2>1. ASSUME NEW r \in RowIds, r[4] = 0, U[r].st = "CANCELLED"
        PROVE  ExecFailStrategy = "fail_fast"
    BY <2>1 DEF Together
  <2> QED
    BY <2>1 DEF Together
<1>1. r[1] \in Nodes /\ q \in RowIds /\ q[1] = r[1] /\ q[4] = 0 /\ U[q].st # "none"
  BY RowNode, OwnRow
<1>2. q \in RowsOf(T, r[1]) /\ T[r].st = "CANCELLED"
  BY <1>1, OwnRow
<1> QED
  BY <1>1, <1>2 DEF Together, Follows

LEMMA CancelTogether ==
    ASSUME NEW T \in Tables, NEW cur, \A r \in RowIds : cur[r] = T[r], NEW R,
           \/ R = {} /\ Together(T)
           \/ R = Unfinished(T) /\ ExecFailStrategy = "fail_fast"
    PROVE  Together(apply_fail_fast_cancel(T, cur, R))
<1> DEFINE U == apply_fail_fast_cancel(T, cur, R)
<1>1. \A r \in RowIds : U[r] = IF r \in R THEN [T[r] EXCEPT !.st = "CANCELLED"] ELSE T[r]
  BY DEF apply_fail_fast_cancel
<1>2. \A r \in RowIds : T[r].st \in Statuses \cup {"none"}
                        /\ [T[r] EXCEPT !.st = "CANCELLED"].st = "CANCELLED"
  BY DEF Tables, Row
<1> HIDE DEF U
<1>3. CASE R = {} /\ Together(T)
  <2>1. \A r \in RowIds : U[r] = T[r]
    BY <1>1, <1>3
  <2>2. Follows(U, T, {})
    BY <2>1 DEF Follows, Terminal
  <2> QED
    BY <1>3, <2>1, <2>2, TogetherKept DEF U
<1>4. CASE R = Unfinished(T) /\ ExecFailStrategy = "fail_fast"
  <2>1. \A r \in RowIds : U[r].st = "none" \/ Terminal(U, r)
    BY <1>1, <1>2, <1>4 DEF Unfinished, Terminal, TERMINAL_STATUSES, Statuses
  <2>2. Together(U)
    BY <1>4, <2>1, OwnRow, RowNode DEF Together
  <2> QED
    BY <2>2 DEF U
<1> QED
  BY <1>3, <1>4

LEMMA AggregateTogether ==
    ASSUME NEW T \in Tables, Orderly(T), Judged(T), Together(T)
    PROVE  Together(aggregate_loop_children(T))
<1> DEFINE U == aggregate_loop_children(T)
<1>1. \A r \in RowIds : U[r] = T[r] \/ (U[r].st \in {"SUCCESS", "FAILED"} /\ T[r].st # "none")
  <2>1. \A r \in RowIds : r \notin ToAggregate(T) => U[r] = T[r]
    BY DEF aggregate_loop_children
  <2>2. \A r \in ToAggregate(T) : /\ U[r] \in {[st |-> "FAILED", err |-> "final", mark |-> "agg"],
                                               [st |-> "SUCCESS", err |-> "-", mark |-> "agg"]}
                                  /\ T[r].st # "none"
    BY DEF aggregate_loop_children, ToAggregate, Exists
  <2> HIDE DEF U
  <2>3. \A r \in ToAggregate(T) : U[r].st \in {"SUCCESS", "FAILED"} /\ T[r].st # "none"
    BY <2>2
  <2> QED
    BY <2>1, <2>3
<1>2. Follows(U, T, {})
  BY AggregateKeeps
<1> HIDE DEF U
<1> QED
  BY <1>1, <1>2, TogetherKept DEF U

LEMMA NewRowsTogether ==
    ASSUME NEW T, NEW U, Together(T), NEW N \in SUBSET Nodes, \A n \in N : RowsOf(T, n) = {},
           \A r \in RowIds : \/ r \notin Prep(N) /\ U[r] = T[r]
                             \/ r \in Prep(N) /\ U[r].st # "CANCELLED",
           Follows(U, T, {})
    PROVE  Together(U)
<1>1. ASSUME NEW r \in RowIds, r[4] = 0, U[r].st = "CANCELLED"
      PROVE  /\ T[r].st = "CANCELLED"
             /\ \A q \in RowIds : q[1] = r[1] /\ q[4] = 0 /\ U[q].st # "none" => T[q].st # "none"
  <2>1. T[r].st = "CANCELLED" /\ r[1] \notin N
    BY <1>1, OwnRow, RowNode
  <2> QED
    BY <2>1, PrepNode
<1> QED
  BY <1>1, TogetherKept

LEMMA DispatchTogether ==
    ASSUME NEW T \in Tables, Together(T), NEW C \in SUBSET RowIds, NEW o \in DispatchChoices(C),
           \A r \in C : T[r].st = "PENDING",
           Follows(dispatch_pending(T, o), T, {})
    PROVE  Together(dispatch_pending(T, o))
<1> DEFINE U == dispatch_pending(T, o)
           child == [NoRow EXCEPT !.st = "PENDING", !.mark = "child"]
<1>1. o \in [C -> DispatchOutcomes]
  BY DEF DispatchChoices
<1>2. \A r \in RowIds : U[r] =
         IF r \in C THEN AfterDispatch(o[r]) ELSE IF r \in Expanded(o) THEN child ELSE T[r]
  BY <1>1 DEF dispatch_pending
<1>3. \A x \in DispatchOutcomes : AfterDispatch(x).st # "CANCELLED"
  BY DEF AfterDispatch, NoRow, DispatchOutcomes, transition_status, ValidTransitions, Statuses
<1>4. \A r \in Expanded(o) : r[4] # 0
  BY DEF Expanded
<1>5. \A r \in RowIds : r[4] = 0 => \/ U[r] = T[r]
                                    \/ U[r].st # "CANCELLED" /\ T[r].st = "PENDING"
  BY <1>1, <1>2, <1>3, <1>4
<1> HIDE DEF U
<1>6. ASSUME NEW r \in RowIds, r[4] = 0, U[r].st = "CANCELLED"
      PROVE  /\ T[r].st = "CANCELLED"
             /\ \A q \in RowIds : q[1] = r[1] /\ q[4] = 0 /\ U[q].st # "none" => T[q].st # "none"
  BY <1>5, <1>6
<1> QED
  BY <1>6, TogetherKept DEF U

-----------------------------------------------------------------------------
(* The inductive invariant.  What a lone daemon keeps it keeps because its *)
(* snapshot never grows stale: off the rows it has polled, which are still *)
(* RUNNING in the database and whose jobs have ended or are told to stop   *)
(* with its commit, the open transaction sees the database as it is.       *)

Alone ==
    /\ \A r \in RowIds : callback[r] = "-"
    /\ \A t \in Tickers :
        /\ pc[t] # "idle" => exec = "running"
        /\ pc[t] \in {"idle", "load"} => wrote[t] = {}
        /\ pc[t] \in {"poll", "tx"} => \A r \in RowIds \ wrote[t] : view[t][r] = db[r]
        /\ snap[t] \subseteq Running(db) \ wrote[t]
        /\ aborts[t] \subseteq wrote[t]
        /\ \A r \in wrote[t] :
              /\ db[r].st = "RUNNING" /\ (job[r] = "active" => r \in aborts[t])
              /\ view[t][r].mark = db[r].mark
              /\ view[t][r].st \in {"SUCCESS", "FAILED", "CANCELLED"}

SInv == IInv /\ Alone /\ Orderly(db) /\ Judged(db) /\ JobsAccountedFor /\ HonestResult

LEMMA RetryAttempt ==
    ASSUME NEW T, NEW K, NEW r \in retry_failed_rows(T, K)
    PROVE  r[3] # 1
<1>1. PICK q \in RowIds : r = <<q[1], q[2], q[3] + 1, 0>>
  BY DEF retry_failed_rows
<1>2. PICK n \in Nodes : q \in OwnIds(n) \cup ItemIds(n)
  BY DEF RowIds
<1>3. q[3] \in Nat /\ q[3] >= 1
  BY <1>2, GraphAssumption DEF OwnIds, ItemIds, Attempts
<1> QED
  BY <1>1, <1>3

(* What the open transaction of the daemon sees.                           *)
LEMMA LoneView ==
    ASSUME IInv, Alone, Orderly(db), Judged(db), NEW t \in Tickers, pc[t] = "tx"
    PROVE  /\ view[t] \in Tables /\ Orderly(view[t]) /\ Judged(view[t])
           /\ Rows(view[t]) = Rows(db)
           /\ Follows(view[t], db, wrote[t])
           /\ \A r \in RowIds : view[t][r].mark = db[r].mark
<1> DEFINE V == view[t]
<1>1. /\ V \in Tables /\ wrote[t] \subseteq RowIds
      /\ \A r \in RowIds \ wrote[t] : V[r] = db[r]
      /\ \A r \in wrote[t] : /\ db[r].st = "RUNNING" /\ V[r].mark = db[r].mark
                             /\ V[r].st \in {"SUCCESS", "FAILED", "CANCELLED"}
  BY DEF IInv, TypeOK, Alone
<1> HIDE DEF V
<1>2. Orderly(V)
  BY <1>1 DEF Orderly
<1>3. Rows(V) = Rows(db)
  BY <1>1 DEF Rows, Exists
<1>4. Follows(V, db, wrote[t])
  BY <1>1 DEF Follows, Settled, Terminal, TERMINAL_STATUSES
<1>5. Judged(V)
  <2>1. \A r \in wrote[t] : db[r].mark = "-"
    BY <1>1 DEF Orderly
  <2>2. \A r \in RowIds : V[r].mark = "agg" => V[r] = db[r]
    BY <1>1, <2>1
  <2>3. ASSUME NEW q \in RowIds, NEW r \in RowIds, db[q].mark = "agg", q[1] = r[1], r[4] # 0
        PROVE  V[r] = db[r]
    <3>1. r \notin wrote[t]
      BY <1>1, <2>3, JudgedChildren DEF Terminal, TERMINAL_STATUSES
    <3> QED
      BY <1>1, <3>1
  <2> QED
    BY <2>2, <2>3, JudgedKept
<1>6. \A r \in RowIds : V[r].mark = db[r].mark
  BY <1>1
<1> QED
  BY <1>1, <1>2, <1>3, <1>4, <1>5, <1>6 DEF V

(* The transaction up to the dispatch; N are the nodes it creates rows for *)
(* and T2 the table they became runnable in.                               *)
BeforeKept(t, b, T2, N) ==
    /\ Orderly(T2) /\ Judged(T2) /\ Follows(T2, view[t], b.cancel)
    /\ (Together(view[t]) => Together(T2))
    /\ \A r \in Rows(T2) : r \in Rows(db) \/ r[3] # 1
    /\ \A r \in b.cancel : Terminal(T2, r)
    /\ N \subseteq compute_next_runnables(T2)
    /\ \A n \in N : RowsOf(T2, n) = {}
    /\ b.created = Prep(N) /\ ~Taken(b.created)
    /\ b.table \in Tables /\ WellFormed(b.table) /\ Orderly(b.table) /\ Judged(b.table)
    /\ Rows(b.table) = Rows(T2) \cup Prep(N) /\ Rows(db) \subseteq Rows(T2)
    /\ \A r \in Rows(T2) : r[4] # 0 => r \in Rows(db)
    /\ Follows(b.table, T2, {})
    /\ (Together(T2) => Together(b.table))
    /\ Running(b.table) \subseteq Running(view[t]) \ b.cancel
    /\ \A r \in RowIds : b.table[r].mark = "child" => db[r].mark = "child"
    /\ \A r \in RowIds : r[1] \in N /\ r[4] = 0 =>
           IF r \in Prep(N) THEN b.table[r].mark = "-" ELSE b.table[r].st = "none"

LEMMA BeforeKeeps ==
    ASSUME IInv, Alone, Orderly(db), Judged(db), NEW t \in Tickers, pc[t] = "tx",
           NEW b, b = BeforeDispatch(t), ~Taken(b.retry)
    PROVE  \E T2 \in Tables : \E N \in SUBSET Nodes : BeforeKept(t, b, T2, N)
<1> DEFINE V == view[t]
           retry == retry_failed_rows(V, done[t])
           T1 == InsertPending(V, retry)
           cur == [r \in RowIds |-> IF r \in retry THEN T1[r] ELSE Current(t)[r]]
           cancel == ToCancel(T1, cur)
           Tc == apply_fail_fast_cancel(T1, cur, cancel)
           T2 == aggregate_loop_children(Tc)
           N == {n \in compute_next_runnables(T2) : RowsOf(T2, n) = {}}
<1>0. /\ b.retry = retry /\ b.cancel = cancel
      /\ b.created = Prep(N) /\ b.table = prep_node_rows(T2, N)
  BY DEF BeforeDispatch, Prep
<1>1. /\ V \in Tables /\ Orderly(V) /\ Judged(V) /\ Rows(V) = Rows(db)
      /\ \A r \in RowIds : V[r].mark = db[r].mark
      /\ WellFormed(V)
  BY LoneView DEF IInv, Snapshots
<1>2. retry \cap Rows(V) = {}
  BY <1>0, <1>1 DEF Taken, Rows
<1>3. \A r \in RowIds : Current(t)[r] = V[r]
  BY DEF Current, Alone
<1>4. \A r \in RowIds : T1[r] = IF r \in retry THEN [NoRow EXCEPT !.st = "PENDING"] ELSE V[r]
  BY DEF InsertPending
<1>5. /\ T1 \in Tables /\ Rows(T1) = Rows(V) \cup (retry \cap RowIds) /\ WellFormed(T1)
      /\ Orderly(T1) /\ Judged(T1) /\ Follows(T1, V, {})
      /\ \A r \in RowIds : T1[r].mark = "child" => V[r].mark = "child"
      /\ Running(T1) \subseteq Running(V)
  BY <1>1, <1>2, InsertPendingStage, InsertKeeps
<1>6. ASSUME Together(V), ExecFailStrategy = "fail_fast" => \A r \in RowIds : T1[r].st # "FAILED"
      PROVE  Together(T1)
  <2>1. CASE ExecFailStrategy = "fail_fast"
    <3>1. retry = {}
      <4>1. \A r \in retry : \E q \in RowIds : V[q].st = "FAILED"
        BY DEF retry_failed_rows
      <4>2. \A q \in RowIds : V[q].st # "FAILED"
        BY <1>2, <1>4, <1>6, <2>1 DEF Rows, Exists
      <4> QED
        BY <4>1, <4>2
    <3> HIDE DEF T1, V, retry
    <3>2. \A r \in RowIds : T1[r] = V[r]
      BY <1>4, <3>1
    <3> QED
      BY <1>5, <1>6, <3>2, TogetherKept
  <2>2. CASE ExecFailStrategy # "fail_fast"
    <3>1. [NoRow EXCEPT !.st = "PENDING"].st = "PENDING"
      BY DEF NoRow
    <3> HIDE DEF T1, V, retry
    <3>2. \A r \in RowIds : r[4] = 0 => T1[r].st # "CANCELLED"
      BY <1>4, <1>6, <2>2, <3>1 DEF Together
    <3> QED
      BY <3>2 DEF Together
  <2> QED
    BY <2>1, <2>2
<1> HIDE DEF T1
<1>7. \A r \in RowIds : cur[r] = T1[r]
  BY <1>3, <1>4
<1>8. \/ cancel = Unfinished(T1) /\ ExecFailStrategy = "fail_fast"
      \/ /\ cancel = {}
         /\ ExecFailStrategy = "fail_fast" => \A r \in RowIds : T1[r].st # "FAILED"
  <2>1. Unfinished(cur) = Unfinished(T1)
    BY <1>7 DEF Unfinished
  <2> HIDE DEF cur
  <2> QED
    BY <2>1 DEF ToCancel
<1>9. cur \in Tables /\ WellFormed(cur)
  BY <1>5, <1>7 DEF Tables, WellFormed
<1> HIDE DEF cur
<1>10. cancel \in SUBSET Rows(cur) /\ cancel \in SUBSET Unfinished(T1) /\ cancel \subseteq Rows(T1)
  BY <1>7, <1>8 DEF Unfinished, Rows, Exists
<1> HIDE DEF cancel
<1>11. /\ Tc \in Tables /\ Rows(Tc) = Rows(T1) /\ WellFormed(Tc)
       /\ Orderly(Tc) /\ Judged(Tc) /\ Follows(Tc, T1, cancel)
       /\ \A r \in RowIds : Tc[r].mark = "child" => T1[r].mark = "child"
       /\ Together(V) => Together(Tc)
       /\ Running(Tc) \subseteq Running(T1) \ cancel
       /\ \A r \in cancel : Terminal(Tc, r)
  <2>1. /\ Tc \in Tables /\ Rows(Tc) = Rows(T1) \cup cancel /\ WellFormed(Tc)
    BY <1>5, <1>9, <1>10, CancelStage
  <2>2. /\ Orderly(Tc) /\ Judged(Tc) /\ Follows(Tc, T1, cancel)
        /\ \A r \in RowIds : Tc[r].mark = "child" => T1[r].mark = "child"
    BY <1>5, <1>7, <1>10, CancelKeeps
  <2>3. Together(V) => Together(Tc)
    BY <1>5, <1>6, <1>7, <1>8, CancelTogether
  <2>4. /\ Running(Tc) \subseteq Running(T1)
        /\ \A r \in cancel : r \notin Running(Tc) /\ Terminal(Tc, r)
    <3>1. Running(Tc) \subseteq Running(T1)
      BY <1>5, <1>9, <1>10, CancelStage
    <3>2. \A r \in cancel : r \in RowIds /\ Tc[r] = [cur[r] EXCEPT !.st = "CANCELLED"]
      BY <1>10 DEF apply_fail_fast_cancel, Rows
    <3>3. \A r \in RowIds : [cur[r] EXCEPT !.st = "CANCELLED"].st = "CANCELLED"
      BY <1>9 DEF Tables, Row
    <3> HIDE DEF Tc
    <3> QED
      BY <3>1, <3>2, <3>3 DEF Running, Terminal, TERMINAL_STATUSES
  <2> QED
    BY <1>10, <2>1, <2>2, <2>3, <2>4
<1> HIDE DEF Tc
<1>12. /\ T2 \in Tables /\ Rows(T2) = Rows(Tc) /\ WellFormed(T2)
       /\ Orderly(T2) /\ Judged(T2) /\ Follows(T2, Tc, {})
       /\ \A r \in RowIds : T2[r].mark = "child" => Tc[r].mark = "child"
       /\ Together(Tc) => Together(T2)
       /\ Running(T2) \subseteq Running(Tc)
  BY <1>11, AggregateStage, AggregateKeeps, AggregateTogether
<1>13. Follows(T2, V, cancel)
  <2>1. Follows(Tc, V, {} \cup cancel)
    BY <1>5, <1>11, FollowsTrans
  <2>2. Follows(T2, V, ({} \cup cancel) \cup {})
    BY <1>12, <2>1, FollowsTrans
  <2>3. ({} \cup cancel) \cup {} = cancel
    OBVIOUS
  <2> QED
    BY <2>2, <2>3
<1> HIDE DEF T2
<1>14. N \in SUBSET Nodes /\ N \subseteq compute_next_runnables(T2) /\ \A n \in N : RowsOf(T2, n) = {}
  BY DEF compute_next_runnables
<1> HIDE DEF N
<1> DEFINE Tb == prep_node_rows(T2, N)
<1>15. /\ Tb \in Tables /\ Rows(Tb) = Rows(T2) \cup Prep(N) /\ WellFormed(Tb)
       /\ Orderly(Tb) /\ Judged(Tb) /\ Follows(Tb, T2, {})
       /\ Running(Tb) \subseteq Running(T2)
       /\ \A r \in RowIds : Tb[r].mark = "child" => T2[r].mark = "child"
       /\ \A r \in RowIds : IF r \in Prep(N) THEN Tb[r].mark = "-" ELSE Tb[r] = T2[r]
  BY <1>12, <1>14, PrepStage, PrepKeeps
<1>16. Together(T2) => Together(Tb)
  <2>1. \A r \in RowIds : r \in Prep(N) => Tb[r].st # "CANCELLED"
    <3>1. \A n \in Nodes : PrepRow(n).st # "CANCELLED"
      BY DEF PrepRow, NoRow
    <3> QED
      BY <1>14, <3>1, PrepRows, RowNode DEF prep_node_rows
  <2> HIDE DEF Tb
  <2> QED
    BY <1>14, <1>15, <2>1, NewRowsTogether
<1> HIDE DEF Tb
<1>17. \A r \in RowIds : r[1] \in N /\ r[4] = 0 =>
          IF r \in Prep(N) THEN Tb[r].mark = "-" ELSE Tb[r].st = "none"
  <2>1. \A r \in RowIds : r[1] \in N /\ r[4] = 0 => T2[r].st = "none"
    BY <1>14, OwnRow
  <2> QED
    BY <1>15, <2>1
<1>18. \A r \in RowIds : Tb[r].mark = "child" => db[r].mark = "child"
  BY <1>1, <1>5, <1>11, <1>12, <1>15
<1>19. /\ Together(view[t]) => Together(T2)
       /\ \A r \in Rows(T2) : r \in Rows(db) \/ r[3] # 1
       /\ \A r \in b.cancel : Terminal(T2, r)
  <2>1. Together(view[t]) => Together(T2)
    BY <1>11, <1>12 DEF V
  <2>2. \A r \in retry : r[3] # 1
    BY RetryAttempt
  <2>3. \A r \in cancel : r \in RowIds
    BY <1>10 DEF Rows
  <2>4. \A r \in cancel : Terminal(T2, r)
    BY <1>11, <1>12, <2>3 DEF Follows
  <2> QED
    BY <1>0, <1>1, <1>5, <1>11, <1>12, <2>1, <2>2, <2>4
<1>20. Rows(db) \subseteq Rows(T2) /\ \A r \in Rows(T2) : r[4] # 0 => r \in Rows(db)
  <2>1. \A r \in retry : r[4] = 0
    BY RetryParent
  <2> QED
    BY <1>1, <1>5, <1>11, <1>12, <2>1
<1>21. b.table = Tb
  BY <1>0 DEF Tb
<1>22. Running(Tb) \subseteq Running(view[t]) \ b.cancel
  BY <1>0, <1>5, <1>11, <1>12, <1>15
<1>23. ~Taken(b.created)
  <2>1. \A r \in Prep(N) : r \in RowIds /\ r \notin Rows(T2)
    BY <1>14, PrepFresh
  <2> QED
    BY <1>0, <1>20, <2>1 DEF Taken, Rows
<1> QED
  BY <1>0, <1>12, <1>13, <1>14, <1>15, <1>16, <1>17, <1>18, <1>19, <1>20, <1>21, <1>22, <1>23
     DEF BeforeKept, V

(* The rest of the transaction: what was dispatched shows, and no INSERT   *)
(* of the daemon meets a key that is taken.                                *)
AfterKept(b, C, o, a) ==
    /\ a.table \in Tables /\ Orderly(a.table) /\ Judged(a.table)
    /\ Follows(a.table, b.table, {})
    /\ (Together(b.table) => Together(a.table))
    /\ ~Taken(a.late)
    /\ Rows(b.table) \subseteq Rows(a.table)
    /\ Running(a.table) \subseteq Running(b.table) \cup {r \in C : o[r] = "async"}
    /\ \A r \in C : a.table[r].mark # "child" /\ (o[r] = "async" => a.table[r].st = "RUNNING")
    /\ \A r \in RowIds : a.table[r].mark = "child" =>
           b.table[r].mark = "child" \/ r \notin Rows(b.table)
    /\ \A r \in Rows(a.table) : r[4] = 0 /\ r \notin Rows(b.table) =>
           a.table[r].st = "SKIPPED" /\ RowsOf(b.table, r[1]) = {}

LEMMA AfterKeeps ==
    ASSUME IInv, NEW t \in Tickers, NEW b, NEW T2 \in Tables, NEW N \in SUBSET Nodes, BeforeKept(t, b, T2, N),
           NEW C, C \subseteq Candidates(b.table, b.created), NEW o \in DispatchChoices(C),
           NEW a, a = AfterDispatching(b, o)
    PROVE  AfterKept(b, C, o, a)
<1> DEFINE Tb == b.table
           T3 == dispatch_pending(Tb, o)
           ctx == IF Counted(o) # {} THEN refresh_ctx(T3) ELSE b.ctx
           T4 == IF Counted(o) # {} THEN aggregate_loop_children(T3) ELSE T3
           skipped == mark_ineligible_nodes_skipped(T4, ctx)
           A == insert_skipped(T4, skipped)
<1>0. a.late = Expanded(o) \cup Prep(skipped) /\ a.table = A
  BY DEF AfterDispatching, Prep
<1>1. /\ Tb \in Tables /\ WellFormed(Tb) /\ Orderly(Tb) /\ Judged(Tb)
      /\ Rows(Tb) = Rows(T2) \cup Prep(N) /\ Rows(db) \subseteq Rows(T2)
      /\ \A r \in Rows(T2) : r[4] # 0 => r \in Rows(db)
      /\ \A r \in RowIds : r[1] \in N /\ r[4] = 0 =>
             IF r \in Prep(N) THEN Tb[r].mark = "-" ELSE Tb[r].st = "none"
      /\ b.created = Prep(N) /\ ~Taken(b.created)
  BY DEF BeforeKept
<1> HIDE DEF Tb
<1>2. /\ C \in SUBSET RowIds /\ C \in SUBSET Rows(Tb)
      /\ \A r \in C : Tb[r].st = "PENDING" /\ (r \in Prep(N) \/ r[4] # 0)
  BY <1>1 DEF Candidates, WellFormed, Rows, Exists, Tb
<1>3. \A r \in Expanded(o) : r \in RowIds /\ r[4] # 0 /\ r \notin Rows(Tb)
  <2> SUFFICES ASSUME NEW r \in Expanded(o)
              PROVE  r \in RowIds /\ r[4] # 0 /\ r \notin Rows(Tb)
    OBVIOUS
  <2>1. r \in RowIds /\ r[4] # 0 /\ <<r[1], r[2], 1, 0>> \in C
    BY ChildParent DEF Expanded
  <2>2. <<r[1], r[2], 1, 0>> \in Prep(N)
    BY <1>2, <2>1
  <2>3. <<r[1], r[2], 1, 0>> \notin Rows(db)
    BY <1>1, <2>2 DEF Taken, Rows
  <2>4. r \notin Rows(db)
    <3>1. r[4] > 0
      BY <2>1, ItemNumber
    <3> QED
      BY <2>3, <3>1 DEF IInv, Database, Ancestry
  <2> QED
    BY <1>1, <2>1, <2>4, PrepNode
<1>4. \A r \in Expanded(o) : Tb[r].st = "none"
  BY <1>3 DEF Rows, Exists
<1>5. /\ T3 \in Tables /\ Rows(T3) = Rows(Tb) \cup Expanded(o)
      /\ Running(T3) \subseteq Running(Tb) \cup {r \in C : o[r] = "async"}
      /\ Orderly(T3) /\ Judged(T3) /\ Follows(T3, Tb, {})
      /\ \A r \in C : T3[r].mark = "-" /\ (o[r] = "async" => T3[r].st = "RUNNING")
      /\ \A r \in RowIds : T3[r].mark = "child" => Tb[r].mark = "child" \/ Tb[r].st = "none"
  <2>1. /\ T3 \in Tables /\ Rows(T3) = Rows(Tb) \cup Expanded(o)
        /\ Running(T3) \subseteq Running(Tb) \cup {r \in C : o[r] = "async"}
    BY <1>1, <1>2, DispatchStage
  <2>2. /\ Orderly(T3) /\ Judged(T3) /\ Follows(T3, Tb, {})
        /\ \A r \in C : T3[r].mark = "-" /\ (o[r] = "async" => T3[r].st = "RUNNING")
        /\ \A r \in RowIds : T3[r].mark = "child" => Tb[r].mark = "child" \/ Tb[r].st = "none"
    BY <1>1, <1>2, <1>4, DispatchKeeps
  <2> QED
    BY <2>1, <2>2
<1>6. Together(Tb) => Together(T3)
  BY <1>1, <1>2, <1>5, DispatchTogether
<1> HIDE DEF T3
<1>7. /\ T4 \in Tables /\ Rows(T4) = Rows(T3) /\ Running(T4) \subseteq Running(T3)
      /\ Orderly(T4) /\ Judged(T4) /\ Follows(T4, T3, {})
      /\ \A r \in RowIds : T4[r].mark = "child" => T3[r].mark = "child"
      /\ Together(T3) => Together(T4)
  <2>1. Follows(T3, T3, {})
    BY DEF Follows
  <2> QED
    BY <1>5, <2>1, AggregateStage, AggregateKeeps, AggregateTogether
<1> HIDE DEF T4, ctx
<1>8. skipped \in SUBSET Business /\ skipped \in SUBSET Nodes /\ \A n \in skipped : RowsOf(T4, n) = {}
  BY DEF mark_ineligible_nodes_skipped, Ineligible, Business
<1> HIDE DEF skipped
<1>9. /\ A \in Tables /\ Rows(A) = Rows(T4) \cup Prep(skipped)
      /\ Running(A) \subseteq Running(T4)
      /\ Orderly(A) /\ Judged(A) /\ Follows(A, T4, {})
      /\ \A r \in RowIds : A[r].mark = "child" => T4[r].mark = "child"
  BY <1>7, <1>8, SkipStage, SkipKeeps
<1>10. \A r \in RowIds : A[r] = IF r \in Prep(skipped) THEN [NoRow EXCEPT !.st = "SKIPPED"] ELSE T4[r]
  BY <1>8, PrepRows DEF insert_skipped
<1>11. [NoRow EXCEPT !.st = "SKIPPED"].st = "SKIPPED"
  BY DEF NoRow
<1> HIDE DEF A
<1>12. Together(T4) => Together(A)
  BY <1>8, <1>9, <1>10, <1>11, NewRowsTogether
<1>13. Follows(A, T3, {}) /\ Follows(A, Tb, {})
  <2>1. Follows(A, T3, {} \cup {})
    BY <1>7, <1>9, FollowsTrans
  <2>2. Follows(A, Tb, {} \cup ({} \cup {}))
    BY <1>5, <2>1, FollowsTrans
  <2> QED
    BY <2>1, <2>2
<1>14. \A r \in C : A[r].mark # "child" /\ (o[r] = "async" => A[r].st = "RUNNING")
  BY <1>2, <1>5, <1>7, <1>9, <1>13 DEF Follows
<1>15. \A r \in RowIds : A[r].mark = "child" => Tb[r].mark = "child" \/ r \notin Rows(Tb)
  BY <1>5, <1>7, <1>9 DEF Rows, Exists
<1>16. \A n \in skipped : RowsOf(Tb, n) = {}
  BY <1>5, <1>7, <1>8, OwnRow, SMTT(30) DEF Rows, Exists
<1>17. ASSUME NEW r \in Rows(A), r[4] = 0, r \notin Rows(Tb)
       PROVE  A[r].st = "SKIPPED" /\ RowsOf(Tb, r[1]) = {}
  <2>1. r \in RowIds /\ r \in Prep(skipped)
    BY <1>3, <1>5, <1>7, <1>9, <1>17 DEF Rows
  <2> QED
    BY <1>10, <1>11, <1>16, <2>1, PrepNode
<1>18. ~Taken(a.late)
  <2>1. \A r \in Prep(skipped) : r \in RowIds /\ r \notin Rows(Tb)
    BY <1>8, <1>16, PrepFresh
  <2>2. \A r \in a.late : r \in RowIds /\ r \notin Rows(db)
    BY <1>0, <1>1, <1>3, <2>1
  <2> QED
    BY <2>2 DEF Taken, Rows
<1> QED
  BY <1>0, <1>5, <1>6, <1>7, <1>9, <1>12, <1>13, <1>14, <1>15, <1>17, <1>18 DEF AfterKept, Tb

-----------------------------------------------------------------------------
(* The daemon commits: the database becomes the transaction's table.       *)

LEMMA LoneCommit ==
    ASSUME IInv, Alone, Orderly(db), Judged(db), NEW t \in Tickers, Commit(t)
    PROVE  \E b \in {BeforeDispatch(t)} : \E T2 \in Tables : \E N \in SUBSET Nodes :
           \E o \in DispatchChoices(Candidates(b.table, b.created)) :
           \E a \in {AfterDispatching(b, o)} :
              /\ ~Taken(b.retry \cup b.created)
              /\ BeforeKept(t, b, T2, N)
              /\ AfterKept(b, Candidates(b.table, b.created), o, a)
              /\ db' = a.table
              /\ exec' = finalize_workflow_if_done(a.table)
              /\ job' = StartJobs(KillJobs(job, b.cancel \cup aborts[t]), o)
              /\ calls' = CountCalls(o)
<1>1. PICK b \in {BeforeDispatch(t)} :
         /\ ~Taken(b.retry \cup b.created)
         /\ \E o \in DispatchChoices(Candidates(b.table, b.created)) :
            \E a \in {AfterDispatching(b, o)} :
              LET W == wrote[t] \cup b.cancel \cup {r \in RowIds : a.table[r] # view[t][r]}
                  status == finalize_workflow_if_done(a.table)
              IN  /\ db' = [r \in RowIds |-> IF r \in W THEN a.table[r] ELSE db[r]]
                  /\ exec' = IF status = "running" THEN exec ELSE status
                  /\ job' = StartJobs(KillJobs(job, b.cancel \cup aborts[t]), o)
                  /\ calls' = CountCalls(o)
  BY DEF Commit
<1>2. pc[t] = "tx" /\ exec = "running"
  BY DEF Commit, Alone
<1>3. PICK T2 \in Tables, N \in SUBSET Nodes : BeforeKept(t, b, T2, N)
  BY <1>1, <1>2, BeforeKeeps DEF Taken
<1> DEFINE C == Candidates(b.table, b.created)
<1> HIDE DEF C
<1>4. PICK o \in DispatchChoices(C) : \E a \in {AfterDispatching(b, o)} :
         LET W == wrote[t] \cup b.cancel \cup {r \in RowIds : a.table[r] # view[t][r]}
             status == finalize_workflow_if_done(a.table)
         IN  /\ db' = [r \in RowIds |-> IF r \in W THEN a.table[r] ELSE db[r]]
             /\ exec' = IF status = "running" THEN exec ELSE status
             /\ job' = StartJobs(KillJobs(job, b.cancel \cup aborts[t]), o)
             /\ calls' = CountCalls(o)
  BY <1>1 DEF C
<1>5. PICK a \in {AfterDispatching(b, o)} :
         LET W == wrote[t] \cup b.cancel \cup {r \in RowIds : a.table[r] # view[t][r]}
             status == finalize_workflow_if_done(a.table)
         IN  /\ db' = [r \in RowIds |-> IF r \in W THEN a.table[r] ELSE db[r]]
             /\ exec' = IF status = "running" THEN exec ELSE status
             /\ job' = StartJobs(KillJobs(job, b.cancel \cup aborts[t]), o)
             /\ calls' = CountCalls(o)
  BY <1>4
<1>6. AfterKept(b, C, o, a)
  BY <1>1, <1>3, <1>5, AfterKeeps DEF C
<1>7. db' = a.table
  <2>1. \A r \in RowIds \ wrote[t] : view[t][r] = db[r]
    BY <1>2 DEF Alone
  <2>2. \A r \in RowIds : db'[r] = a.table[r]
    BY <1>5, <2>1
  <2>3. a.table = [r \in RowIds |-> a.table[r]] /\ db' = [r \in RowIds |-> db'[r]]
    BY <1>5, <1>6 DEF AfterKept, Tables
  <2> QED
    BY <2>2, <2>3
<1>8. exec' = finalize_workflow_if_done(a.table)
  BY <1>2, <1>5
<1>9. job' = StartJobs(KillJobs(job, b.cancel \cup aborts[t]), o) /\ calls' = CountCalls(o)
  BY <1>5
<1> QED
  BY <1>1, <1>3, <1>5, <1>6, <1>7, <1>8, <1>9 DEF C

(* What the final status says of the rows.                                 *)
LEMMA HonestFinal ==
    ASSUME NEW T \in Tables, Orderly(T), NEW s, s = finalize_workflow_if_done(T)
    PROVE  /\ s \in {"success", "failed", "cancelled"} =>
                 /\ \A n \in Business : RowsOf(T, n) # {}
                 /\ \A r \in RowIds : Exists(T, r) => Terminal(T, r)
           /\ s = "success" =>
                 \A r \in RowIds : Exists(T, r) => T[r].st \in {"SUCCESS", "SKIPPED"}
           /\ s = "failed" => \E r \in RowIds : T[r].st = "FAILED"
<1> DEFINE rows == {r \in RowIds : r[1] \in Business /\ Exists(T, r)}
           has(x) == \E r \in rows : T[r].st = x
           open == (\E n \in Business : RowsOf(T, n) = {}) \/ \E r \in rows : ~Terminal(T, r)
<1>1. s = IF open THEN "running"
          ELSE IF has("CANCELLED") THEN "cancelled"
          ELSE IF has("FAILED") THEN "failed" ELSE "success"
  BY DEF finalize_workflow_if_done
<1>2. \A r \in RowIds : Exists(T, r) => r \in rows \/ T[r].st = "SUCCESS"
  BY RowNode DEF Business, Orderly, Exists
<1>3. s # "running" => ~open
  BY <1>1
<1>4. s = "success" => ~has("CANCELLED") /\ ~has("FAILED")
  BY <1>1
<1>5. s = "failed" => has("FAILED")
  BY <1>1
<1>6. ~open => /\ \A n \in Business : RowsOf(T, n) # {}
               /\ \A r \in RowIds : Exists(T, r) => Terminal(T, r)
  BY <1>2 DEF Terminal, TERMINAL_STATUSES
<1> HIDE DEF open
<1>7. s = "success" => \A r \in RowIds : Exists(T, r) => T[r].st \in {"SUCCESS", "SKIPPED"}
  BY <1>2, <1>3, <1>4, <1>6 DEF Terminal, TERMINAL_STATUSES
<1>8. s = "failed" => \E r \in RowIds : T[r].st = "FAILED"
  BY <1>5
<1> QED
  BY <1>3, <1>6, <1>7, <1>8

-----------------------------------------------------------------------------
(* A runnable node's predecessors are finished on every host.              *)
LEMMA RunnableAfter ==
    ASSUME NEW T \in Tables, Orderly(T), Together(T),
           NEW n \in compute_next_runnables(T), NEW e \in Incoming[n]
    PROVE  /\ \A q \in RowsOf(T, e.from) : Terminal(T, q)
           /\ e.from \in Starts \/ RowsOf(T, e.from) # {}
<1>1. n \in Nodes /\ e \in Edges /\ e.from \in Nodes
  BY GraphAssumption DEF compute_next_runnables, Incoming
<1>2. NodeView(T, e.from) \in TERMINAL_STATUSES
  BY <1>1 DEF compute_next_runnables
<1>3. CASE NodeType[e.from] = "start"
  <2>1. \A q \in RowsOf(T, e.from) : T[q].st = "SUCCESS"
    BY <1>1, <1>3, OwnRow DEF Orderly
  <2> QED
    BY <1>1, <1>3, <2>1 DEF Starts, Terminal, TERMINAL_STATUSES
<1>4. CASE NodeType[e.from] = "end"
  BY <1>2, <1>4 DEF NodeView, TERMINAL_STATUSES
<1>5. CASE NodeType[e.from] \notin {"start", "end"}
  <2> DEFINE S == StatusesOf(T, e.from)
  <2>1. host_view_status(T, e.from) \in TERMINAL_STATUSES
    BY <1>2, <1>5 DEF NodeView
  <2>2. S # {} /\ ("CANCELLED" \in S \/ S \cap {"RUNNING", "PENDING"} = {})
    BY <2>1 DEF host_view_status, TERMINAL_STATUSES
  <2>3. \A q \in RowsOf(T, e.from) : T[q].st \in S /\ T[q].st \in Statuses
    BY <1>1, OwnRow DEF StatusesOf, Tables, Row
  <2>4. CASE "CANCELLED" \in S
    <3>1. PICK r \in RowsOf(T, e.from) : T[r].st = "CANCELLED"
      BY <2>4 DEF StatusesOf
    <3>2. r \in RowIds /\ r[4] = 0 /\ r[1] = e.from
      BY <1>1, OwnRow
    <3> QED
      BY <3>1, <3>2 DEF Together
  <2>5. CASE S \cap {"RUNNING", "PENDING"} = {}
    <3> HIDE DEF S
    <3>1. \A q \in RowsOf(T, e.from) : Terminal(T, q)
      BY <2>3, <2>5 DEF Terminal, TERMINAL_STATUSES, Statuses
    <3>2. RowsOf(T, e.from) # {}
      BY <2>2 DEF S, StatusesOf
    <3> QED
      BY <3>1, <3>2
  <2> QED
    BY <2>2, <2>4, <2>5
<1> QED
  BY <1>3, <1>4, <1>5

LEMMA EmptyTableKept ==
    /\ EmptyTable \in Tables /\ Orderly(EmptyTable) /\ Judged(EmptyTable) /\ Together(EmptyTable)
    /\ \A n \in Nodes : RowsOf(EmptyTable, n) = {}
    /\ \A r \in RowIds : EmptyTable[r].st = "none"
<1>1. EmptyTable \in Tables
  BY EmptyTableFacts
<1>2. \A r \in RowIds : EmptyTable[r].st = "none" /\ EmptyTable[r].mark = "-"
  BY DEF EmptyTable, NoRow
<1> QED
  BY <1>1, <1>2, OwnRow DEF Orderly, Judged, Together

(* What a trigger that does not raise leaves behind.                       *)
TriggerKept(C, o) ==
    /\ exec' = finalize_workflow_if_done(db')
    /\ job' = StartJobs(job, o)
    /\ db' \in Tables /\ Orderly(db') /\ Judged(db') /\ Together(db')
    /\ \A r \in C : /\ db'[r].st # "none" /\ db'[r].mark # "child"
                    /\ o[r] = "async" => db'[r].st = "RUNNING"
    /\ \A r \in RowIds : r[4] = 0 /\ db'[r].st # "none" =>
          \A e \in Incoming[r[1]] : \A q \in RowsOf(db', e.from) : Terminal(db', q)

LEMMA TriggerKeeps ==
    ASSUME IInv, trigger_workflow
    PROVE  \E C \in SUBSET RowIds : \E o \in DispatchChoices(C) :
              /\ calls' = CountCalls(o)
              /\ \/ exec' = "error" /\ UNCHANGED <<db, job>>
                 \/ TriggerKept(C, o)
<1> DEFINE first == compute_next_runnables(EmptyTable)
           N == Starts \cup first
           T1 == prep_node_rows(EmptyTable, N)
           C == Candidates(T1, RowIds)
<1>1. N \in SUBSET Nodes /\ first \in SUBSET Nodes
  BY DEF Starts, compute_next_runnables
<1>2. PICK o \in DispatchChoices(C) :
        LET T2 == dispatch_pending(T1, o)
            second == compute_next_runnables(T2) \cap Ends
            T3 == prep_node_rows(T2, second)
        IN  /\ calls' = CountCalls(o)
            /\ \/ exec' = "error" /\ UNCHANGED <<db, job>>
               \/ /\ second \cap first = {}
                  /\ exec' = finalize_workflow_if_done(T3)
                  /\ db' = T3
                  /\ job' = StartJobs(job, o)
  BY DEF trigger_workflow
<1> DEFINE T2 == dispatch_pending(T1, o)
           second == compute_next_runnables(T2) \cap Ends
           T3 == prep_node_rows(T2, second)
<1>2a. /\ calls' = CountCalls(o)
       /\ \/ exec' = "error" /\ UNCHANGED <<db, job>>
          \/ /\ second \cap first = {} /\ exec' = finalize_workflow_if_done(T3)
             /\ db' = T3 /\ job' = StartJobs(job, o)
  BY <1>2
<1> HIDE DEF first
<1>3. /\ T1 \in Tables /\ Rows(T1) = Prep(N) /\ Orderly(T1) /\ Judged(T1) /\ Together(T1)
      /\ \A r \in RowIds : IF r \in Prep(N) THEN T1[r].mark = "-" ELSE T1[r].st = "none"
  <2>1. \A n \in N : RowsOf(EmptyTable, n) = {}
    BY <1>1, EmptyTableKept
  <2>2. /\ T1 \in Tables /\ Rows(T1) = Prep(N)
    <3>1. T1 \in Tables /\ Rows(T1) = Rows(EmptyTable) \cup Prep(N)
      BY <1>1, EmptyTableFacts, PrepStage
    <3> HIDE DEF T1
    <3> QED
      BY <3>1, EmptyTableFacts
  <2>3. /\ Orderly(T1) /\ Judged(T1) /\ Follows(T1, EmptyTable, {})
        /\ \A r \in RowIds : IF r \in Prep(N) THEN T1[r].mark = "-" ELSE T1[r] = EmptyTable[r]
    BY <1>1, <2>1, EmptyTableKept, PrepKeeps
  <2>4. \A r \in RowIds : r \in Prep(N) => T1[r].st # "CANCELLED"
    <3>1. \A n \in Nodes : PrepRow(n).st # "CANCELLED"
      BY DEF PrepRow, NoRow
    <3> QED
      BY <1>1, <3>1, PrepRows, RowNode DEF prep_node_rows
  <2> HIDE DEF T1, N
  <2>5. Together(T1)
    BY <1>1, <2>1, <2>3, <2>4, EmptyTableKept, NewRowsTogether
  <2> QED
    BY <2>2, <2>3, <2>5, EmptyTableKept
<1> HIDE DEF T1, N
<1>4. /\ C \in SUBSET RowIds /\ C \in SUBSET Rows(T1)
      /\ \A r \in C : T1[r].st = "PENDING" /\ r \in Prep(N)
  BY <1>3 DEF Candidates, Rows, Exists
<1> HIDE DEF C
<1>5. \A r \in Expanded(o) : r \in RowIds /\ r[4] # 0 /\ T1[r].st = "none"
  BY <1>3, PrepNode DEF Expanded
<1>6. /\ T2 \in Tables /\ Rows(T2) = Prep(N) \cup Expanded(o)
      /\ Orderly(T2) /\ Judged(T2) /\ Together(T2)
      /\ \A r \in C : T2[r].mark = "-" /\ (o[r] = "async" => T2[r].st = "RUNNING")
  <2>1. T2 \in Tables /\ Rows(T2) = Rows(T1) \cup Expanded(o)
    BY <1>3, <1>4, DispatchStage
  <2>2. /\ Orderly(T2) /\ Judged(T2) /\ Follows(T2, T1, {})
        /\ \A r \in C : T2[r].mark = "-" /\ (o[r] = "async" => T2[r].st = "RUNNING")
    BY <1>1, <1>3, <1>4, <1>5, DispatchKeeps
  <2>3. Together(T2)
    BY <1>3, <1>4, <2>2, DispatchTogether
  <2> QED
    BY <1>3, <2>1, <2>2, <2>3
<1> HIDE DEF T2
<1>7. CASE exec' = "error" /\ UNCHANGED <<db, job>>
  BY <1>2, <1>4, <1>7
<1>8. ASSUME second \cap first = {}, exec' = finalize_workflow_if_done(T3), db' = T3,
             job' = StartJobs(job, o)
      PROVE  TriggerKept(C, o)
  <2>1. second \in SUBSET Nodes /\ second \subseteq Ends /\ second \subseteq compute_next_runnables(T2)
    BY DEF Ends
  <2>2. \A n \in second : RowsOf(T2, n) = {}
    <3>1. \A n \in second : n \notin N
      BY <1>8, <2>1 DEF Starts, Ends, N
    <3> QED
      BY <1>5, <1>6, <2>1, <3>1, OwnRow, PrepNode DEF Rows, Exists
  <2> HIDE DEF second
  <2>3. /\ T3 \in Tables /\ Rows(T3) = Rows(T2) \cup Prep(second)
        /\ Orderly(T3) /\ Judged(T3) /\ Follows(T3, T2, {})
        /\ \A r \in RowIds : T3[r].mark = "child" => T2[r].mark = "child"
        /\ \A r \in RowIds : IF r \in Prep(second) THEN T3[r].mark = "-" ELSE T3[r] = T2[r]
    BY <1>6, <2>1, <2>2, PrepStage, PrepKeeps
  <2>4. \A r \in RowIds : r \in Prep(second) => T3[r].st # "CANCELLED"
    <3>1. \A n \in Nodes : PrepRow(n).st # "CANCELLED"
      BY DEF PrepRow, NoRow
    <3> QED
      BY <2>1, <3>1, PrepRows, RowNode DEF prep_node_rows
  <2> HIDE DEF T3
  <2>5. Together(T3)
    BY <1>6, <2>1, <2>2, <2>3, <2>4, NewRowsTogether
  <2>6. \A r \in C : /\ T3[r].st # "none" /\ T3[r].mark # "child"
                     /\ o[r] = "async" => T3[r].st = "RUNNING"
    <3>1. \A r \in C : r \in Rows(T3) /\ r \in RowIds
      BY <1>4, <1>6, <2>3
    <3>2. \A r \in C : T2[r].st = "RUNNING" => T3[r] = T2[r]
      BY <1>4, <2>3 DEF Follows
    <3> QED
      BY <1>6, <2>3, <3>1, <3>2 DEF Rows, Exists
  <2>7. ASSUME NEW r \in RowIds, r[4] = 0, T3[r].st # "none", NEW e \in Incoming[r[1]],
               NEW q \in RowsOf(T3, e.from)
        PROVE  Terminal(T3, q)
    <3>1. /\ e \in Edges /\ e.to = r[1] /\ e.from \in Nodes /\ r[1] \in Nodes
          /\ NodeType[e.from] # "end" /\ NodeType[r[1]] # "start"
      BY RowNode, GraphAssumption, ControlNodeAssumption DEF Incoming
    <3>2. q \in RowIds /\ q[1] = e.from /\ q[4] = 0 /\ T3[q].st # "none"
      BY <3>1, OwnRow
    <3>3. CASE e.from \in Starts
      BY <2>3, <3>2, <3>3 DEF Orderly, Starts, Terminal, TERMINAL_STATUSES
    <3>4. q \in RowsOf(T2, e.from)
      <4>1. q \in Rows(T3)
        BY <3>2 DEF Rows, Exists
      <4>2. q \notin Prep(second)
        BY <2>1, <3>1, <3>2, PrepNode DEF Ends
      <4> QED
        BY <2>3, <3>1, <3>2, <4>1, <4>2, OwnRow DEF Rows, Exists
    <3>5. r \in Prep(N) \cup Prep(second)
      <4>1. r \in Rows(T3)
        BY <2>7 DEF Rows, Exists
      <4> QED
        BY <1>5, <1>6, <2>3, <2>7, <4>1
    <3>6. CASE r \in Prep(second)
      <4>1. r[1] \in compute_next_runnables(T2)
        BY <2>1, <3>6, PrepNode
      <4>2. Terminal(T2, q)
        BY <1>6, <3>4, <4>1, RunnableAfter
      <4> QED
        BY <2>3, <3>2, <4>2 DEF Follows
    <3>7. CASE r \in Prep(N) /\ e.from \notin Starts
      <4>1. r[1] \in first
        BY <3>1, <3>7, PrepNode DEF N, Starts
      <4>2. RowsOf(EmptyTable, e.from) # {}
        BY <3>7, <4>1, EmptyTableKept, RunnableAfter DEF first
      <4> QED
        BY <3>1, <4>2, EmptyTableKept
    <3> QED
      BY <3>3, <3>5, <3>6, <3>7
  <2> QED
    BY <1>8, <2>3, <2>5, <2>6, <2>7 DEF TriggerKept
<1> HIDE DEF second, T3
<1> QED
  BY <1>2a, <1>4, <1>7, <1>8

-----------------------------------------------------------------------------
(* The steps of a lone daemon.                                             *)

(* A tick that ends without having written anything.                       *)
Fruitless(t) == Conflict(t) \/ DispatchRaises(t) \/ CrashTick(t)

(* Steps that leave the rows, the execution and the callbacks alone.       *)
Aside(t) ==
    \/ StartTick(t) \/ LoadRunning(t) \/ BeginTx(t) \/ Reread(t) \/ Fruitless(t)
    \/ \E r \in RowIds : PollKeep(t, r) \/ PollDone(t, r) \/ PollTimeout(t, r) \/ JobEnds(r)

LEMMA LoneSteps ==
    ASSUME OneDaemon, Alone, Next
    PROVE  trigger_workflow \/ \E t \in Tickers : Commit(t) \/ Aside(t)
<1>1. Env \cap {"push", "sync", "E4401", "E3111", "cancel", "cancel_workflow", "retry_node",
                "skip_node", "approve_node", "rerun"} = {}
  BY DEF OneDaemon
<1>2. PICK u \in Tickers : TRUE
  BY RunnerAssumption DEF OneDaemon
<1>3. ASSUME NEW r \in RowIds, ReadResult(r) \/ WriteResult(r) \/ sync_stale_workflow_node(r)
      PROVE  FALSE
  BY <1>1, <1>3 DEF ReadResult, WriteResult, sync_stale_workflow_node, Alone
<1>4. ASSUME NEW n \in Nodes, NEW i, approve_node(n) \/ retry_node(n, i) \/ skip_node(n, i)
      PROVE  FALSE
  BY <1>1, <1>4 DEF approve_node, retry_node, skip_node
<1>5. ~(Cancel \/ cancel_workflow \/ rerun_failed_only)
  BY <1>1 DEF Cancel, cancel_workflow, rerun_failed_only
<1>6. ASSUME NEW t \in Tickers, NEW r \in RowIds, PollGiveUp(t, r) \/ PollRaises(t, r)
      PROVE  FALSE
  BY <1>1, <1>6 DEF PollGiveUp, PollRaises
<1> QED
  BY <1>2, <1>3, <1>4, <1>5, <1>6 DEF Next, Tick, Aside, Fruitless, FinishJob, LateResult

LEMMA AsideFrame ==
    ASSUME NEW t \in Tickers, t \in Wrapped, Aside(t)
    PROVE  UNCHANGED <<exec, db, callback>>
<1>1. CASE StartTick(t) \/ LoadRunning(t) \/ BeginTx(t) \/ Reread(t) \/ Fruitless(t)
  BY <1>1 DEF StartTick, LoadRunning, BeginTx, Reread, Fruitless, Conflict, DispatchRaises, CrashTick
<1>2. ASSUME NEW r \in RowIds, PollKeep(t, r) \/ JobEnds(r)
      PROVE  UNCHANGED <<exec, db, callback>>
  BY <1>2 DEF PollKeep, JobEnds
<1>3. ASSUME NEW r \in RowIds, PollDone(t, r) \/ PollTimeout(t, r)
      PROVE  UNCHANGED <<exec, db, callback>>
  BY <1>3 DEF PollDone, PollTimeout, SavePolled
<1> QED
  BY <1>1, <1>2, <1>3 DEF Aside

(* No step but a dispatch makes a job live, none but a commit kills one.   *)
LEMMA AsideJobs ==
    ASSUME IInv, NEW t \in Tickers, t \in Wrapped, Aside(t)
    PROVE  \A r \in RowIds : job'[r] \in {"active", "killed"} => job[r] = job'[r]
<1>0. job \in [RowIds -> JobStates]
  BY DEF IInv, TypeOK
<1>1. CASE StartTick(t) \/ LoadRunning(t) \/ BeginTx(t) \/ Reread(t) \/ Fruitless(t)
  BY <1>1 DEF StartTick, LoadRunning, BeginTx, Reread, Fruitless, Conflict, DispatchRaises, CrashTick
<1>2. ASSUME NEW r \in RowIds, PollKeep(t, r) \/ PollDone(t, r) \/ PollTimeout(t, r)
      PROVE  job' = job
  BY <1>2 DEF PollKeep, PollDone, PollTimeout
<1>3. ASSUME NEW r \in RowIds, JobEnds(r)
      PROVE  \A q \in RowIds : job'[q] \in {"active", "killed"} => job[q] = job'[q]
  BY <1>0, <1>3 DEF JobEnds
<1> QED
  BY <1>1, <1>2, <1>3 DEF Aside

(* The daemon saves a polled row: in its open transaction only.            *)
LEMMA SaveAlone ==
    ASSUME TypeOK, NEW t \in Tickers, Tickers = {t}, t \in Wrapped, Alone,
           NEW r \in snap[t], pc[t] = "poll", UNCHANGED job, job[r] = "active" => r \in aborts'[t],
           aborts[t] \subseteq aborts'[t], aborts'[t] \subseteq aborts[t] \cup {r},
           NEW s \in {"SUCCESS", "FAILED", "CANCELLED"}, NEW e, SavePolled(t, r, s, e)
    PROVE  Alone'
<1>0. /\ r \in RowIds /\ view[t] \in Tables /\ snap[t] \subseteq RowIds /\ wrote[t] \subseteq RowIds
  BY DEF TypeOK
<1>1. /\ view'[t] = [view[t] EXCEPT ![r].st = s, ![r].err = e]
      /\ wrote'[t] = wrote[t] \cup {r} /\ snap'[t] = snap[t] \ {r}
      /\ UNCHANGED <<db, exec, callback, pc>>
  BY <1>0 DEF SavePolled, TypeOK, Tables, Row
<1>2. /\ view'[t][r].st = s /\ view'[t][r].mark = view[t][r].mark
      /\ \A q \in RowIds : q # r => view'[t][q] = view[t][q]
  BY <1>0, <1>1 DEF Tables, Row
<1>3. /\ snap[t] \subseteq Running(db) \ wrote[t]
      /\ \A q \in RowIds \ wrote[t] : view[t][q] = db[q]
      /\ aborts[t] \subseteq wrote[t]
      /\ \A q \in wrote[t] : /\ db[q].st = "RUNNING" /\ (job[q] = "active" => q \in aborts[t])
                             /\ view[t][q].mark = db[q].mark
                             /\ view[t][q].st \in {"SUCCESS", "FAILED", "CANCELLED"}
      /\ exec = "running" /\ \A q \in RowIds : callback[q] = "-"
  BY DEF Alone
<1>4. db[r].st = "RUNNING" /\ r \notin wrote[t] /\ view[t][r] = db[r]
  BY <1>0, <1>3 DEF Running
<1>5. snap'[t] \subseteq Running(db') \ wrote'[t]
  BY <1>1, <1>3 DEF Running
<1>6. \A q \in RowIds \ wrote'[t] : view'[t][q] = db'[q]
  BY <1>1, <1>2, <1>3
<1>7. \A q \in wrote'[t] : /\ db'[q].st = "RUNNING" /\ (job'[q] = "active" => q \in aborts'[t])
                           /\ view'[t][q].mark = db'[q].mark
                           /\ view'[t][q].st \in {"SUCCESS", "FAILED", "CANCELLED"}
  BY <1>0, <1>1, <1>2, <1>3, <1>4
<1>8. pc'[t] = "poll" /\ exec' = "running" /\ \A q \in RowIds : callback'[q] = "-"
  BY <1>1, <1>3
<1>9. (\A u \in Tickers : u = t) /\ aborts'[t] \subseteq wrote'[t]
  BY <1>1, <1>3
<1> QED
  BY <1>5, <1>6, <1>7, <1>8, <1>9 DEF Alone

LEMMA AsideAlone ==
    ASSUME OneDaemon, IInv, Alone, JobsAccountedFor, NEW t \in Tickers, Aside(t)
    PROVE  Alone'
<1>0. Tickers = {t} /\ t \in Wrapped /\ TypeOK
  BY DEF OneDaemon, IInv
<1>1. UNCHANGED <<exec, db, callback>>
  BY <1>0, AsideFrame
<1>2. \A r \in RowIds : job'[r] = "active" => job[r] = "active"
  BY <1>0, AsideJobs
<1>3. CASE StartTick(t)
  <2>1. /\ pc[t] = "idle" /\ pc'[t] = "load" /\ exec = "running"
        /\ UNCHANGED <<view, snap, wrote, aborts, job>>
    BY <1>0, <1>3 DEF StartTick, TypeOK
  <2> QED
    BY <1>0, <1>1, <2>1 DEF Alone
<1>4. CASE LoadRunning(t)
  <2>1. /\ pc[t] = "load" /\ pc'[t] = "poll" /\ snap'[t] = Running(db) /\ view'[t] = db
        /\ UNCHANGED <<wrote, aborts>>
    BY <1>0, <1>4 DEF LoadRunning, TypeOK, Running
  <2> QED
    BY <1>0, <1>1, <2>1 DEF Alone
<1>5. CASE BeginTx(t)
  <2>1. pc[t] = "poll" /\ pc'[t] = "tx" /\ UNCHANGED <<view, snap, wrote, aborts, job>>
    BY <1>0, <1>5 DEF BeginTx, TypeOK
  <2> QED
    BY <1>0, <1>1, <2>1 DEF Alone
<1>5a. CASE Reread(t)
  <2>1. pc[t] = "tx" /\ view'[t] = Current(t) /\ UNCHANGED <<pc, snap, wrote, aborts, job>>
    BY <1>0, <1>5a DEF Reread, TypeOK
  <2>2. \A r \in RowIds : view'[t][r] = IF r \in wrote[t] THEN view[t][r] ELSE db[r]
    BY <2>1 DEF Current
  <2>3. wrote[t] \subseteq RowIds
    BY <1>0 DEF TypeOK
  <2> QED
    BY <1>0, <1>1, <2>1, <2>2, <2>3 DEF Alone
<1>6. CASE Fruitless(t)
  <2>1. EndTick(t)
    BY <1>6 DEF Fruitless, Conflict, DispatchRaises, CrashTick
  <2>2. pc'[t] = "idle" /\ snap'[t] = {} /\ wrote'[t] = {} /\ aborts'[t] = {}
    BY <2>1 DEF EndTick, IInv, TypeOK
  <2> QED
    BY <1>0, <1>1, <2>2 DEF Alone
<1>7. ASSUME NEW r \in RowIds, PollKeep(t, r)
      PROVE  Alone'
  <2>1. snap'[t] \subseteq snap[t] /\ UNCHANGED <<job, pc, view, wrote, aborts>>
    BY <1>0, <1>7 DEF PollKeep, TypeOK
  <2> QED
    BY <1>0, <1>1, <2>1 DEF Alone
<1>8. ASSUME NEW r \in RowIds, PollDone(t, r)
      PROVE  Alone'
  <2> DEFINE s == transition_status("RUNNING", PollRow(job[r]).st)
             e == PollRow(job[r]).err
  <2>1. s \in {"SUCCESS", "FAILED", "CANCELLED"}
    BY <1>8, PollOutcome DEF PollDone
  <2>2. /\ SavePolled(t, r, s, e) /\ UNCHANGED <<job, aborts>> /\ r \in snap[t] /\ pc[t] = "poll"
        /\ job[r] # "active"
    BY <1>8 DEF PollDone, FinishedJobs
  <2> HIDE DEF s, e
  <2> QED
    BY <1>0, <2>1, <2>2, SaveAlone
<1>9. ASSUME NEW r \in RowIds, PollTimeout(t, r)
      PROVE  Alone'
  <2>1. SavePolled(t, r, "FAILED", "retryable") /\ r \in snap[t] /\ pc[t] = "poll"
    BY <1>9 DEF PollTimeout
  <2>2. job' = job /\ aborts'[t] = aborts[t] \cup {r}
    BY <1>0, <1>9 DEF PollTimeout, TypeOK
  <2> QED
    BY <1>0, <2>1, <2>2, SaveAlone
<1>10. ASSUME NEW r \in RowIds, JobEnds(r)
       PROVE  Alone'
  <2>1. UNCHANGED <<pc, snap, view, wrote, aborts>>
    BY <1>10 DEF JobEnds, tick
  <2>2. wrote[t] \subseteq RowIds
    BY <1>0 DEF TypeOK
  <2> QED
    BY <1>0, <1>1, <1>2, <2>1, <2>2 DEF Alone
<1> QED
  BY <1>3, <1>4, <1>5, <1>5a, <1>6, <1>7, <1>8, <1>9, <1>10 DEF Aside

LEMMA CommitSInv ==
    ASSUME OneDaemon, SInv, NEW t \in Tickers, Commit(t)
    PROVE  Alone' /\ Orderly(db') /\ Judged(db') /\ JobsAccountedFor' /\ HonestResult'
<1>0. Tickers = {t} /\ IInv /\ Alone /\ Orderly(db) /\ Judged(db) /\ pc[t] = "tx"
  BY DEF OneDaemon, SInv, Commit
<1>1. PICK b \in {BeforeDispatch(t)}, T2 \in Tables, N \in SUBSET Nodes :
           \E o \in DispatchChoices(Candidates(b.table, b.created)) :
           \E a \in {AfterDispatching(b, o)} :
              /\ BeforeKept(t, b, T2, N)
              /\ AfterKept(b, Candidates(b.table, b.created), o, a)
              /\ db' = a.table
              /\ exec' = finalize_workflow_if_done(a.table)
              /\ job' = StartJobs(KillJobs(job, b.cancel \cup aborts[t]), o)
  BY <1>0, LoneCommit
<1> DEFINE C == Candidates(b.table, b.created)
<1> HIDE DEF C
<1>1a. PICK o \in DispatchChoices(C) : \E a \in {AfterDispatching(b, o)} :
              /\ BeforeKept(t, b, T2, N)
              /\ AfterKept(b, C, o, a)
              /\ db' = a.table
              /\ exec' = finalize_workflow_if_done(a.table)
              /\ job' = StartJobs(KillJobs(job, b.cancel \cup aborts[t]), o)
  BY <1>1 DEF C
<1>2. PICK a \in {AfterDispatching(b, o)} :
              /\ BeforeKept(t, b, T2, N)
              /\ AfterKept(b, C, o, a)
              /\ db' = a.table
              /\ exec' = finalize_workflow_if_done(a.table)
              /\ job' = StartJobs(KillJobs(job, b.cancel \cup aborts[t]), o)
  BY <1>1a
<1>3. db' \in Tables /\ Orderly(db') /\ Judged(db') /\ Follows(db', b.table, {})
      /\ \A r \in C : o[r] = "async" => db'[r].st = "RUNNING"
  BY <1>2 DEF AfterKept
<1>4. Alone'
  <2>1. /\ pc'[t] = "idle" /\ snap'[t] = {} /\ wrote'[t] = {} /\ aborts'[t] = {}
        /\ callback' = callback
    BY <1>0 DEF Commit, EndTick, IInv, TypeOK
  <2> QED
    BY <1>0, <2>1 DEF Alone
<1>5. JobsAccountedFor'
  <2> SUFFICES ASSUME NEW r \in RowIds
              PROVE  /\ job'[r] = "active" => db'[r].st = "RUNNING"
                     /\ job'[r] = "killed" => Terminal(db', r)
    BY DEF JobsAccountedFor
  <2>1. DOMAIN o = C
    BY DEF DispatchChoices
  <2>2. CASE r \in C /\ o[r] = "async"
    BY <1>2, <1>3, <2>1, <2>2 DEF StartJobs
  <2>3. ASSUME ~(r \in C /\ o[r] = "async"), job'[r] = "active"
        PROVE  db'[r].st = "RUNNING"
    <3>1. job[r] = "active" /\ r \notin b.cancel \cup aborts[t]
      BY <1>2, <2>1, <2>3 DEF StartJobs, KillJobs
    <3>2. db[r].st = "RUNNING" /\ r \notin wrote[t]
      BY <1>0, <3>1 DEF SInv, JobsAccountedFor, Alone
    <3>3. view[t][r].st = "RUNNING"
      BY <1>0, <3>2 DEF Alone
    <3>4. T2[r].st = "RUNNING"
      BY <1>2, <3>1, <3>3 DEF BeforeKept, Follows
    <3>5. b.table[r].st = "RUNNING"
      BY <1>2, <3>4 DEF BeforeKept, Follows
    <3> QED
      BY <1>3, <3>5 DEF Follows
  <2>4. ASSUME ~(r \in C /\ o[r] = "async"), job'[r] = "killed"
        PROVE  Terminal(db', r)
    <3>1. job[r] = "killed" \/ r \in b.cancel \/ r \in aborts[t]
      BY <1>2, <2>1, <2>4 DEF StartJobs, KillJobs
    <3>2. Terminal(view[t], r) \/ r \in b.cancel
      <4>1. CASE job[r] = "killed"
        <5>1. Terminal(db, r)
          BY <4>1 DEF SInv, JobsAccountedFor
        <5>2. Follows(view[t], db, wrote[t])
          BY <1>0, LoneView
        <5> QED
          BY <5>1, <5>2 DEF Follows
      <4>2. CASE r \in aborts[t]
        BY <1>0, <4>2 DEF Alone, Terminal, TERMINAL_STATUSES
      <4> QED
        BY <3>1, <4>1, <4>2
    <3>3. Terminal(T2, r)
      BY <1>2, <3>2 DEF BeforeKept, Follows
    <3>4. Terminal(b.table, r)
      BY <1>2, <3>3 DEF BeforeKept, Follows
    <3> QED
      BY <1>3, <3>4 DEF Follows
  <2> QED
    BY <2>2, <2>3, <2>4
<1>6. HonestResult'
  <2>1. exec' = finalize_workflow_if_done(db')
    BY <1>2
  <2> QED
    BY <1>3, <2>1, HonestFinal DEF HonestResult
<1> QED
  BY <1>3, <1>4, <1>5, <1>6

LEMMA TriggerSInv ==
    ASSUME SInv, trigger_workflow
    PROVE  Alone' /\ Orderly(db') /\ Judged(db') /\ JobsAccountedFor' /\ HonestResult'
<1>0. exec = "none" /\ UNCHANGED <<callback, tick>> /\ IInv
  BY DEF trigger_workflow, SInv
<1>1. Rows(db) = {} /\ \A r \in RowIds : db[r].st = "none"
  BY <1>0 DEF IInv, Database, Rows, Exists
<1>2. \A t \in Tickers : pc[t] = "idle" /\ wrote[t] = {} /\ aborts[t] = {} /\ snap[t] = {}
  BY <1>0, <1>1 DEF SInv, Alone, Running
<1>3. Alone'
  BY <1>0, <1>2 DEF SInv, Alone, tick
<1>3a. PICK C \in SUBSET RowIds : \E o \in DispatchChoices(C) :
         \/ exec' = "error" /\ UNCHANGED <<db, job>>
         \/ TriggerKept(C, o)
  BY <1>0, TriggerKeeps
<1>4. PICK o \in DispatchChoices(C) :
         \/ exec' = "error" /\ UNCHANGED <<db, job>>
         \/ TriggerKept(C, o)
  BY <1>3a
<1>5. CASE exec' = "error" /\ UNCHANGED <<db, job>>
  BY <1>3, <1>5 DEF SInv, JobsAccountedFor, HonestResult
<1>6. CASE TriggerKept(C, o)
  <2>1. Orderly(db') /\ Judged(db') /\ db' \in Tables /\ exec' = finalize_workflow_if_done(db')
    BY <1>6 DEF TriggerKept
  <2>2. HonestResult'
    BY <2>1, HonestFinal DEF HonestResult
  <2>3. JobsAccountedFor'
    <3>0. \A r \in RowIds : job[r] \notin {"active", "killed"}
      BY <1>1 DEF SInv, JobsAccountedFor, Terminal, TERMINAL_STATUSES
    <3> SUFFICES ASSUME NEW r \in RowIds, job'[r] = "active" PROVE db'[r].st = "RUNNING"
      BY <1>6, <3>0 DEF JobsAccountedFor, TriggerKept, StartJobs
    <3>1. job[r] # "active"
      BY <3>0
    <3>2. r \in DOMAIN o /\ o[r] = "async"
      BY <1>6, <3>1 DEF TriggerKept, StartJobs
    <3>3. r \in C
      BY <3>2 DEF DispatchChoices
    <3> QED
      BY <1>6, <3>2, <3>3 DEF TriggerKept
  <2> QED
    BY <1>3, <2>1, <2>2, <2>3
<1> QED
  BY <1>4, <1>5, <1>6

LEMMA NextSInv ==
    ASSUME OneDaemon, SInv, [Next]_vars
    PROVE  SInv'
<1>0. IInv /\ IInv'
  BY NextIInv DEF SInv
<1>1. CASE trigger_workflow
  BY <1>0, <1>1, TriggerSInv DEF SInv
<1>2. ASSUME NEW t \in Tickers, Commit(t)
      PROVE  SInv'
  BY <1>0, <1>2, CommitSInv DEF SInv
<1>3. ASSUME NEW t \in Tickers, Aside(t)
      PROVE  SInv'
  <2>1. UNCHANGED <<exec, db, callback>>
    BY <1>3, AsideFrame DEF OneDaemon
  <2>2. JobsAccountedFor'
    BY <1>0, <1>3, <2>1, AsideJobs DEF OneDaemon, SInv, JobsAccountedFor
  <2>3. Alone'
    BY <1>0, <1>3, AsideAlone DEF SInv
  <2>4. HonestResult' /\ Orderly(db') /\ Judged(db')
    BY <2>1 DEF SInv, HonestResult
  <2> QED
    BY <1>0, <2>2, <2>3, <2>4 DEF SInv
<1>4. CASE UNCHANGED vars
  BY <1>0, <1>4 DEF vars, SInv, Alone, JobsAccountedFor, HonestResult
<1> QED
  BY <1>1, <1>2, <1>3, <1>4, LoneSteps DEF SInv

LEMMA InitSInv == Init => SInv
<1> SUFFICES ASSUME Init PROVE SInv
  OBVIOUS
<1>1. IInv
  BY InitIInv
<1>2. Orderly(db) /\ Judged(db)
  BY EmptyTableKept DEF Init
<1>3. Alone
  BY EmptyTableKept DEF Init, Alone, Running
<1> QED
  BY <1>1, <1>2, <1>3 DEF Init, SInv, JobsAccountedFor, HonestResult

LEMMA SerialInvariant ==
    ASSUME OneDaemon
    PROVE  Spec => []SInv
<1>1. SInv /\ [Next]_vars => SInv'
  BY NextSInv
<1> QED
  BY <1>1, InitSInv, PTL DEF Spec

-----------------------------------------------------------------------------
(* The theorems.                                                           *)

(* With the daemon as its only caller, the engine never loses a job, also  *)
(* when ticks are rolled back: one that is not behind a RUNNING row was    *)
(* told to stop, in the transaction that closed its row.                   *)
THEOREM JobsHaveRows ==
    ASSUME OneDaemon
    PROVE  Spec => []JobsAccountedFor
<1>1. SInv => JobsAccountedFor
  BY DEF SInv
<1> QED
  BY <1>1, SerialInvariant, PTL

(* The execution's final status is the rows': every business node decided, *)
(* every row finished, success without a failure or a cancellation.        *)
THEOREM ResultIsHonest ==
    ASSUME OneDaemon
    PROVE  Spec => []HonestResult
<1>1. SInv => HonestResult
  BY DEF SInv
<1> QED
  BY <1>1, SerialInvariant, PTL

(* An aggregated loop row says what its children say, for good: they are   *)
(* all finished, and it failed when one of them did.                       *)
THEOREM LoopsAreJudged ==
    ASSUME OneDaemon
    PROVE  Spec => []LoopVerdict
<1>1. SInv => LoopVerdict
  <2> SUFFICES ASSUME SInv, NEW r \in RowIds, db[r].mark = "agg"
              PROVE  /\ \A q \in ChildrenOf(db, r[1]) : Terminal(db, q)
                     /\ db[r].st = "FAILED" <=> \E q \in ChildrenOf(db, r[1]) : db[q].st = "FAILED"
    BY DEF LoopVerdict
  <2>1. Judged(db)
    BY DEF SInv
  <2> QED
    BY <2>1 DEF Judged
<1> QED
  BY <1>1, SerialInvariant, PTL

(* VALID_TRANSITIONS: a lone daemon never leaves a terminal status, except *)
(* that aggregation replaces the one a loop row got from its dispatch.     *)
THEOREM TerminalIsFinal ==
    ASSUME OneDaemon
    PROVE  Spec => TerminalStable
<1>1. SInv /\ [Next]_vars =>
         [\A r \in RowIds :
             /\ Terminal(db, r)
             /\ ~(NodeType[r[1]] = "loop" /\ r[4] = 0 /\ db[r].mark # "agg")
             => db'[r].st = db[r].st]_vars
  <2> SUFFICES ASSUME SInv, Next, NEW r \in RowIds, Settled(db, r)
              PROVE  db'[r].st = db[r].st
    BY DEF Settled
  <2>0. IInv /\ Alone /\ Orderly(db) /\ Judged(db)
    BY DEF SInv
  <2>1. CASE trigger_workflow
    <3>1. Rows(db) = {}
      BY <2>0, <2>1 DEF trigger_workflow, IInv, Database
    <3> QED
      BY <3>1 DEF Rows, Exists, Settled, Terminal, TERMINAL_STATUSES
  <2>2. ASSUME NEW t \in Tickers, Commit(t)
        PROVE  db'[r].st = db[r].st
    <3>1. PICK b \in {BeforeDispatch(t)}, T2 \in Tables, N \in SUBSET Nodes :
             \E o \in DispatchChoices(Candidates(b.table, b.created)) :
             \E a \in {AfterDispatching(b, o)} :
                /\ BeforeKept(t, b, T2, N)
                /\ AfterKept(b, Candidates(b.table, b.created), o, a)
                /\ db' = a.table
      BY <2>0, <2>2, LoneCommit
    <3>2. Follows(T2, view[t], b.cancel) /\ Follows(b.table, T2, {}) /\ Follows(db', b.table, {})
      BY <3>1 DEF BeforeKept, AfterKept
    <3>3. Follows(view[t], db, wrote[t])
      BY <2>0, <2>2, LoneView DEF Commit
    <3>4. view[t][r] = db[r]
      BY <3>3 DEF Follows
    <3>5. T2[r] = db[r]
      BY <3>2, <3>4 DEF Follows, Settled, Terminal
    <3>6. b.table[r] = db[r]
      BY <3>2, <3>5 DEF Follows, Settled, Terminal
    <3> QED
      BY <3>2, <3>6 DEF Follows, Settled, Terminal
  <2>3. ASSUME NEW t \in Tickers, Aside(t)
        PROVE  db'[r].st = db[r].st
    BY <2>3, AsideFrame DEF OneDaemon
  <2> QED
    BY <2>0, <2>1, <2>2, <2>3, LoneSteps
<1> QED
  BY <1>1, SerialInvariant, PTL DEF Spec, TerminalStable

-----------------------------------------------------------------------------
(* Adapters are called once.  A tick that dies after the dispatch, or one  *)
(* whose dispatch handler raises, has called them for nothing: the next    *)
(* one calls them again.                                                   *)

Steady ==
    /\ "crash" \notin Env
    /\ Anonymous = {} \/ \A n \in Nodes : "raise" \notin Outcomes[n]

(* A row that is not there yet, or is a loop child still to be dispatched, *)
(* has cost no call.                                                       *)
Once ==
    \A r \in RowIds :
        /\ calls[r] <= 1
        /\ exec # "error" /\ (~Exists(db, r) \/ db[r].mark = "child") => calls[r] = 0

LEMMA CountOnce ==
    ASSUME TypeOK, Once, NEW C \in SUBSET RowIds, NEW o \in DispatchChoices(C),
           \A r \in C : calls[r] = 0, calls' = CountCalls(o)
    PROVE  /\ \A r \in RowIds : calls'[r] <= 1
           /\ \A r \in RowIds \ C : calls'[r] = calls[r]
<1>1. DOMAIN o = C
  BY DEF DispatchChoices
<1>2. \A r \in RowIds : calls'[r] = IF r \in Called(o) /\ calls[r] < 2 THEN calls[r] + 1 ELSE calls[r]
  BY DEF CountCalls
<1>3. \A r \in Called(o) : r \in C
  BY <1>1 DEF Called
<1>4. \A r \in RowIds : calls[r] <= 1 /\ calls[r] \in 0 .. 2
  BY DEF Once, TypeOK
<1> QED
  BY <1>2, <1>3, <1>4

(* A tick of a steady daemon ends with a commit, or with a retry row that  *)
(* is there already, before anything was dispatched.                       *)
LEMMA SteadyFruitless ==
    ASSUME SInv, Steady, NEW t \in Tickers, Fruitless(t)
    PROVE  /\ calls' = calls
           /\ \E b \in {BeforeDispatch(t)} : Taken(b.retry)
<1>0. IInv /\ Alone /\ Orderly(db) /\ Judged(db)
  BY DEF SInv
<1>1. ~CrashTick(t)
  BY DEF Steady, CrashTick
<1>2. ~DispatchRaises(t)
  <2> SUFFICES ASSUME DispatchRaises(t) PROVE FALSE
    OBVIOUS
  <2>1. t \in Anonymous /\ \E o \in Abandoned(t) : \E r \in DOMAIN o : Raised(o) = {r}
    BY DEF DispatchRaises
  <2>2. PICK o \in Abandoned(t) : \E r \in DOMAIN o : Raised(o) = {r}
    BY <2>1
  <2>3. PICK r \in DOMAIN o : o[r] = "raise"
    BY <2>2 DEF Raised
  <2>4. PICK b \in {BeforeDispatch(t)} :
           o \in UNION {DispatchChoices(D) : D \in SUBSET Candidates(b.table, b.created)}
    BY DEF Abandoned
  <2>5. PICK D \in SUBSET Candidates(b.table, b.created) : o \in DispatchChoices(D)
    BY <2>4
  <2>6. r \in D /\ D \subseteq RowIds
    BY <2>3, <2>5 DEF DispatchChoices, Candidates
  <2>7. o[r] \in Outcomes[r[1]] /\ r[1] \in Nodes
    BY <2>5, <2>6, RowNode DEF DispatchChoices
  <2> QED
    BY <2>1, <2>3, <2>7 DEF Steady
<1>3. Conflict(t) /\ pc[t] = "tx"
  BY <1>1, <1>2 DEF Fruitless, Conflict
<1>4. PICK b \in {BeforeDispatch(t)} :
         \/ /\ Taken(b.retry \cup b.created)
            /\ UNCHANGED calls
         \/ \E o \in DispatchChoices(Candidates(b.table, b.created)) :
               Taken(AfterDispatching(b, o).late)
  BY <1>3 DEF Conflict
<1>5. Taken(b.retry)
  <2> SUFFICES ASSUME ~Taken(b.retry) PROVE FALSE
    OBVIOUS
  <2>1. PICK T2 \in Tables, N \in SUBSET Nodes : BeforeKept(t, b, T2, N)
    BY <1>0, <1>3, BeforeKeeps
  <2>2. ~Taken(b.retry \cup b.created)
    BY <2>1 DEF BeforeKept, Taken
  <2> DEFINE C == Candidates(b.table, b.created)
  <2>3. PICK o \in DispatchChoices(C) : Taken(AfterDispatching(b, o).late)
    BY <1>4, <2>2
  <2> HIDE DEF C
  <2>4. AfterKept(b, C, o, AfterDispatching(b, o))
    BY <1>0, <2>1, AfterKeeps DEF C
  <2> QED
    BY <2>3, <2>4 DEF AfterKept
<1>6. Taken(b.retry \cup b.created)
  BY <1>5 DEF Taken
<1>7. calls' = calls
  <2>1. CASE Taken(b.retry \cup b.created) /\ UNCHANGED calls
    BY <2>1
  <2>2. PICK d \in {BeforeDispatch(t)} :
         \/ /\ Taken(d.retry \cup d.created)
            /\ UNCHANGED calls
         \/ ~Taken(d.retry \cup d.created)
    BY <1>3 DEF Conflict
  <2> QED
    BY <1>6, <2>2
<1> QED
  BY <1>5, <1>7

LEMMA CommitOnce ==
    ASSUME SInv, Once, NEW t \in Tickers, Commit(t)
    PROVE  Once'
<1>0. IInv /\ Alone /\ Orderly(db) /\ Judged(db) /\ TypeOK /\ exec = "running"
  BY DEF SInv, IInv, Commit, Alone
<1>1. PICK b \in {BeforeDispatch(t)}, T2 \in Tables, N \in SUBSET Nodes :
           \E o \in DispatchChoices(Candidates(b.table, b.created)) :
           \E a \in {AfterDispatching(b, o)} :
              /\ BeforeKept(t, b, T2, N)
              /\ AfterKept(b, Candidates(b.table, b.created), o, a)
              /\ db' = a.table
              /\ calls' = CountCalls(o)
  BY <1>0, LoneCommit
<1> DEFINE C == Candidates(b.table, b.created)
<1>2. PICK o \in DispatchChoices(C) : \E a \in {AfterDispatching(b, o)} :
              /\ BeforeKept(t, b, T2, N)
              /\ AfterKept(b, C, o, a)
              /\ db' = a.table
              /\ calls' = CountCalls(o)
  BY <1>1
<1>3. C \in SUBSET RowIds /\ \A r \in C : r \in b.created \/ b.table[r].mark = "child"
  BY DEF Candidates
<1>4. C \subseteq Rows(b.table)
  BY DEF Candidates, Rows, Exists
<1> HIDE DEF C
<1>5. /\ ~Taken(b.created) /\ \A r \in RowIds : b.table[r].mark = "child" => db[r].mark = "child"
      /\ Rows(db) \subseteq Rows(b.table)
  BY <1>2 DEF BeforeKept
<1>6. /\ calls' = CountCalls(o) /\ Rows(b.table) \subseteq Rows(db')
      /\ \A r \in C : db'[r].mark # "child"
      /\ \A r \in RowIds : db'[r].mark = "child" => b.table[r].mark = "child" \/ r \notin Rows(b.table)
  BY <1>2 DEF AfterKept
<1>7. \A r \in C : calls[r] = 0
  BY <1>0, <1>3, <1>5 DEF Once, Taken
<1>8. /\ \A r \in RowIds : calls'[r] <= 1
      /\ \A r \in RowIds \ C : calls'[r] = calls[r]
  BY <1>0, <1>3, <1>6, <1>7, CountOnce
<1>9. ASSUME NEW r \in RowIds, ~Exists(db', r) \/ db'[r].mark = "child"
      PROVE  calls'[r] = 0
  <2>1. r \notin C
    BY <1>4, <1>6, <1>9 DEF Rows
  <2>2. ~Exists(db, r) \/ db[r].mark = "child"
    BY <1>5, <1>6, <1>9 DEF Rows
  <2> QED
    BY <1>0, <1>8, <2>1, <2>2 DEF Once
<1> QED
  BY <1>8, <1>9 DEF Once

LEMMA TriggerOnce ==
    ASSUME SInv, Once, trigger_workflow
    PROVE  Once'
<1>0. IInv /\ TypeOK /\ exec = "none" /\ Rows(db) = {}
  BY DEF SInv, IInv, Database, trigger_workflow
<1>1. \A r \in RowIds : calls[r] = 0
  BY <1>0 DEF Once, Rows
<1>2. PICK C \in SUBSET RowIds : \E o \in DispatchChoices(C) :
              /\ calls' = CountCalls(o)
              /\ \/ exec' = "error" /\ UNCHANGED <<db, job>>
                 \/ TriggerKept(C, o)
  BY <1>0, TriggerKeeps
<1>3. PICK o \in DispatchChoices(C) :
              /\ calls' = CountCalls(o)
              /\ \/ exec' = "error" /\ UNCHANGED <<db, job>>
                 \/ TriggerKept(C, o)
  BY <1>2
<1>4. /\ \A r \in RowIds : calls'[r] <= 1
      /\ \A r \in RowIds \ C : calls'[r] = calls[r]
  BY <1>0, <1>1, <1>3, CountOnce
<1>5. CASE exec' = "error"
  BY <1>4, <1>5 DEF Once
<1>6. CASE TriggerKept(C, o)
  <2>1. \A r \in C : Exists(db', r) /\ db'[r].mark # "child"
    BY <1>6 DEF TriggerKept, Exists
  <2> QED
    BY <1>1, <1>4, <2>1 DEF Once
<1> QED
  BY <1>3, <1>5, <1>6

LEMMA NextOnce ==
    ASSUME OneDaemon, Steady, SInv, Once, [Next]_vars
    PROVE  Once'
<1>1. CASE trigger_workflow
  BY <1>1, TriggerOnce
<1>2. ASSUME NEW t \in Tickers, Commit(t)
      PROVE  Once'
  BY <1>2, CommitOnce
<1>3. ASSUME NEW t \in Tickers, Aside(t)
      PROVE  Once'
  <2>1. UNCHANGED <<exec, db, callback>>
    BY <1>3, AsideFrame DEF OneDaemon
  <2>2. calls' = calls
    <3>1. CASE Fruitless(t)
      BY <3>1, SteadyFruitless
    <3>2. CASE StartTick(t) \/ LoadRunning(t) \/ BeginTx(t) \/ Reread(t)
      BY <3>2 DEF StartTick, LoadRunning, BeginTx, Reread
    <3>3. ASSUME NEW r \in RowIds, PollKeep(t, r) \/ PollDone(t, r) \/ PollTimeout(t, r) \/ JobEnds(r)
          PROVE  calls' = calls
      BY <3>3 DEF PollKeep, PollDone, PollTimeout, JobEnds, SavePolled
    <3> QED
      BY <1>3, <3>1, <3>2, <3>3 DEF Aside
  <2> QED
    BY <2>1, <2>2 DEF Once
<1>4. CASE UNCHANGED vars
  BY <1>4 DEF vars, Once
<1> QED
  BY <1>1, <1>2, <1>3, <1>4, LoneSteps DEF SInv

(* advance_workflow's idempotency with the daemon alone: no adapter is     *)
(* called twice for a row, loop children and retry attempts included, also *)
(* when ticks conflict with an attempt that is there already.              *)
THEOREM CalledOnce ==
    ASSUME OneDaemon, Steady
    PROVE  Spec => []DispatchOnce
<1>1. Init => Once
  BY DEF Init, Once
<1>2. SInv /\ Once /\ [Next]_vars => Once'
  BY NextOnce
<1>3. Once => DispatchOnce
  BY DEF Once, DispatchOnce
<1> QED
  BY <1>1, <1>2, <1>3, SerialInvariant, PTL DEF Spec

-----------------------------------------------------------------------------
(* Nodes start after the nodes before them.  host_view_status calls a node *)
(* CANCELLED, and so terminal, while it has RUNNING rows on other hosts.   *)
(* What keeps a lone daemon from meeting one is that only fail_fast makes  *)
(* rows CANCELLED, and then every unfinished row of the execution at once: *)
(* a job it has told to stop has its row closed in the same transaction,   *)
(* so no poll finds a RUNNING row with an aborted job.                     *)

Unmixed ==
    /\ Together(db)
    /\ \A t \in Tickers : \A r \in wrote[t] : view[t][r].st # "CANCELLED"

LEMMA TogetherView ==
    ASSUME SInv, Unmixed, NEW t \in Tickers, pc[t] = "tx"
    PROVE  Together(view[t])
<1>1. Follows(view[t], db, wrote[t]) /\ Rows(view[t]) = Rows(db)
  BY LoneView DEF SInv
<1>2. \A r \in RowIds : view[t][r].st = "CANCELLED" => db[r].st = "CANCELLED"
  BY DEF SInv, Alone, Unmixed
<1>3. \A q \in RowIds : view[t][q].st # "none" => db[q].st # "none"
  BY <1>1 DEF Rows, Exists
<1> QED
  BY <1>1, <1>2, <1>3, TogetherKept DEF Unmixed

(* The commit of the daemon: rows that are new, not skipped and no retries *)
(* belong to nodes that are runnable in a table that agrees with db.       *)
LEMMA CommitKept ==
    ASSUME OneDaemon, SInv, Unmixed, NEW t \in Tickers, Commit(t)
    PROVE  /\ Unmixed'
           /\ \A n \in Nodes : \A r \in OwnRows[n] :
                ~Exists(db, r) /\ Exists(db', r) /\ db'[r].st # "SKIPPED" /\ r[3] = 1 =>
                   \A e \in Incoming[n] : \A q \in RowsOf(db', e.from) : Terminal(db', q)
<1>0. /\ IInv /\ TypeOK /\ Alone /\ Orderly(db) /\ Judged(db) /\ pc[t] = "tx"
      /\ \A u \in Tickers : u = t
  BY DEF OneDaemon, SInv, IInv, Commit
<1>1. PICK b \in {BeforeDispatch(t)}, T2 \in Tables, N \in SUBSET Nodes :
           \E o \in DispatchChoices(Candidates(b.table, b.created)) :
           \E a \in {AfterDispatching(b, o)} :
              /\ BeforeKept(t, b, T2, N)
              /\ AfterKept(b, Candidates(b.table, b.created), o, a)
              /\ db' = a.table
              /\ exec' = finalize_workflow_if_done(a.table)
              /\ job' = StartJobs(KillJobs(job, b.cancel \cup aborts[t]), o)
  BY <1>0, LoneCommit
<1> DEFINE C == Candidates(b.table, b.created)
<1> HIDE DEF C
<1>2. PICK o \in DispatchChoices(C) : \E a \in {AfterDispatching(b, o)} :
              /\ BeforeKept(t, b, T2, N)
              /\ AfterKept(b, C, o, a)
              /\ db' = a.table
              /\ exec' = finalize_workflow_if_done(a.table)
              /\ job' = StartJobs(KillJobs(job, b.cancel \cup aborts[t]), o)
  BY <1>1 DEF C
<1>3. Together(view[t])
  BY <1>0, TogetherView
<1>4. /\ Together(T2) /\ Together(b.table) /\ Orderly(T2)
      /\ \A r \in Rows(T2) : r \in Rows(db) \/ r[3] # 1
      /\ N \subseteq compute_next_runnables(T2) /\ \A n \in N : RowsOf(T2, n) = {}
      /\ Rows(b.table) = Rows(T2) \cup Prep(N) /\ Follows(b.table, T2, {})
  BY <1>2, <1>3 DEF BeforeKept
<1>5. /\ Together(db') /\ Orderly(db') /\ Follows(db', b.table, {})
      /\ \A r \in Rows(db') : r[4] = 0 /\ r \notin Rows(b.table) => db'[r].st = "SKIPPED"
  BY <1>2, <1>4 DEF AfterKept
<1>7. Unmixed'
  <2>1. wrote'[t] = {}
    BY <1>0 DEF Commit, EndTick, TypeOK
  <2> QED
    BY <1>0, <1>5, <2>1 DEF Unmixed
<1>8. ASSUME NEW n \in Nodes, NEW r \in OwnRows[n], ~Exists(db, r), Exists(db', r), db'[r].st # "SKIPPED", r[3] = 1,
             NEW e \in Incoming[n], NEW q \in RowsOf(db', e.from)
      PROVE  Terminal(db', q)
  <2>1. r \in RowIds /\ r[1] = n /\ r[4] = 0 /\ r \in Rows(db') /\ r \notin Rows(db)
    BY <1>8 DEF OwnRows, Rows
  <2>2. r \in Prep(N)
    BY <1>4, <1>5, <1>8, <2>1
  <2>3. n \in compute_next_runnables(T2)
    BY <1>4, <2>1, <2>2, PrepNode
  <2>4. /\ \A p \in RowsOf(T2, e.from) : Terminal(T2, p)
        /\ e.from \in Starts \/ RowsOf(T2, e.from) # {}
    BY <1>4, <2>3, RunnableAfter
  <2>5. e.from \in Nodes
    BY GraphAssumption DEF Incoming
  <2>6. q \in RowIds /\ q[1] = e.from /\ q[4] = 0 /\ db'[q].st # "none"
    BY <2>5, OwnRow
  <2>7. q \in Rows(db')
    BY <2>6 DEF Rows, Exists
  <2>8. CASE e.from \in Starts
    BY <1>5, <2>6, <2>8 DEF Orderly, Starts, Terminal, TERMINAL_STATUSES
  <2>9. CASE q \in Rows(T2)
    <3>1. q \in RowsOf(T2, e.from)
      BY <2>5, <2>6, <2>9, OwnRow DEF Rows, Exists
    <3>2. Terminal(T2, q)
      BY <2>4, <3>1
    <3>3. Terminal(b.table, q)
      BY <1>4, <2>6, <3>2 DEF Follows
    <3> QED
      BY <1>5, <2>6, <3>3 DEF Follows
  <2>10. CASE q \notin Rows(T2) /\ q \in Rows(b.table) /\ e.from \notin Starts
    BY <1>4, <2>4, <2>6, <2>10, PrepNode
  <2>11. CASE q \notin Rows(b.table)
    BY <1>5, <2>6, <2>7, <2>11 DEF Terminal, TERMINAL_STATUSES
  <2> QED
    BY <2>8, <2>9, <2>10, <2>11
<1> QED
  BY <1>7, <1>8

LEMMA TriggerUnmixed ==
    ASSUME SInv, Unmixed, trigger_workflow
    PROVE  Unmixed'
<1>0. IInv /\ UNCHANGED tick
  BY DEF SInv, trigger_workflow
<1>1. PICK C \in SUBSET RowIds : \E o \in DispatchChoices(C) :
         \/ exec' = "error" /\ UNCHANGED <<db, job>>
         \/ TriggerKept(C, o)
  BY <1>0, TriggerKeeps
<1>2. Together(db')
  BY <1>1 DEF Unmixed, TriggerKept
<1>3. UNCHANGED <<view, wrote>>
  BY <1>0 DEF tick
<1> QED
  BY <1>2, <1>3 DEF Unmixed

(* The daemon saves a row as something else than CANCELLED.                *)
LEMMA SaveUnmixed ==
    ASSUME OneDaemon, TypeOK, Unmixed, NEW t \in Tickers, NEW r \in snap[t],
           NEW s, s # "CANCELLED", NEW e, SavePolled(t, r, s, e)
    PROVE  Unmixed'
<1>0. /\ r \in RowIds /\ view[t] \in Tables /\ wrote[t] \subseteq RowIds
      /\ t \in Wrapped /\ \A u \in Tickers : u = t
  BY DEF TypeOK, OneDaemon
<1>1. /\ view'[t] = [view[t] EXCEPT ![r].st = s, ![r].err = e]
      /\ wrote'[t] = wrote[t] \cup {r} /\ db' = db
  BY <1>0 DEF SavePolled, TypeOK, Tables, Row
<1>2. /\ view'[t][r].st = s
      /\ \A q \in RowIds : q # r => view'[t][q] = view[t][q]
  BY <1>0, <1>1 DEF Tables, Row
<1>3. \A q \in wrote'[t] : view'[t][q].st # "CANCELLED"
  BY <1>0, <1>1, <1>2 DEF Unmixed
<1> QED
  BY <1>0, <1>1, <1>3 DEF Unmixed

LEMMA AsideUnmixed ==
    ASSUME OneDaemon, SInv, Unmixed, NEW t \in Tickers, Aside(t)
    PROVE  Unmixed'
<1>0. /\ t \in Wrapped /\ (\A u \in Tickers : u = t) /\ TypeOK /\ Alone
  BY DEF OneDaemon, SInv, IInv
<1>1. UNCHANGED <<exec, db, callback>>
  BY <1>0, AsideFrame
<1>2. CASE Fruitless(t)
  <2>1. EndTick(t)
    BY <1>2 DEF Fruitless, Conflict, DispatchRaises, CrashTick
  <2>2. wrote'[t] = {}
    BY <1>0, <2>1 DEF EndTick, TypeOK
  <2> QED
    BY <1>0, <1>1, <2>2 DEF Unmixed
<1>3. ASSUME NEW r, StartTick(t) \/ BeginTx(t) \/ PollKeep(t, r) \/ JobEnds(r)
      PROVE  Unmixed'
  <2>1. UNCHANGED <<view, wrote>>
    BY <1>0, <1>3 DEF StartTick, BeginTx, PollKeep, JobEnds, tick
  <2> QED
    BY <1>1, <2>1 DEF Unmixed
<1>4. CASE LoadRunning(t)
  <2>1. wrote[t] = {} /\ wrote' = wrote
    BY <1>0, <1>4 DEF LoadRunning, Alone
  <2> QED
    BY <1>0, <1>1, <2>1 DEF Unmixed
<1>5. CASE Reread(t)
  <2>1. wrote' = wrote /\ view'[t] = Current(t) /\ wrote[t] \subseteq RowIds
    BY <1>0, <1>5 DEF Reread, TypeOK
  <2>2. \A r \in wrote[t] : view'[t][r] = view[t][r]
    BY <2>1 DEF Current
  <2> QED
    BY <1>0, <1>1, <2>1, <2>2 DEF Unmixed
<1>7. ASSUME NEW r \in RowIds, PollDone(t, r)
      PROVE  Unmixed'
  <2> DEFINE s == transition_status("RUNNING", PollRow(job[r]).st)
             e == PollRow(job[r]).err
  <2>1. /\ SavePolled(t, r, s, e) /\ r \in snap[t] /\ pc[t] = "poll"
        /\ job[r] \in FinishedJobs
    BY <1>7 DEF PollDone
  <2>2. job[r] # "killed"
    <3>1. db[r].st = "RUNNING"
      BY <1>0, <2>1 DEF Alone, Running
    <3> QED
      BY <3>1 DEF SInv, JobsAccountedFor, Terminal, TERMINAL_STATUSES
  <2>3. s # "CANCELLED"
    BY <2>1, <2>2, PollOutcome DEF PollRow, FinishedJobs
  <2> HIDE DEF s, e
  <2> QED
    BY <1>0, <2>1, <2>3, SaveUnmixed
<1>8. ASSUME NEW r \in RowIds, PollTimeout(t, r)
      PROVE  Unmixed'
  <2>1. SavePolled(t, r, "FAILED", "retryable") /\ r \in snap[t]
    BY <1>8 DEF PollTimeout
  <2> QED
    BY <1>0, <2>1, SaveUnmixed
<1> QED
  BY <1>2, <1>3, <1>4, <1>5, <1>7, <1>8 DEF Aside

(* A node's rows are created only when every row of the nodes before it is *)
(* finished, on every host and at every attempt: a lone daemon keeps the   *)
(* DAG's order through timeouts, retries, conflicts and crashes.           *)
THEOREM UpstreamIsFinished ==
    ASSUME OneDaemon
    PROVE  Spec => StartsAfterUpstream
<1>1. Init => Unmixed
  BY EmptyTableKept DEF Init, Unmixed
<1>2. SInv /\ Unmixed /\ [Next]_vars => Unmixed'
  <2> SUFFICES ASSUME SInv, Unmixed, [Next]_vars PROVE Unmixed'
    OBVIOUS
  <2>1. CASE UNCHANGED vars
    BY <2>1 DEF vars, Unmixed
  <2>2. CASE Next
    BY <2>2, LoneSteps, TriggerUnmixed, CommitKept, AsideUnmixed DEF SInv
  <2> QED
    BY <2>1, <2>2
<1>3. SInv /\ Unmixed /\ [Next]_vars =>
        [\A n \in Nodes : \A r \in OwnRows[n] :
            ~Exists(db, r) /\ Exists(db', r) /\ db'[r].st # "SKIPPED" /\ r[3] = 1
            => \A e \in Incoming[n] : \A q \in RowsOf(db', e.from) : Terminal(db', q)]_vars
  <2> SUFFICES ASSUME SInv, Unmixed, Next, NEW n \in Nodes, NEW r \in OwnRows[n],
                      ~Exists(db, r), Exists(db', r), db'[r].st # "SKIPPED", r[3] = 1,
                      NEW e \in Incoming[n], NEW q \in RowsOf(db', e.from)
              PROVE  Terminal(db', q)
    OBVIOUS
  <2>0. IInv /\ Alone
    BY DEF SInv
  <2>1. CASE trigger_workflow
    <3>1. PICK C \in SUBSET RowIds : \E o \in DispatchChoices(C) :
             (exec' = "error" /\ UNCHANGED <<db, job>>) \/ TriggerKept(C, o)
      BY <2>0, <2>1, TriggerKeeps
    <3>2. PICK o \in DispatchChoices(C) :
             (exec' = "error" /\ UNCHANGED <<db, job>>) \/ TriggerKept(C, o)
      BY <3>1
    <3>3. db' # db
      OBVIOUS
    <3>4. r \in RowIds /\ r[1] = n /\ r[4] = 0 /\ db'[r].st # "none"
      BY DEF OwnRows, Exists
    <3> QED
      BY <3>2, <3>3, <3>4 DEF TriggerKept
  <2>2. ASSUME NEW t \in Tickers, Commit(t)
        PROVE  Terminal(db', q)
    BY <2>2, CommitKept
  <2>3. ASSUME NEW t \in Tickers, Aside(t)
        PROVE  FALSE
    BY <2>3, AsideFrame DEF OneDaemon
  <2> QED
    BY <2>0, <2>1, <2>2, <2>3, LoneSteps
<1> QED
  BY <1>1, <1>2, <1>3, SerialInvariant, PTL DEF Spec, StartsAfterUpstream

=============================================================================
