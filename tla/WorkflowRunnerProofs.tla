------------------------ MODULE WorkflowRunnerProofs ------------------------
(***************************************************************************)
(* Theorems about WorkflowRunner, for every DAG, every set of callers and  *)
(* every mix of user operations and faults.                                *)
(***************************************************************************)
EXTENDS WorkflowRunner, TLAPS

-----------------------------------------------------------------------------
(* Rows and tables.                                                        *)

(* The contents the engine writes are rows.                                *)
LEMMA RowTypes ==
    /\ NoRow \in Row
    /\ \A row \in Row : \A s \in Statuses : [row EXCEPT !.st = s] \in Row
    /\ \A n \in Nodes : /\ PrepRow(n) \in Row /\ PrepRow(n).mark = "-"
                       /\ PrepRow(n).st \notin {"none", "RUNNING"}
    /\ \A o \in DispatchOutcomes :
          /\ AfterDispatch(o) \in Row /\ AfterDispatch(o).st # "none" /\ AfterDispatch(o).mark = "-"
          /\ AfterDispatch(o).st = "RUNNING" => o = "async"
<1>1. NoRow \in Row
  BY DEF NoRow, Row
<1>2. \A row \in Row : \A s \in Statuses : [row EXCEPT !.st = s] \in Row
  BY DEF Row
<1>3. \A n \in Nodes : /\ PrepRow(n) \in Row /\ PrepRow(n).mark = "-"
                       /\ PrepRow(n).st \notin {"none", "RUNNING"}
  BY DEF PrepRow, NoRow, Row, Statuses
<1>4. \A o \in DispatchOutcomes :
         /\ AfterDispatch(o) \in Row /\ AfterDispatch(o).st # "none" /\ AfterDispatch(o).mark = "-"
         /\ AfterDispatch(o).st = "RUNNING" => o = "async"
  BY ZenonT(60) DEF AfterDispatch, NoRow, Row, Statuses, DispatchOutcomes, transition_status, ValidTransitions
<1> QED
  BY <1>1, <1>2, <1>3, <1>4

(* What a row name looks like.                                             *)
LEMMA RowShape ==
    \A r \in RowIds : \E n \in Nodes : \E h \in HostsOf[n] : \E k \in Nat : \E i \in Nat :
        r = <<n, h, k, i>>
<1> SUFFICES ASSUME NEW r \in RowIds
            PROVE  \E n \in Nodes : \E h \in HostsOf[n] : \E k \in Nat : \E i \in Nat :
                      r = <<n, h, k, i>>
  OBVIOUS
<1>1. PICK n \in Nodes : r \in OwnIds(n) \cup ItemIds(n)
  BY DEF RowIds
<1>2. CASE r \in OwnIds(n)
  <2>1. PICK h \in HostsOf[n], k \in Attempts(n) : r = <<n, h, k, 0>>
    BY <1>2 DEF OwnIds
  <2>2. k \in Nat
    BY GraphAssumption DEF Attempts
  <2> QED
    BY <2>1, <2>2
<1>3. CASE r \in ItemIds(n)
  <2>1. PICK h \in HostsOf[n], i \in 1 .. LoopItems[n] : r = <<n, h, 1, i>>
    BY <1>3 DEF ItemIds
  <2> QED
    BY <2>1, GraphAssumption
<1> QED
  BY <1>1, <1>2, <1>3

LEMMA RowNode == \A r \in RowIds : r[1] \in Nodes
  BY RowShape

LEMMA PrepIdsAreRows == \A n \in Nodes : PrepIds(n) \subseteq RowIds
<1> SUFFICES ASSUME NEW n \in Nodes, NEW h \in HostsOf[n]
            PROVE  <<n, h, 1, 0>> \in RowIds
  BY DEF PrepIds
<1>1. 1 \in Attempts(n)
  BY GraphAssumption DEF Attempts
<1>2. <<n, h, 1, 0>> \in OwnIds(n)
  BY <1>1 DEF OwnIds
<1> QED
  BY <1>2 DEF RowIds

-----------------------------------------------------------------------------
(* The stages of a tick.  Each maps a table to a table, keeps the rows it  *)
(* is given, adds a known set, marks as children only loop items, and only *)
(* the dispatch makes a row RUNNING.                                       *)

Rows(T) == {r \in RowIds : Exists(T, r)}
Prep(N) == UNION {PrepIds(n) : n \in N}
Running(T) == {r \in RowIds : T[r].st = "RUNNING"}
WellFormed(T) ==
    \A r \in RowIds : /\ T[r].mark = "child" => r[4] # 0
                      /\ T[r].st = "none" => T[r] = NoRow

LEMMA InsertPendingStage ==
    ASSUME NEW T \in Tables, NEW R
    PROVE  /\ InsertPending(T, R) \in Tables
           /\ Rows(InsertPending(T, R)) = Rows(T) \cup (R \cap RowIds)
           /\ WellFormed(T) => WellFormed(InsertPending(T, R))
           /\ Running(InsertPending(T, R)) \subseteq Running(T)
<1>1. [NoRow EXCEPT !.st = "PENDING"] \in Row
  BY RowTypes DEF Statuses
<1>2. /\ [NoRow EXCEPT !.st = "PENDING"].st = "PENDING"
      /\ [NoRow EXCEPT !.st = "PENDING"].mark = "-"
  BY DEF NoRow
<1> DEFINE F == InsertPending(T, R)
<1>3. /\ F \in Tables
      /\ \A r \in RowIds : F[r] = IF r \in R THEN [NoRow EXCEPT !.st = "PENDING"] ELSE T[r]
  BY <1>1 DEF InsertPending, Tables
<1> HIDE DEF F
<1>4. Rows(F) = Rows(T) \cup (R \cap RowIds)
  BY <1>2, <1>3 DEF Rows, Exists
<1>5. Running(F) \subseteq Running(T)
  BY <1>2, <1>3 DEF Running
<1>6. WellFormed(T) => WellFormed(F)
  BY <1>2, <1>3 DEF WellFormed
<1> QED
  BY <1>3, <1>4, <1>5, <1>6 DEF F

LEMMA CancelStage ==
    ASSUME NEW T \in Tables, NEW cur \in Tables, NEW R \in SUBSET Rows(cur)
    PROVE  /\ apply_fail_fast_cancel(T, cur, R) \in Tables
           /\ Rows(apply_fail_fast_cancel(T, cur, R)) = Rows(T) \cup R
           /\ WellFormed(T) /\ WellFormed(cur) => WellFormed(apply_fail_fast_cancel(T, cur, R))
           /\ Running(apply_fail_fast_cancel(T, cur, R)) \subseteq Running(T)
<1>1. \A r \in RowIds : /\ [cur[r] EXCEPT !.st = "CANCELLED"] \in Row
                        /\ [cur[r] EXCEPT !.st = "CANCELLED"].st = "CANCELLED"
                        /\ [cur[r] EXCEPT !.st = "CANCELLED"].mark = cur[r].mark
  BY DEF Tables, Row, Statuses
<1> DEFINE F == apply_fail_fast_cancel(T, cur, R)
<1>2. /\ F \in Tables
      /\ \A r \in RowIds : F[r] = IF r \in R THEN [cur[r] EXCEPT !.st = "CANCELLED"] ELSE T[r]
  BY <1>1 DEF apply_fail_fast_cancel, Tables
<1> HIDE DEF F
<1>3. Rows(F) = Rows(T) \cup R
  BY <1>1, <1>2 DEF Rows, Exists
<1>4. Running(F) \subseteq Running(T)
  BY <1>1, <1>2 DEF Running
<1>5. WellFormed(T) /\ WellFormed(cur) => WellFormed(F)
  BY <1>1, <1>2 DEF WellFormed
<1> QED
  BY <1>2, <1>3, <1>4, <1>5 DEF F

LEMMA AggregateStage ==
    ASSUME NEW T \in Tables
    PROVE  /\ aggregate_loop_children(T) \in Tables
           /\ Rows(aggregate_loop_children(T)) = Rows(T)
           /\ WellFormed(T) => WellFormed(aggregate_loop_children(T))
           /\ Running(aggregate_loop_children(T)) \subseteq Running(T)
<1> DEFINE failed == [st |-> "FAILED", err |-> "final", mark |-> "agg"]
           ok == [st |-> "SUCCESS", err |-> "-", mark |-> "agg"]
<1>1. failed \in Row /\ ok \in Row
  BY DEF Row, Statuses
<1>2. ToAggregate(T) \subseteq Rows(T)
  BY DEF ToAggregate, Rows
<1>3. \A r \in RowIds : \/ aggregate_loop_children(T)[r] = T[r]
                        \/ /\ r \in ToAggregate(T)
                           /\ aggregate_loop_children(T)[r] \in {failed, ok}
  BY DEF aggregate_loop_children
<1>4. aggregate_loop_children(T) = [r \in RowIds |-> aggregate_loop_children(T)[r]]
  BY DEF aggregate_loop_children
<1>5. aggregate_loop_children(T) \in Tables
  BY <1>1, <1>3, <1>4 DEF Tables
<1> DEFINE F == aggregate_loop_children(T)
<1> HIDE DEF F
<1>6. \A r \in RowIds : \/ F[r] = T[r]
                        \/ r \in Rows(T) /\ F[r].st \in {"FAILED", "SUCCESS"} /\ F[r].mark = "agg"
  BY <1>2, <1>3 DEF F
<1>7. Rows(F) = Rows(T)
  BY <1>6 DEF Rows, Exists
<1>8. Running(F) \subseteq Running(T)
  BY <1>6 DEF Running
<1>9. WellFormed(T) => WellFormed(F)
  BY <1>6 DEF WellFormed
<1> QED
  BY <1>5, <1>7, <1>8, <1>9 DEF F

LEMMA PrepStage ==
    ASSUME NEW T \in Tables, NEW N \in SUBSET Nodes
    PROVE  /\ prep_node_rows(T, N) \in Tables
           /\ Rows(prep_node_rows(T, N)) = Rows(T) \cup Prep(N)
           /\ WellFormed(T) => WellFormed(prep_node_rows(T, N))
           /\ Running(prep_node_rows(T, N)) \subseteq Running(T)
<1>1. \A r \in RowIds : r \in Prep(N) <=> r[1] \in N /\ r \in PrepIds(r[1])
  BY DEF Prep, PrepIds
<1>2. Prep(N) \subseteq RowIds
  BY PrepIdsAreRows DEF Prep
<1>3. \A r \in RowIds : prep_node_rows(T, N)[r] = IF r \in Prep(N) THEN PrepRow(r[1]) ELSE T[r]
  BY <1>1 DEF prep_node_rows
<1>4. prep_node_rows(T, N) \in Tables
  BY <1>1, RowTypes, RowNode DEF prep_node_rows, Tables
<1> DEFINE F == prep_node_rows(T, N)
<1> HIDE DEF F
<1>5. \A r \in RowIds : \/ r \notin Prep(N) /\ F[r] = T[r]
                        \/ r \in Prep(N) /\ F[r].st \notin {"none", "RUNNING"} /\ F[r].mark = "-"
  BY <1>3, RowTypes, RowNode DEF F
<1>6. Rows(F) = Rows(T) \cup Prep(N)
  BY <1>2, <1>5 DEF Rows, Exists
<1>7. Running(F) \subseteq Running(T)
  BY <1>5 DEF Running
<1>8. WellFormed(T) => WellFormed(F)
  BY <1>5 DEF WellFormed
<1> QED
  BY <1>4, <1>6, <1>7, <1>8 DEF F

LEMMA SkipStage ==
    ASSUME NEW T \in Tables, NEW N \in SUBSET Nodes
    PROVE  /\ insert_skipped(T, N) \in Tables
           /\ Rows(insert_skipped(T, N)) = Rows(T) \cup Prep(N)
           /\ WellFormed(T) => WellFormed(insert_skipped(T, N))
           /\ Running(insert_skipped(T, N)) \subseteq Running(T)
<1>1. \A r \in RowIds : r \in Prep(N) <=> r[1] \in N /\ r \in PrepIds(r[1])
  BY DEF Prep, PrepIds
<1>2. Prep(N) \subseteq RowIds
  BY PrepIdsAreRows DEF Prep
<1>3. /\ [NoRow EXCEPT !.st = "SKIPPED"] \in Row
      /\ [NoRow EXCEPT !.st = "SKIPPED"].st = "SKIPPED"
      /\ [NoRow EXCEPT !.st = "SKIPPED"].mark = "-"
  BY RowTypes DEF Statuses, NoRow
<1>4. \A r \in RowIds : insert_skipped(T, N)[r] =
                           IF r \in Prep(N) THEN [NoRow EXCEPT !.st = "SKIPPED"] ELSE T[r]
  BY <1>1 DEF insert_skipped
<1>5. insert_skipped(T, N) \in Tables
  BY <1>3 DEF insert_skipped, Tables
<1> DEFINE F == insert_skipped(T, N)
<1> HIDE DEF F
<1>6. \A r \in RowIds : \/ r \notin Prep(N) /\ F[r] = T[r]
                        \/ r \in Prep(N) /\ F[r].st = "SKIPPED" /\ F[r].mark = "-"
  BY <1>3, <1>4 DEF F
<1>7. Rows(F) = Rows(T) \cup Prep(N)
  BY <1>2, <1>6 DEF Rows, Exists
<1>8. Running(F) \subseteq Running(T)
  BY <1>6 DEF Running
<1>9. WellFormed(T) => WellFormed(F)
  BY <1>6 DEF WellFormed
<1> QED
  BY <1>5, <1>7, <1>8, <1>9 DEF F

LEMMA DispatchStage ==
    ASSUME NEW T \in Tables, NEW C \in SUBSET Rows(T), NEW o \in DispatchChoices(C)
    PROVE  /\ dispatch_pending(T, o) \in Tables
           /\ Rows(dispatch_pending(T, o)) = Rows(T) \cup Expanded(o)
           /\ WellFormed(T) => WellFormed(dispatch_pending(T, o))
           /\ Running(dispatch_pending(T, o)) \subseteq Running(T) \cup {r \in C : o[r] = "async"}
           /\ Called(o) \subseteq C
<1>1. o \in [C -> DispatchOutcomes] /\ C \subseteq RowIds
  BY DEF DispatchChoices, Rows
<1> DEFINE child == [NoRow EXCEPT !.st = "PENDING", !.mark = "child"]
<1>2. child \in Row /\ child.st = "PENDING" /\ child.mark = "child"
  BY DEF NoRow, Row, Statuses
<1>3. \A r \in Expanded(o) : r \in RowIds /\ r[4] # 0
  BY DEF Expanded
<1>4. \A r \in RowIds : dispatch_pending(T, o)[r] =
          IF r \in C THEN AfterDispatch(o[r]) ELSE IF r \in Expanded(o) THEN child ELSE T[r]
  BY <1>1 DEF dispatch_pending
<1>5. \A r \in C : /\ AfterDispatch(o[r]) \in Row /\ AfterDispatch(o[r]).st # "none"
                   /\ AfterDispatch(o[r]).mark = "-"
                   /\ AfterDispatch(o[r]).st = "RUNNING" => o[r] = "async"
  <2>1. \A r \in C : o[r] \in DispatchOutcomes
    BY <1>1
  <2> QED
    BY <2>1, RowTypes
<1>6. dispatch_pending(T, o) = [r \in RowIds |-> dispatch_pending(T, o)[r]]
  BY DEF dispatch_pending
<1> HIDE DEF child
<1>7. dispatch_pending(T, o) \in Tables
  BY <1>2, <1>4, <1>5, <1>6 DEF Tables
<1>8. Called(o) \subseteq C
  BY <1>1 DEF Called
<1>9. Rows(dispatch_pending(T, o)) = Rows(T) \cup Expanded(o)
  BY <1>2, <1>3, <1>4, <1>5 DEF Rows, Exists
<1>10. WellFormed(T) => WellFormed(dispatch_pending(T, o))
  BY <1>2, <1>3, <1>4, <1>5 DEF WellFormed
<1>11. Running(dispatch_pending(T, o)) \subseteq Running(T) \cup {r \in C : o[r] = "async"}
  BY <1>2, <1>4, <1>5 DEF Running
<1> QED
  BY <1>7, <1>8, <1>9, <1>10, <1>11

-----------------------------------------------------------------------------
(* The transaction of a tick.                                              *)

LEMMA BeforeDispatchFacts ==
    ASSUME TypeOK, NEW t \in Tickers, NEW b, b = BeforeDispatch(t)
    PROVE  \E T2 \in Tables : \E next \in SUBSET Nodes :
              /\ b.retry = retry_failed_rows(view[t], done[t])
              /\ b.cancel \subseteq RowIds
              /\ b.cancel \subseteq b.retry \cup Rows(db) \cup (wrote[t] \cap Rows(view[t]))
              /\ Rows(T2) = Rows(view[t]) \cup (b.retry \cap RowIds) \cup b.cancel
              /\ next \subseteq compute_next_runnables(T2)
              /\ b.ctx = refresh_ctx(T2)
              /\ b.created = Prep(next)
              /\ b.table \in Tables
              /\ Rows(b.table) = Rows(T2) \cup b.created
              /\ WellFormed(view[t]) /\ WellFormed(db) => WellFormed(b.table)
              /\ Running(b.table) \subseteq Running(view[t])
<1> DEFINE retry == retry_failed_rows(view[t], done[t])
           T1 == InsertPending(view[t], retry)
           cur == [r \in RowIds |-> IF r \in retry THEN T1[r] ELSE Current(t)[r]]
           cancel == ToCancel(T1, cur)
           Tc == apply_fail_fast_cancel(T1, cur, cancel)
           T2 == aggregate_loop_children(Tc)
           next == {n \in compute_next_runnables(T2) : RowsOf(T2, n) = {}}
<1>0. /\ b.retry = retry /\ b.cancel = cancel /\ b.ctx = refresh_ctx(T2)
      /\ b.created = Prep(next) /\ b.table = prep_node_rows(T2, next)
  BY DEF BeforeDispatch, Prep
<1>1. view[t] \in Tables /\ db \in Tables
  BY DEF TypeOK
<1> HIDE DEF retry
<1>2. /\ T1 \in Tables
      /\ Rows(T1) = Rows(view[t]) \cup (retry \cap RowIds)
      /\ WellFormed(view[t]) => WellFormed(T1)
      /\ Running(T1) \subseteq Running(view[t])
  BY <1>1, InsertPendingStage
<1>3. \A r \in RowIds : Current(t)[r] = IF r \in wrote[t] THEN view[t][r] ELSE db[r]
  BY DEF Current
<1> HIDE DEF T1
<1>4. cur \in Tables
  BY <1>1, <1>2, <1>3 DEF Tables
<1>5. Rows(cur) \subseteq retry \cup Rows(db) \cup (wrote[t] \cap Rows(view[t]))
  BY <1>3 DEF Rows, Exists
<1>6. WellFormed(view[t]) /\ WellFormed(db) => WellFormed(cur)
  BY <1>2, <1>3 DEF WellFormed
<1> HIDE DEF cur
<1>7. cancel \in SUBSET Rows(cur)
  BY DEF ToCancel, Unfinished, Rows, Exists
<1>8. cancel \subseteq RowIds
  BY DEF ToCancel, Unfinished
<1> HIDE DEF cancel
<1>9. /\ Tc \in Tables /\ Rows(Tc) = Rows(T1) \cup cancel
      /\ WellFormed(T1) /\ WellFormed(cur) => WellFormed(Tc)
      /\ Running(Tc) \subseteq Running(T1)
  BY <1>2, <1>4, <1>7, CancelStage
<1> HIDE DEF Tc
<1>10. /\ T2 \in Tables /\ Rows(T2) = Rows(Tc) /\ (WellFormed(Tc) => WellFormed(T2))
       /\ Running(T2) \subseteq Running(Tc)
  BY <1>9, AggregateStage
<1> HIDE DEF T2
<1>11. next \subseteq compute_next_runnables(T2)
  OBVIOUS
<1>12. next \in SUBSET Nodes
  BY DEF compute_next_runnables
<1> HIDE DEF next
<1>13. /\ prep_node_rows(T2, next) \in Tables
       /\ Rows(prep_node_rows(T2, next)) = Rows(T2) \cup Prep(next)
       /\ WellFormed(T2) => WellFormed(prep_node_rows(T2, next))
       /\ Running(prep_node_rows(T2, next)) \subseteq Running(T2)
  BY <1>10, <1>12, PrepStage
<1>14. b.cancel \subseteq b.retry \cup Rows(db) \cup (wrote[t] \cap Rows(view[t]))
  BY <1>0, <1>5, <1>7
<1>15. Rows(T2) = Rows(view[t]) \cup (b.retry \cap RowIds) \cup b.cancel
  BY <1>0, <1>2, <1>9, <1>10
<1>16. WellFormed(view[t]) /\ WellFormed(db) => WellFormed(b.table)
  BY <1>0, <1>2, <1>6, <1>9, <1>10, <1>13
<1>17. Running(b.table) \subseteq Running(view[t])
  BY <1>0, <1>2, <1>9, <1>10, <1>13
<1> QED
  BY <1>0, <1>8, <1>10, <1>11, <1>12, <1>13, <1>14, <1>15, <1>16, <1>17 DEF retry

AfterFacts(b, C, o, a, T3, ctx, skipped) ==
    /\ T3 \in Tables /\ skipped \in SUBSET Nodes
    /\ Rows(T3) = Rows(b.table) \cup Expanded(o)
    /\ ctx \in {refresh_ctx(T3), b.ctx}
    /\ \A n \in skipped : \A e \in Incoming[n] :
          ctx[e.from] \in TERMINAL_STATUSES \/ e.from \in skipped
    /\ a.table \in Tables
    /\ Rows(a.table) = Rows(T3) \cup Prep(skipped)
    /\ WellFormed(b.table) => WellFormed(a.table)
    /\ Running(a.table) \subseteq Running(b.table) \cup {r \in C : o[r] = "async"}

LEMMA AfterDispatchFacts ==
    ASSUME NEW b, b.table \in Tables, NEW C \in SUBSET Rows(b.table),
           NEW o \in DispatchChoices(C), NEW a, a = AfterDispatching(b, o)
    PROVE  \E T3, ctx, skipped : AfterFacts(b, C, o, a, T3, ctx, skipped)
<1> DEFINE T3 == dispatch_pending(b.table, o)
           ctx == IF Counted(o) # {} THEN refresh_ctx(T3) ELSE b.ctx
           T4 == IF Counted(o) # {} THEN aggregate_loop_children(T3) ELSE T3
           skipped == mark_ineligible_nodes_skipped(T4, ctx)
<1>0. /\ a.late = Expanded(o) \cup Prep(skipped)
      /\ a.table = insert_skipped(T4, skipped)
  BY DEF AfterDispatching, Prep
<1>1. /\ T3 \in Tables /\ Rows(T3) = Rows(b.table) \cup Expanded(o)
      /\ WellFormed(b.table) => WellFormed(T3)
      /\ Running(T3) \subseteq Running(b.table) \cup {r \in C : o[r] = "async"}
      /\ Called(o) \subseteq C
  BY DispatchStage
<1> HIDE DEF T3
<1>2. /\ T4 \in Tables /\ Rows(T4) = Rows(T3) /\ (WellFormed(T3) => WellFormed(T4))
      /\ Running(T4) \subseteq Running(T3)
  BY <1>1, AggregateStage
<1>3. ctx \in {refresh_ctx(T3), b.ctx}
  OBVIOUS
<1> HIDE DEF T4, ctx
<1>4. skipped \in SUBSET Nodes
  BY DEF mark_ineligible_nodes_skipped, Ineligible, Business
<1>5. \A n \in skipped : \A e \in Incoming[n] :
         ctx[e.from] \in TERMINAL_STATUSES \/ e.from \in skipped
  <2> SUFFICES ASSUME NEW n \in skipped, NEW e \in Incoming[n]
              PROVE  ctx[e.from] \in TERMINAL_STATUSES \/ e.from \in skipped
    OBVIOUS
  <2> DEFINE settled == {m \in Nodes : ctx[m] \in TERMINAL_STATUSES}
  <2>1. PICK S \in SUBSET Ineligible(T4, ctx) :
           n \in S /\ \A m \in S : \A f \in Incoming[m] : f.from \in settled \cup S
    BY DEF mark_ineligible_nodes_skipped
  <2>2. S \subseteq skipped
    BY <2>1 DEF mark_ineligible_nodes_skipped
  <2> QED
    BY <2>1, <2>2
<1> HIDE DEF skipped
<1>6. /\ insert_skipped(T4, skipped) \in Tables
      /\ Rows(insert_skipped(T4, skipped)) = Rows(T4) \cup Prep(skipped)
      /\ WellFormed(T4) => WellFormed(insert_skipped(T4, skipped))
      /\ Running(insert_skipped(T4, skipped)) \subseteq Running(T4)
  BY <1>2, <1>4, SkipStage
<1> QED
  BY <1>0, <1>1, <1>2, <1>3, <1>4, <1>5, <1>6 DEF AfterFacts

-----------------------------------------------------------------------------
(* Type correctness.                                                       *)

LEMMA CallsFacts ==
    ASSUME calls \in [RowIds -> 0 .. 2], NEW o
    PROVE  /\ CountCalls(o) \in [RowIds -> 0 .. 2]
           /\ \A r \in RowIds : CountCalls(o)[r] # calls[r] => r \in Called(o)
  BY DEF CountCalls

LEMMA KillFacts ==
    ASSUME NEW j \in [RowIds -> JobStates], NEW R
    PROVE  /\ KillJobs(j, R) \in [RowIds -> JobStates]
           /\ \A r \in RowIds : KillJobs(j, R)[r] = "idle" => j[r] = "idle"
  BY DEF KillJobs, JobStates, FinishedJobs

LEMMA StartFacts ==
    ASSUME NEW j \in [RowIds -> JobStates], NEW o
    PROVE  /\ StartJobs(j, o) \in [RowIds -> JobStates]
           /\ \A r \in RowIds : StartJobs(j, o)[r] = "idle" => j[r] = "idle"
           /\ \A r \in RowIds : r \in DOMAIN o /\ o[r] = "async" => StartJobs(j, o)[r] = "active"
  BY DEF StartJobs, JobStates

LEMMA EndTickType ==
    ASSUME TypeOK, NEW t \in Tickers, EndTick(t)
    PROVE  /\ pc' \in [Tickers -> {"idle", "load", "poll", "tx"}]
           /\ snap' \in [Tickers -> SUBSET RowIds]
           /\ done' \in [Tickers -> SUBSET Nodes]
           /\ view' \in [Tickers -> Tables]
           /\ wrote' \in [Tickers -> SUBSET RowIds]
           /\ aborts' \in [Tickers -> SUBSET RowIds]
<1>1. EmptyTable \in Tables
  BY RowTypes DEF EmptyTable, Tables
<1> QED
  BY <1>1 DEF TypeOK, EndTick

LEMMA PollOutcome ==
    ASSUME NEW j \in FinishedJobs
    PROVE  /\ PollRow(j).st \in {"SUCCESS", "FAILED", "CANCELLED"}
           /\ transition_status("RUNNING", PollRow(j).st) = PollRow(j).st
           /\ PollRow(j).err \in {"-", "final", "retryable"}
<1>1. /\ PollRow(j).st \in {"SUCCESS", "FAILED", "CANCELLED"}
      /\ PollRow(j).err \in {"-", "final", "retryable"}
  BY DEF PollRow, FinishedJobs
<1>2. \A s \in {"SUCCESS", "FAILED", "CANCELLED"} : transition_status("RUNNING", s) = s
  BY DEF transition_status, ValidTransitions, Statuses
<1> QED
  BY <1>1, <1>2

(* What saving a polled row changes.                                       *)
LEMMA SaveType ==
    ASSUME TypeOK, NEW t \in Tickers, NEW r \in RowIds,
           NEW s \in {"SUCCESS", "FAILED", "CANCELLED"}, NEW e \in {"-", "final", "retryable"},
           SavePolled(t, r, s, e), job' \in [RowIds -> JobStates],
           aborts' \in [Tickers -> SUBSET RowIds]
    PROVE  TypeOK'
<1>1. \A T \in Tables : [T EXCEPT ![r].st = s, ![r].err = e] \in Tables
  BY ZenonT(60) DEF Tables, Row, Statuses
<1>2. db' \in Tables /\ view' \in [Tickers -> Tables]
  <2>1. CASE t \in Wrapped
    <3>1. view' = [view EXCEPT ![t] = [view[t] EXCEPT ![r].st = s, ![r].err = e]]
      BY <2>1 DEF SavePolled, TypeOK, Tables, Row
    <3>2. [view[t] EXCEPT ![r].st = s, ![r].err = e] \in Tables
      BY <1>1 DEF TypeOK
    <3> QED
      BY <2>1, <3>1, <3>2 DEF SavePolled, TypeOK
  <2>2. CASE t \notin Wrapped
    BY <2>2, <1>1 DEF SavePolled, TypeOK
  <2> QED
    BY <2>1, <2>2
<1>3. /\ snap' \in [Tickers -> SUBSET RowIds]
      /\ done' \in [Tickers -> SUBSET Nodes]
      /\ wrote' \in [Tickers -> SUBSET RowIds]
  BY RowNode DEF SavePolled, TypeOK
<1> QED
  BY <1>2, <1>3 DEF SavePolled, TypeOK

LEMMA FinalizeType ==
    \A T : finalize_workflow_if_done(T) \in {"running", "success", "failed", "cancelled"}
  BY DEF finalize_workflow_if_done

LEMMA CandidateRows ==
    \A T, R : Candidates(T, R) \subseteq Rows(T)
  BY DEF Candidates, Rows, Exists

LEMMA EmptyTableFacts ==
    EmptyTable \in Tables /\ Rows(EmptyTable) = {} /\ WellFormed(EmptyTable)
    /\ Running(EmptyTable) = {}
<1>1. EmptyTable \in Tables
  BY RowTypes DEF EmptyTable, Tables
<1> QED
  BY <1>1 DEF EmptyTable, NoRow, Rows, Exists, WellFormed, Running

(* What the trigger leaves behind: either it raised, or the rows of the    *)
(* start nodes, of the first runnable nodes, of the children of loops that *)
(* were dispatched, and of the end nodes that became runnable.             *)
LEMMA TriggerFacts ==
    ASSUME TypeOK, trigger_workflow
    PROVE  \E T2 \in Tables : \E second \in SUBSET Nodes : \E C \in SUBSET RowIds :
           \E o \in DispatchChoices(C) :
              /\ C \subseteq Prep(Starts \cup compute_next_runnables(EmptyTable))
              /\ Rows(T2) = Prep(Starts \cup compute_next_runnables(EmptyTable)) \cup Expanded(o)
              /\ second \subseteq compute_next_runnables(T2)
              /\ calls' = CountCalls(o)
              /\ \/ exec' = "error" /\ db' = db /\ job' = job
                 \/ /\ exec' \in {"running", "success", "failed", "cancelled"}
                    /\ db' \in Tables
                    /\ Rows(db') = Rows(T2) \cup Prep(second)
                    /\ WellFormed(db')
                    /\ Running(db') \subseteq {r \in C : o[r] = "async"}
                    /\ job' = StartJobs(job, o)
<1> DEFINE first == compute_next_runnables(EmptyTable)
           T1 == prep_node_rows(EmptyTable, Starts \cup first)
           C == Candidates(T1, RowIds)
<1>1. Starts \cup first \in SUBSET Nodes
  BY DEF Starts, compute_next_runnables
<1>2. PICK o \in DispatchChoices(C) :
        LET T2 == dispatch_pending(T1, o)
            second == compute_next_runnables(T2) \cap Ends
            T3 == prep_node_rows(T2, second)
        IN  /\ calls' = CountCalls(o)
            /\ \/ exec' = "error" /\ db' = db /\ job' = job
               \/ /\ exec' = finalize_workflow_if_done(T3)
                  /\ db' = T3
                  /\ job' = StartJobs(job, o)
  BY DEF trigger_workflow
<1> DEFINE T2 == dispatch_pending(T1, o)
           second == compute_next_runnables(T2) \cap Ends
           T3 == prep_node_rows(T2, second)
<1> HIDE DEF first
<1>3. /\ T1 \in Tables /\ Rows(T1) = Prep(Starts \cup first) /\ WellFormed(T1)
      /\ Running(T1) = {}
  <2>1. /\ T1 \in Tables /\ Rows(T1) = Rows(EmptyTable) \cup Prep(Starts \cup first)
        /\ WellFormed(EmptyTable) => WellFormed(T1)
        /\ Running(T1) \subseteq Running(EmptyTable)
    BY <1>1, EmptyTableFacts, PrepStage
  <2> HIDE DEF T1
  <2> QED
    BY <2>1, EmptyTableFacts
<1> HIDE DEF T1
<1>4. C \in SUBSET Rows(T1) /\ C \in SUBSET RowIds
  BY CandidateRows DEF Rows
<1> HIDE DEF C
<1>5. /\ T2 \in Tables /\ Rows(T2) = Rows(T1) \cup Expanded(o) /\ WellFormed(T2)
      /\ Running(T2) \subseteq {r \in C : o[r] = "async"}
  BY <1>3, <1>4, DispatchStage
<1> HIDE DEF T2
<1>6. second \in SUBSET Nodes /\ second \subseteq compute_next_runnables(T2)
  BY DEF Ends
<1> HIDE DEF second
<1>7. /\ T3 \in Tables /\ Rows(T3) = Rows(T2) \cup Prep(second) /\ WellFormed(T3)
      /\ Running(T3) \subseteq Running(T2)
  BY <1>5, <1>6, PrepStage
<1>8. /\ calls' = CountCalls(o)
      /\ \/ exec' = "error" /\ db' = db /\ job' = job
         \/ /\ exec' = finalize_workflow_if_done(T3)
            /\ db' = T3
            /\ job' = StartJobs(job, o)
  BY <1>2 DEF T2, second
<1> HIDE DEF T3
<1>9. \/ exec' = "error" /\ db' = db /\ job' = job
      \/ /\ exec' \in {"running", "success", "failed", "cancelled"}
         /\ db' \in Tables
         /\ Rows(db') = Rows(T2) \cup Prep(second)
         /\ WellFormed(db')
         /\ Running(db') \subseteq {r \in C : o[r] = "async"}
         /\ job' = StartJobs(job, o)
  BY <1>5, <1>7, <1>8, FinalizeType
<1>10. /\ C \subseteq Prep(Starts \cup first)
       /\ Rows(T2) = Prep(Starts \cup first) \cup Expanded(o)
  BY <1>3, <1>4, <1>5
<1> QED
  BY <1>4, <1>5, <1>6, <1>8, <1>9, <1>10 DEF first

LEMMA CommitType ==
    ASSUME TypeOK, NEW t \in Tickers, Commit(t)
    PROVE  TypeOK'
<1> DEFINE b == BeforeDispatch(t)
<1>1. PICK o \in DispatchChoices(Candidates(b.table, b.created)) : \E W :
         LET a == AfterDispatching(b, o) IN
         /\ db' = [r \in RowIds |-> IF r \in W THEN a.table[r] ELSE db[r]]
         /\ exec' \in {exec, finalize_workflow_if_done(a.table)}
         /\ job' = StartJobs(KillJobs(job, b.cancel \cup aborts[t]), o)
         /\ calls' = CountCalls(o)
  BY DEF Commit
<1> DEFINE a == AfterDispatching(b, o)
<1>2. b.table \in Tables
  BY BeforeDispatchFacts
<1> HIDE DEF b
<1>3. a.table \in Tables
  BY <1>2, CandidateRows, AfterDispatchFacts DEF AfterFacts
<1> HIDE DEF a
<1>4. db' \in Tables
  BY <1>1, <1>3 DEF Tables, TypeOK, a
<1>5. calls' \in [RowIds -> 0 .. 2]
  BY <1>1, CallsFacts DEF TypeOK
<1>6. job' \in [RowIds -> JobStates]
  <2> DEFINE j == KillJobs(job, b.cancel \cup aborts[t])
  <2>1. j \in [RowIds -> JobStates]
    BY KillFacts DEF TypeOK
  <2>2. job' = StartJobs(j, o)
    BY <1>1
  <2> HIDE DEF j
  <2> QED
    BY <2>1, <2>2, StartFacts
<1>7. EndTick(t)
  BY DEF Commit
<1>8. exec' \in {"none", "error", "running", "success", "failed", "cancelled"}
  BY <1>1, FinalizeType DEF TypeOK
<1>9. callback' = callback
  BY DEF Commit
<1> QED
  BY <1>4, <1>5, <1>6, <1>7, <1>8, <1>9, EndTickType DEF TypeOK

(* A table whose existing rows got other statuses, none of them RUNNING.   *)
Rewritten(U, T) ==
    /\ U \in Tables
    /\ Rows(U) = Rows(T)
    /\ Running(U) \subseteq Running(T)
    /\ WellFormed(T) => WellFormed(U)

LEMMA OneRow ==
    ASSUME NEW T \in Tables, NEW r \in Rows(T),
           NEW s \in {"SUCCESS", "FAILED", "CANCELLED"}, NEW e \in {"-", "final", "retryable"}
    PROVE  Rewritten([T EXCEPT ![r].st = s, ![r].err = e], T)
<1> DEFINE U == [T EXCEPT ![r].st = s, ![r].err = e]
<1>1. U \in Tables /\ r \in RowIds /\ T[r].st # "none"
  BY ZenonT(60) DEF Tables, Row, Statuses, Rows, Exists
<1>2. U[r].st = s /\ U[r].mark = T[r].mark /\ \A q \in RowIds : q # r => U[q] = T[q]
  BY <1>1 DEF Tables, Row
<1> HIDE DEF U
<1>3. Rows(U) = Rows(T)
  BY <1>1, <1>2 DEF Rows, Exists
<1>4. Running(U) \subseteq Running(T)
  BY <1>1, <1>2 DEF Running
<1>5. WellFormed(T) => WellFormed(U)
  BY <1>1, <1>2 DEF WellFormed
<1> QED
  BY <1>1, <1>3, <1>4, <1>5 DEF Rewritten, U

LEMMA ManyRows ==
    ASSUME NEW T \in Tables, NEW R \in SUBSET Rows(T), NEW s \in {"SUCCESS", "CANCELLED"}
    PROVE  /\ Rewritten([r \in RowIds |-> IF r \in R THEN [T[r] EXCEPT !.st = s] ELSE T[r]], T)
           /\ Rewritten([r \in RowIds |-> IF r \in R THEN ResetRow ELSE T[r]], T)
<1> DEFINE U == [r \in RowIds |-> IF r \in R THEN [T[r] EXCEPT !.st = s] ELSE T[r]]
           V == [r \in RowIds |-> IF r \in R THEN ResetRow ELSE T[r]]
<1>1. \A r \in RowIds : /\ [T[r] EXCEPT !.st = s] \in Row
                        /\ [T[r] EXCEPT !.st = s].st = s
                        /\ [T[r] EXCEPT !.st = s].mark = T[r].mark
  BY DEF Tables, Row, Statuses
<1>2. ResetRow \in Row /\ ResetRow.st = "PENDING" /\ ResetRow.mark = "-"
  BY DEF ResetRow, NoRow, Row, Statuses
<1>3. U \in Tables /\ V \in Tables
  BY <1>1, <1>2 DEF Tables
<1>4. \A r \in RowIds : \/ U[r] = T[r]
                        \/ r \in Rows(T) /\ U[r].st = s /\ U[r].mark = T[r].mark
  BY <1>1
<1>5. \A r \in RowIds : \/ V[r] = T[r]
                        \/ r \in Rows(T) /\ V[r].st = "PENDING" /\ V[r].mark = "-"
  BY <1>2
<1> HIDE DEF U, V
<1>6. Rows(U) = Rows(T) /\ Rows(V) = Rows(T)
  BY <1>4, <1>5 DEF Rows, Exists
<1>7. Running(U) \subseteq Running(T) /\ Running(V) \subseteq Running(T)
  BY <1>4, <1>5 DEF Running
<1>8. WellFormed(T) => WellFormed(U) /\ WellFormed(V)
  BY <1>4, <1>5 DEF WellFormed
<1> QED
  BY <1>3, <1>6, <1>7, <1>8 DEF Rewritten, U, V

(* The steps outside the ticks, but for the write of a callback.           *)
Outside ==
    \/ \E r \in RowIds : \/ FinishJob(r) \/ LateResult(r) \/ ReadResult(r)
                        \/ sync_stale_workflow_node(r)
    \/ Cancel \/ cancel_workflow \/ rerun_failed_only
    \/ \E n \in Nodes : \/ approve_node(n)
                        \/ \E i \in 0 .. LoopItems[n] : retry_node(n, i) \/ skip_node(n, i)

LEMMA OutsideFacts ==
    ASSUME TypeOK, Outside
    PROVE  /\ Rewritten(db', db)
           /\ job' \in [RowIds -> JobStates]
           /\ \A r \in RowIds : job'[r] = "idle" => job[r] = "idle"
           /\ exec' \in {exec, "running", "cancelled"}
           /\ exec' # exec => exec \notin {"none", "error"}
           /\ callback' \in [RowIds -> FinishedJobs \cup {"-"}]
           /\ \A r \in RowIds : callback'[r] # "-" => callback[r] # "-" \/ r \in Rows(db)
           /\ UNCHANGED <<calls, tick>>
<1> DEFINE Goal == /\ Rewritten(db', db)
                   /\ job' \in [RowIds -> JobStates]
                   /\ \A r \in RowIds : job'[r] = "idle" => job[r] = "idle"
                   /\ exec' \in {exec, "running", "cancelled"}
                   /\ exec' # exec => exec \notin {"none", "error"}
                   /\ callback' \in [RowIds -> FinishedJobs \cup {"-"}]
                   /\ \A r \in RowIds : callback'[r] # "-" => callback[r] # "-" \/ r \in Rows(db)
                   /\ UNCHANGED <<calls, tick>>
<1>0. db \in Tables /\ Rewritten(db, db)
  BY DEF TypeOK, Rewritten
<1>1. ASSUME NEW r \in RowIds, JobEnds(r) PROVE Goal
  <2>1. job' \in [RowIds -> JobStates] /\ \A q \in RowIds : job'[q] = "idle" => job[q] = "idle"
    BY <1>1 DEF JobEnds, TypeOK, JobStates, FinishedJobs
  <2> QED
    BY <1>0, <1>1, <2>1 DEF JobEnds, TypeOK
<1>2. ASSUME NEW r \in RowIds, sync_stale_workflow_node(r) PROVE Goal
  <2> DEFINE e == PollRow(job[r]).err
  <2>1. /\ PollRow(job[r]).st \in {"SUCCESS", "FAILED", "CANCELLED"}
        /\ e \in {"-", "final", "retryable"}
    BY <1>2, PollOutcome DEF sync_stale_workflow_node
  <2>2. r \in Rows(db)
    BY <1>2 DEF sync_stale_workflow_node, Rows, Exists
  <2>3. PICK s \in {"SUCCESS", "FAILED", "CANCELLED"} : db' = [db EXCEPT ![r].st = s, ![r].err = e]
    BY <1>2, <2>1 DEF sync_stale_workflow_node
  <2>4. UNCHANGED <<exec, job, calls, callback, tick>>
    BY <1>2 DEF sync_stale_workflow_node
  <2> HIDE DEF e
  <2>5. Rewritten(db', db)
    BY <1>0, <2>1, <2>2, <2>3, OneRow
  <2> QED
    BY <2>4, <2>5 DEF TypeOK
<1>7. ASSUME NEW r \in RowIds, ReadResult(r) PROVE Goal
  <2>1. r \in Rows(db)
    BY <1>7 DEF ReadResult, Rows, Exists
  <2>2. /\ callback' \in [RowIds -> FinishedJobs \cup {"-"}]
        /\ \A q \in RowIds : callback'[q] # "-" => callback[q] # "-" \/ q \in Rows(db)
    BY <1>7, <2>1 DEF ReadResult, TypeOK
  <2> QED
    BY <1>0, <1>7, <2>2 DEF ReadResult, TypeOK
<1>3. CASE Cancel
  BY <1>0, <1>3 DEF Cancel, TypeOK
<1>4. CASE cancel_workflow
  <2>1. PICK R \in SUBSET Rows(db) :
          db' = [r \in RowIds |-> IF r \in R THEN [db[r] EXCEPT !.st = "CANCELLED"] ELSE db[r]]
    BY <1>4 DEF cancel_workflow, Unfinished, Rows, Exists
  <2>2. Rewritten(db', db)
    BY <1>0, <2>1, ManyRows
  <2>3. job' \in [RowIds -> JobStates] /\ \A r \in RowIds : job'[r] = "idle" => job[r] = "idle"
    BY <1>4, KillFacts DEF cancel_workflow, TypeOK
  <2> QED
    BY <1>4, <2>2, <2>3 DEF cancel_workflow, TypeOK
<1>5. CASE rerun_failed_only
  <2>1. PICK R \in SUBSET Rows(db) : db' = [r \in RowIds |-> IF r \in R THEN ResetRow ELSE db[r]]
    BY <1>5 DEF rerun_failed_only, Rows, Exists
  <2>2. Rewritten(db', db)
    BY <1>0, <2>1, ManyRows
  <2> QED
    BY <1>5, <2>2 DEF rerun_failed_only, TypeOK
<1>6. ASSUME NEW n \in Nodes, NEW i, approve_node(n) \/ retry_node(n, i) \/ skip_node(n, i)
      PROVE  Goal
  <2>1. PICK R \in SUBSET Rows(db), s \in {"SUCCESS", "CANCELLED"} :
           \/ db' = [r \in RowIds |-> IF r \in R THEN ResetRow ELSE db[r]]
           \/ db' = [r \in RowIds |-> IF r \in R THEN [db[r] EXCEPT !.st = s] ELSE db[r]]
    BY <1>6 DEF approve_node, retry_node, skip_node, KeyRows, Rows, Exists
  <2>2. Rewritten(db', db)
    BY <1>0, <2>1, ManyRows
  <2>3. UNCHANGED <<exec, job, calls, callback, tick>>
    BY <1>6 DEF approve_node, retry_node, skip_node
  <2> QED
    BY <2>2, <2>3 DEF TypeOK
<1> QED
  BY <1>1, <1>2, <1>3, <1>4, <1>5, <1>6, <1>7 DEF Outside, FinishJob, LateResult

(* What the callback writes.                                               *)
LEMMA WriteFacts ==
    ASSUME TypeOK, NEW r \in RowIds, WriteResult(r)
    PROVE  /\ r \in Rows(db) => Rewritten(db', db)
           /\ db' \in Tables
           /\ callback[r] # "-"
           /\ callback' \in [RowIds -> FinishedJobs \cup {"-"}]
           /\ \A q \in RowIds : callback'[q] # "-" => callback[q] # "-"
           /\ UNCHANGED <<exec, job, calls, tick>>
<1> DEFINE w == [st |-> PollRow(callback[r]).st, err |-> PollRow(callback[r]).err, mark |-> "-"]
<1>1. callback[r] \in FinishedJobs /\ db \in Tables
  BY DEF WriteResult, TypeOK
<1>2. w \in Row /\ w.st \in {"SUCCESS", "FAILED", "CANCELLED"} /\ w.mark = "-"
  BY <1>1, PollOutcome DEF FinishedJobs, Row, Statuses
<1>3. db' = [db EXCEPT ![r] = w]
  BY DEF WriteResult
<1> HIDE DEF w
<1>4. db' \in Tables
  BY <1>1, <1>2, <1>3 DEF Tables
<1>5. db'[r] = w /\ \A q \in RowIds : q # r => db'[q] = db[q]
  BY <1>1, <1>3 DEF Tables
<1>6. ASSUME r \in Rows(db) PROVE Rewritten(db', db)
  <2>1. Rows(db') = Rows(db)
    BY <1>2, <1>5, <1>6 DEF Rows, Exists
  <2>2. Running(db') \subseteq Running(db)
    BY <1>2, <1>5 DEF Running
  <2>3. WellFormed(db) => WellFormed(db')
    BY <1>2, <1>5 DEF WellFormed
  <2> QED
    BY <1>4, <2>1, <2>2, <2>3 DEF Rewritten
<1> QED
  BY <1>1, <1>4, <1>6 DEF WriteResult, TypeOK

(* A step of Next keeps the types, action by action.                       *)
LEMMA TypeStep ==
    ASSUME TypeOK, [Next]_vars
    PROVE  TypeOK'
<1>1. CASE trigger_workflow
  <2>1. UNCHANGED <<callback, tick>>
    BY <1>1 DEF trigger_workflow
  <2>2. calls' \in [RowIds -> 0 .. 2] /\ job' \in [RowIds -> JobStates]
    <3>1. PICK o : calls' = CountCalls(o) /\ (job' = job \/ job' = StartJobs(job, o))
      BY <1>1, TriggerFacts
    <3> QED
      BY <3>1, CallsFacts, StartFacts DEF TypeOK
  <2>3. db' \in Tables /\ exec' \in {"none", "error", "running", "success", "failed", "cancelled"}
    BY <1>1, TriggerFacts DEF TypeOK
  <2> QED
    BY <2>1, <2>2, <2>3 DEF TypeOK, tick
<1>2. ASSUME NEW t \in Tickers, StartTick(t) \/ LoadRunning(t) \/ BeginTx(t) \/ Reread(t)
      PROVE  TypeOK'
  <2>1. Current(t) \in Tables
    BY DEF Current, TypeOK, Tables
  <2> QED
    BY <1>2, <2>1 DEF TypeOK, StartTick, LoadRunning, BeginTx, Reread
<1>3. ASSUME NEW t \in Tickers, Commit(t)
      PROVE  TypeOK'
  BY <1>3, CommitType
<1>4. ASSUME NEW t \in Tickers, Conflict(t) \/ DispatchRaises(t) \/ CrashTick(t)
      PROVE  TypeOK'
  <2>1. calls' \in [RowIds -> 0 .. 2]
    BY <1>4, CallsFacts DEF TypeOK, Conflict, DispatchRaises, CrashTick
  <2>2. EndTick(t) /\ UNCHANGED <<exec, db, job, callback>>
    BY <1>4 DEF Conflict, DispatchRaises, CrashTick
  <2> QED
    BY <2>1, <2>2, EndTickType DEF TypeOK
<1>5. ASSUME NEW t \in Tickers, NEW r \in RowIds, PollKeep(t, r)
      PROVE  TypeOK'
  BY <1>5 DEF TypeOK, PollKeep
<1>6. ASSUME NEW t \in Tickers, NEW r \in RowIds, PollDone(t, r)
      PROVE  TypeOK'
  <2> DEFINE s == transition_status("RUNNING", PollRow(job[r]).st)
             e == PollRow(job[r]).err
  <2>1. s \in {"SUCCESS", "FAILED", "CANCELLED"} /\ e \in {"-", "final", "retryable"}
    BY <1>6, PollOutcome DEF PollDone
  <2>2. /\ SavePolled(t, r, s, e) /\ job' \in [RowIds -> JobStates]
        /\ aborts' \in [Tickers -> SUBSET RowIds]
    BY <1>6 DEF PollDone, TypeOK
  <2> HIDE DEF s, e
  <2> QED
    BY <2>1, <2>2, SaveType
<1>7. ASSUME NEW t \in Tickers, NEW r \in RowIds,
             PollTimeout(t, r) \/ PollGiveUp(t, r) \/ PollRaises(t, r)
      PROVE  TypeOK'
  <2>1. job' \in [RowIds -> JobStates] /\ aborts' \in [Tickers -> SUBSET RowIds]
    BY <1>7, KillFacts DEF PollTimeout, PollGiveUp, PollRaises, TypeOK
  <2>2. \E e \in {"final", "retryable"} : SavePolled(t, r, "FAILED", e)
    BY <1>7 DEF PollTimeout, PollGiveUp, PollRaises
  <2> QED
    BY <2>1, <2>2, SaveType
<1>8. CASE Outside
  BY <1>8, OutsideFacts DEF TypeOK, tick, Rewritten
<1>9. ASSUME NEW r \in RowIds, WriteResult(r)
      PROVE  TypeOK'
  BY <1>9, WriteFacts DEF TypeOK, tick
<1>10. CASE UNCHANGED vars
  BY <1>10 DEF vars, TypeOK
<1> QED
  BY <1>1, <1>2, <1>3, <1>4, <1>5, <1>6, <1>7, <1>8, <1>9, <1>10 DEF Next, Tick, Outside

(* Every state of every execution is of the declared types: statuses,      *)
(* rows, jobs and the progress of each tick.                               *)
THEOREM TypeCorrect == Spec => []TypeOK
<1>1. Init => TypeOK
  <2> SUFFICES ASSUME Init PROVE TypeOK
    OBVIOUS
  <2>1. db \in Tables /\ view \in [Tickers -> Tables]
    BY EmptyTableFacts DEF Init
  <2> QED
    BY <2>1 DEF Init, TypeOK, JobStates
<1>2. TypeOK /\ [Next]_vars => TypeOK'
  BY TypeStep
<1> QED
  BY <1>1, <1>2, PTL DEF Spec

-----------------------------------------------------------------------------
(* The inductive invariant.  UpstreamFirst says nothing of the snapshot a  *)
(* tick computes with, and it is from there that rows are inserted; so the *)
(* invariant says that a snapshot never shows more than the database, that *)
(* a tick writes only rows it has seen, and that the database is empty     *)
(* before the trigger and has the start rows after it.                     *)

Closed(X) ==
    \A r \in X : \A e \in Incoming[r[1]] : \E q \in X : q[1] = e.from /\ q[4] = 0

Ancestry(X) ==
    \A r \in X : /\ r[3] > 1 => <<r[1], r[2], r[3] - 1, 0>> \in X
                 /\ r[4] > 0 => <<r[1], r[2], 1, 0>> \in X

HasStarts(X) == \A n \in Starts : \E q \in X : q[1] = n /\ q[4] = 0

Snapshots ==
    \A t \in Tickers :
        /\ Rows(view[t]) \subseteq Rows(db)
        /\ wrote[t] \subseteq Rows(view[t])
        /\ snap[t] \subseteq Rows(db)
        /\ WellFormed(view[t])
        /\ \A r \in Running(view[t]) : job[r] # "idle"
        /\ pc[t] # "idle" => exec \notin {"none", "error"}

Database ==
    /\ WellFormed(db)
    /\ \A r \in Running(db) : job[r] # "idle"
    /\ Closed(Rows(db))
    /\ Ancestry(Rows(db))
    /\ IF exec \in {"none", "error"} THEN Rows(db) = {} ELSE HasStarts(Rows(db))

(* A callback writes a row it has read, and rows are never deleted.        *)
Callbacks == \A r \in RowIds : callback[r] # "-" => r \in Rows(db)

IInv == TypeOK /\ Snapshots /\ Database /\ Callbacks

LEMMA InitIInv == Init => IInv
<1> SUFFICES ASSUME Init PROVE IInv
  OBVIOUS
<1>1. TypeOK
  <2>1. db \in Tables /\ view \in [Tickers -> Tables]
    BY EmptyTableFacts DEF Init
  <2> QED
    BY <2>1 DEF Init, TypeOK, JobStates
<1>2. Snapshots
  BY EmptyTableFacts DEF Init, Snapshots
<1>3. Database
  BY EmptyTableFacts DEF Init, Database, Closed, Ancestry
<1>4. Callbacks
  BY DEF Init, Callbacks
<1> QED
  BY <1>1, <1>2, <1>3, <1>4 DEF IInv

(* A step that rewrites rows, and leaves the ticks alone.                  *)
LEMMA OutsideIInv ==
    ASSUME IInv, Outside \/ \E r \in RowIds : WriteResult(r)
    PROVE  Snapshots' /\ Database' /\ Callbacks'
<1>1. /\ Rows(db') = Rows(db) /\ Running(db') \subseteq Running(db)
      /\ WellFormed(db')
      /\ \A r \in RowIds : job'[r] = "idle" => job[r] = "idle"
      /\ exec' \in {exec, "running", "cancelled"}
      /\ exec' # exec => exec \notin {"none", "error"}
      /\ \A r \in RowIds : callback'[r] # "-" => callback[r] # "-" \/ r \in Rows(db)
      /\ UNCHANGED tick
  <2>1. CASE Outside
    BY <2>1, OutsideFacts DEF IInv, Rewritten, Database
  <2>2. ASSUME NEW r \in RowIds, WriteResult(r)
        PROVE  /\ Rewritten(db', db)
               /\ \A q \in RowIds : callback'[q] # "-" => callback[q] # "-"
               /\ UNCHANGED <<exec, job, tick>>
    BY <2>2, WriteFacts DEF IInv, Callbacks
  <2> QED
    BY <2>1, <2>2 DEF IInv, Rewritten, Database
<1>2. \A T : Running(T) \subseteq RowIds
  BY DEF Running
<1>3. Snapshots'
  <2> SUFFICES ASSUME NEW t \in Tickers
              PROVE  (/\ Rows(view[t]) \subseteq Rows(db)
                      /\ wrote[t] \subseteq Rows(view[t])
                      /\ snap[t] \subseteq Rows(db)
                      /\ WellFormed(view[t])
                      /\ \A r \in Running(view[t]) : job[r] # "idle"
                      /\ pc[t] # "idle" => exec \notin {"none", "error"})'
    BY DEF Snapshots
  <2>1. /\ view'[t] = view[t] /\ wrote'[t] = wrote[t] /\ snap'[t] = snap[t] /\ pc'[t] = pc[t]
    BY <1>1 DEF tick
  <2> QED
    BY <1>1, <1>2, <2>1 DEF IInv, Snapshots
<1>4. Database'
  BY <1>1, <1>2 DEF IInv, Database
<1>5. Callbacks'
  BY <1>1 DEF IInv, Callbacks
<1> QED
  BY <1>3, <1>4, <1>5

(* The steps of a tick that write no row.                                  *)
LEMMA QuietTick ==
    ASSUME IInv, NEW t \in Tickers,
           \/ StartTick(t) \/ LoadRunning(t) \/ BeginTx(t) \/ Reread(t) \/ Conflict(t)
           \/ DispatchRaises(t) \/ CrashTick(t) \/ \E r \in RowIds : PollKeep(t, r)
    PROVE  Snapshots' /\ Database' /\ Callbacks'
<1>1. UNCHANGED <<exec, db, job, callback>>
  BY DEF StartTick, LoadRunning, BeginTx, Reread, Conflict, DispatchRaises, CrashTick, PollKeep
<1>2. Database' /\ Callbacks'
  BY <1>1 DEF IInv, Database, Callbacks
<1>3. /\ \/ view' = view
         \/ view' = [view EXCEPT ![t] = db]
         \/ view' = [view EXCEPT ![t] = Current(t)] /\ wrote' = wrote
         \/ view' = [view EXCEPT ![t] = EmptyTable] /\ wrote' = [wrote EXCEPT ![t] = {}]
      /\ wrote' = wrote \/ wrote' = [wrote EXCEPT ![t] = {}]
      /\ \A u \in Tickers : snap'[u] \subseteq snap[u] \/ snap'[u] = Running(db)
      /\ \A u \in Tickers : pc'[u] # "idle" => pc[u] # "idle" \/ exec = "running"
  BY DEF StartTick, LoadRunning, BeginTx, Reread, Conflict, DispatchRaises, CrashTick, PollKeep,
         EndTick, IInv, TypeOK, Running
<1>3a. /\ Rows(Current(t)) \subseteq Rows(db)
       /\ wrote[t] \subseteq Rows(Current(t))
       /\ WellFormed(Current(t))
       /\ \A r \in Running(Current(t)) : job[r] # "idle"
  <2>1. \A r \in RowIds : Current(t)[r] = IF r \in wrote[t] THEN view[t][r] ELSE db[r]
    BY DEF Current
  <2> QED
    BY <2>1 DEF IInv, TypeOK, Snapshots, Database, Rows, Exists, WellFormed, Running
<1>4. ASSUME NEW u \in Tickers
      PROVE  (/\ Rows(view[u]) \subseteq Rows(db)
              /\ wrote[u] \subseteq Rows(view[u])
              /\ snap[u] \subseteq Rows(db)
              /\ WellFormed(view[u])
              /\ \A r \in Running(view[u]) : job[r] # "idle"
              /\ pc[u] # "idle" => exec \notin {"none", "error"})'
  <2>1. Running(db) \subseteq Rows(db)
    BY DEF Running, Rows, Exists
  <2>2. /\ \/ view'[u] = view[u]
           \/ view'[u] = db
           \/ u = t /\ view'[u] = Current(t) /\ wrote'[u] = wrote[u]
           \/ view'[u] = EmptyTable /\ wrote'[u] = {}
        /\ wrote'[u] \in {wrote[u], {}}
    BY <1>3 DEF IInv, TypeOK
  <2>3. /\ Rows(view[u]) \subseteq Rows(db)
        /\ wrote[u] \subseteq Rows(view[u])
        /\ snap[u] \subseteq Rows(db)
        /\ WellFormed(view[u]) /\ WellFormed(db)
        /\ \A r \in Running(view[u]) : job[r] # "idle"
        /\ \A r \in Running(db) : job[r] # "idle"
        /\ pc[u] # "idle" => exec \notin {"none", "error"}
    BY DEF IInv, Snapshots, Database
  <2> QED
    BY <1>1, <1>3, <1>3a, <2>1, <2>2, <2>3, EmptyTableFacts
<1> QED
  BY <1>2, <1>4 DEF Snapshots

(* A polled row is saved, in the database or in the open transaction.      *)
LEMMA SaveIInv ==
    ASSUME IInv, NEW t \in Tickers, NEW r \in snap[t],
           NEW s \in {"SUCCESS", "FAILED", "CANCELLED"}, NEW e \in {"-", "final", "retryable"},
           SavePolled(t, r, s, e), \A q \in RowIds : job'[q] = "idle" => job[q] = "idle"
    PROVE  Snapshots' /\ Database' /\ Callbacks'
<1>0. r \in RowIds /\ r \in Rows(db) /\ db \in Tables /\ view[t] \in Tables
  BY DEF IInv, TypeOK, Snapshots
<1>1. \A T : Running(T) \subseteq RowIds
  BY DEF Running
<1>2. /\ Rows(db') = Rows(db) /\ Running(db') \subseteq Running(db) /\ WellFormed(db')
  <2>0. Rewritten([db EXCEPT ![r].st = s, ![r].err = e], db)
    BY <1>0, OneRow
  <2>1. Rewritten(db', db) \/ db' = db
    BY <2>0 DEF SavePolled
  <2> QED
    BY <2>1 DEF Rewritten, IInv, Database
<1>3. UNCHANGED <<exec, pc, callback>>
  BY DEF SavePolled
<1>4. Database' /\ Callbacks'
  BY <1>1, <1>2, <1>3 DEF IInv, Database, Callbacks
<1>5. /\ Rows(view'[t]) \subseteq Rows(db)
      /\ wrote'[t] \subseteq Rows(view'[t])
      /\ WellFormed(view'[t])
      /\ Running(view'[t]) \subseteq Running(view[t])
  <2>1. CASE t \in Wrapped
    <3> DEFINE U == [view[t] EXCEPT ![r].st = s, ![r].err = e]
    <3>1. view'[t] = U /\ wrote'[t] = wrote[t] \cup {r}
      BY <2>1, <1>0 DEF SavePolled, IInv, TypeOK, Tables, Row
    <3>2. U[r].st = s /\ U[r].mark = view[t][r].mark /\ \A q \in RowIds : q # r => U[q] = view[t][q]
      BY <1>0 DEF Tables, Row
    <3> HIDE DEF U
    <3>3. Rows(U) = Rows(view[t]) \cup {r}
      BY <1>0, <3>2 DEF Rows, Exists
    <3>4. Running(U) \subseteq Running(view[t])
      BY <3>2 DEF Running
    <3>5. WellFormed(U)
      BY <3>2 DEF WellFormed, IInv, Snapshots
    <3> QED
      BY <1>0, <3>1, <3>3, <3>4, <3>5 DEF IInv, Snapshots
  <2>2. CASE t \notin Wrapped
    BY <2>2 DEF SavePolled, IInv, Snapshots
  <2> QED
    BY <2>1, <2>2
<1>6. \A u \in Tickers : /\ u # t => view'[u] = view[u] /\ wrote'[u] = wrote[u]
                         /\ snap'[u] \subseteq snap[u]
  BY DEF SavePolled, IInv, TypeOK
<1>7. ASSUME NEW u \in Tickers
      PROVE  (/\ Rows(view[u]) \subseteq Rows(db)
              /\ wrote[u] \subseteq Rows(view[u])
              /\ snap[u] \subseteq Rows(db)
              /\ WellFormed(view[u])
              /\ \A q \in Running(view[u]) : job[q] # "idle"
              /\ pc[u] # "idle" => exec \notin {"none", "error"})'
  BY <1>1, <1>2, <1>3, <1>5, <1>6 DEF IInv, Snapshots
<1> QED
  BY <1>4, <1>7 DEF Snapshots

-----------------------------------------------------------------------------
(* Where the rows that a transaction inserts come from.                    *)

LEMMA PrepNode == \A N : \A r \in Prep(N) : r[1] \in N /\ r[3] = 1 /\ r[4] = 0
  BY DEF Prep, PrepIds

LEMMA PrepHasRow ==
    ASSUME NEW N \in SUBSET Nodes, NEW n \in N
    PROVE  \E q \in Prep(N) : q[1] = n /\ q[4] = 0
<1>1. PICK h \in HostsOf[n] : TRUE
  BY GraphAssumption
<1>2. <<n, h, 1, 0>> \in Prep(N)
  BY <1>1 DEF Prep, PrepIds
<1> QED
  BY <1>2

LEMMA RowsOfRows ==
    \A T : \A n \in Nodes : RowsOf(T, n) # {} => \E q \in Rows(T) : q[1] = n /\ q[4] = 0
  BY DEF RowsOf, OwnRows, Rows

(* A runnable node's predecessors are start nodes or have rows.            *)
LEMMA RunnableUpstream ==
    ASSUME NEW T, NEW n \in compute_next_runnables(T), NEW e \in Incoming[n]
    PROVE  e.from \in Starts \/ \E q \in Rows(T) : q[1] = e.from /\ q[4] = 0
<1>1. n \in Nodes /\ e \in Edges /\ e.from \in Nodes
  BY GraphAssumption DEF compute_next_runnables, Incoming
<1>2. NodeView(T, e.from) \in TERMINAL_STATUSES
  BY <1>1 DEF compute_next_runnables
<1>3. CASE NodeType[e.from] = "start"
  BY <1>1, <1>3 DEF Starts
<1>4. CASE NodeType[e.from] = "end"
  BY <1>2, <1>4 DEF NodeView, TERMINAL_STATUSES
<1>5. CASE NodeType[e.from] \notin {"start", "end"}
  <2>1. host_view_status(T, e.from) \in TERMINAL_STATUSES
    BY <1>2, <1>5 DEF NodeView
  <2>2. StatusesOf(T, e.from) # {}
    BY <2>1 DEF host_view_status, TERMINAL_STATUSES
  <2>3. RowsOf(T, e.from) # {}
    BY <2>2 DEF StatusesOf
  <2> QED
    BY <1>1, <2>3, RowsOfRows
<1> QED
  BY <1>3, <1>4, <1>5

(* A status in the tick's context is the status of some row.               *)
LEMMA CtxUpstream ==
    ASSUME NEW T, NEW n \in Nodes, refresh_ctx(T)[n] \in TERMINAL_STATUSES
    PROVE  \E q \in Rows(T) : q[1] = n /\ q[4] = 0
<1>1. CtxStatus(StatusesOf(T, n)) \in TERMINAL_STATUSES
  BY DEF refresh_ctx
<1>2. StatusesOf(T, n) # {}
  BY <1>1 DEF CtxStatus, TERMINAL_STATUSES
<1> QED
  BY <1>2, RowsOfRows DEF StatusesOf

(* A retry row is the next attempt of a row of the snapshot.               *)
LEMMA RetryParent ==
    ASSUME NEW T, NEW K, NEW r \in retry_failed_rows(T, K)
    PROVE  \E q \in Rows(T) :
              /\ q[1] = r[1] /\ q[4] = 0 /\ r[4] = 0
              /\ q = <<r[1], r[2], r[3] - 1, 0>>
<1>1. PICK q \in RowIds : /\ q[4] = 0 /\ T[q].st = "FAILED"
                          /\ r = <<q[1], q[2], q[3] + 1, 0>>
  BY DEF retry_failed_rows
<1>2. q = <<q[1], q[2], q[3], 0>> /\ q[3] \in Nat
  <2>1. PICK n \in Nodes : \E h \in HostsOf[n] : \E k \in Nat : \E i \in Nat : q = <<n, h, k, i>>
    BY RowShape
  <2>2. PICK h \in HostsOf[n], k \in Nat, i \in Nat : q = <<n, h, k, i>>
    BY <2>1
  <2> QED
    BY <1>1, <2>2
<1>3. q \in Rows(T)
  BY <1>1 DEF Rows, Exists
<1>4. r[1] = q[1] /\ r[2] = q[2] /\ r[3] - 1 = q[3] /\ r[4] = 0
  BY <1>1, <1>2
<1> QED
  BY <1>1, <1>2, <1>3, <1>4

(* A child of a loop that was dispatched hangs below the loop's row.       *)
LEMMA ChildParent ==
    ASSUME NEW C, NEW o \in DispatchChoices(C), NEW r \in Expanded(o)
    PROVE  r \in RowIds /\ r[3] = 1 /\ <<r[1], r[2], 1, 0>> \in C
<1>1. DOMAIN o = C
  BY DEF DispatchChoices
<1>2. r \in RowIds /\ r[4] # 0 /\ <<r[1], r[2], 1, 0>> \in C
  BY <1>1 DEF Expanded
<1>3. PICK n \in Nodes : r \in OwnIds(n) \cup ItemIds(n)
  BY <1>2 DEF RowIds
<1>4. r \in ItemIds(n)
  BY <1>2, <1>3 DEF OwnIds
<1> QED
  BY <1>2, <1>4 DEF ItemIds

(* A transaction's insertions keep rows behind their upstream rows.        *)
LEMMA InsertsClosed ==
    ASSUME NEW X \in SUBSET RowIds, NEW retry, NEW T2 \in Tables, NEW next \in SUBSET Nodes,
           NEW C, NEW o \in DispatchChoices(C), NEW T3 \in Tables, NEW ctx,
           NEW skipped \in SUBSET Nodes, NEW Y,
           Closed(X), Ancestry(X), HasStarts(X),
           \A r \in retry : \E q \in X : /\ q[1] = r[1] /\ q[4] = 0 /\ r[4] = 0
                                         /\ q = <<r[1], r[2], r[3] - 1, 0>>,
           Rows(T2) \subseteq X \cup retry,
           next \subseteq compute_next_runnables(T2),
           C \subseteq X \cup retry \cup Prep(next),
           Rows(T3) \subseteq X \cup retry \cup Prep(next) \cup Expanded(o),
           ctx \in {refresh_ctx(T3), refresh_ctx(T2)},
           \A n \in skipped : \A e \in Incoming[n] :
                 ctx[e.from] \in TERMINAL_STATUSES \/ e.from \in skipped,
           Y = X \cup retry \cup Prep(next) \cup Expanded(o) \cup Prep(skipped)
    PROVE  Closed(Y) /\ Ancestry(Y) /\ HasStarts(Y)
<1> DEFINE Up(r) == \A e \in Incoming[r[1]] : \E q \in Y : q[1] = e.from /\ q[4] = 0
<1>0. \A n \in Nodes : \A e \in Incoming[n] : e.from \in Nodes
  BY GraphAssumption DEF Incoming
<1>1. \A r \in X : Up(r)
  BY DEF Closed
<1>2. \A r \in retry : Up(r)
  BY <1>1
<1>3. \A r \in Prep(next) : Up(r)
  <2> SUFFICES ASSUME NEW r \in Prep(next), NEW e \in Incoming[r[1]]
              PROVE  \E q \in Y : q[1] = e.from /\ q[4] = 0
    OBVIOUS
  <2>1. r[1] \in compute_next_runnables(T2)
    BY PrepNode
  <2>2. e.from \in Starts \/ \E q \in Rows(T2) : q[1] = e.from /\ q[4] = 0
    BY <2>1, RunnableUpstream
  <2> QED
    BY <2>2 DEF HasStarts
<1>4. \A r \in Expanded(o) : Up(r)
  <2> SUFFICES ASSUME NEW r \in Expanded(o) PROVE Up(r)
    OBVIOUS
  <2> DEFINE p == <<r[1], r[2], 1, 0>>
  <2>1. p \in C /\ p[1] = r[1]
    BY ChildParent
  <2>2. Up(p)
    BY <1>1, <1>2, <1>3, <2>1
  <2> QED
    BY <2>1, <2>2
<1>5. \A r \in Prep(skipped) : Up(r)
  <2> SUFFICES ASSUME NEW r \in Prep(skipped), NEW e \in Incoming[r[1]]
              PROVE  \E q \in Y : q[1] = e.from /\ q[4] = 0
    OBVIOUS
  <2>1. r[1] \in skipped /\ e.from \in Nodes
    BY <1>0, PrepNode
  <2>2. CASE e.from \in skipped
    BY <2>2, PrepHasRow
  <2>3. CASE ctx[e.from] \in TERMINAL_STATUSES
    <3>1. \/ \E q \in Rows(T2) : q[1] = e.from /\ q[4] = 0
          \/ \E q \in Rows(T3) : q[1] = e.from /\ q[4] = 0
      BY <2>1, <2>3, CtxUpstream
    <3> QED
      BY <3>1
  <2> QED
    BY <2>1, <2>2, <2>3
<1>6. Closed(Y)
  BY <1>1, <1>2, <1>3, <1>4, <1>5 DEF Closed
<1>7. Ancestry(Y)
  <2> SUFFICES ASSUME NEW r \in Y
              PROVE  /\ r[3] > 1 => <<r[1], r[2], r[3] - 1, 0>> \in Y
                     /\ r[4] > 0 => <<r[1], r[2], 1, 0>> \in Y
    BY DEF Ancestry
  <2>1. CASE r \in X
    BY <2>1 DEF Ancestry
  <2>2. CASE r \in retry
    BY <2>2
  <2>3. CASE r \in Prep(next) \cup Prep(skipped)
    BY <2>3, PrepNode
  <2>4. CASE r \in Expanded(o)
    BY <2>4, ChildParent
  <2> QED
    BY <2>1, <2>2, <2>3, <2>4
<1>8. HasStarts(Y)
  BY DEF HasStarts
<1> QED
  BY <1>6, <1>7, <1>8

LEMMA CommitIInv ==
    ASSUME IInv, NEW t \in Tickers, Commit(t)
    PROVE  Snapshots' /\ Database' /\ Callbacks'
<1> DEFINE b == BeforeDispatch(t)
           C == Candidates(b.table, b.created)
           X == Rows(db)
<1>1. PICK o \in DispatchChoices(C) :
         LET a == AfterDispatching(b, o)
             W == wrote[t] \cup b.cancel \cup {r \in RowIds : a.table[r] # view[t][r]}
         IN  /\ db' = [r \in RowIds |-> IF r \in W THEN a.table[r] ELSE db[r]]
             /\ exec' \in {exec, finalize_workflow_if_done(a.table)}
             /\ job' = StartJobs(KillJobs(job, b.cancel \cup aborts[t]), o)
  BY DEF Commit
<1>2. pc[t] = "tx" /\ EndTick(t)
  BY DEF Commit
<1> DEFINE a == AfterDispatching(b, o)
           W == wrote[t] \cup b.cancel \cup {r \in RowIds : a.table[r] # view[t][r]}
           retry == b.retry \cap RowIds
<1>3. PICK T2 \in Tables, next \in SUBSET Nodes :
         /\ b.retry = retry_failed_rows(view[t], done[t])
         /\ b.cancel \subseteq RowIds
         /\ b.cancel \subseteq b.retry \cup Rows(db) \cup (wrote[t] \cap Rows(view[t]))
         /\ Rows(T2) = Rows(view[t]) \cup (b.retry \cap RowIds) \cup b.cancel
         /\ next \subseteq compute_next_runnables(T2)
         /\ b.ctx = refresh_ctx(T2)
         /\ b.created = Prep(next)
         /\ b.table \in Tables
         /\ Rows(b.table) = Rows(T2) \cup b.created
         /\ WellFormed(view[t]) /\ WellFormed(db) => WellFormed(b.table)
         /\ Running(b.table) \subseteq Running(view[t])
  BY BeforeDispatchFacts DEF IInv
<1>4. C \in SUBSET Rows(b.table) /\ C \subseteq RowIds
  BY CandidateRows DEF Rows
<1> HIDE DEF b, C
<1>5. PICK T3, ctx, skipped : AfterFacts(b, C, o, a, T3, ctx, skipped)
  BY <1>3, <1>4, AfterDispatchFacts
<1>5a. /\ T3 \in Tables /\ skipped \in SUBSET Nodes
       /\ Rows(T3) = Rows(b.table) \cup Expanded(o)
       /\ ctx \in {refresh_ctx(T3), b.ctx}
       /\ \A n \in skipped : \A e \in Incoming[n] :
             ctx[e.from] \in TERMINAL_STATUSES \/ e.from \in skipped
       /\ a.table \in Tables
       /\ Rows(a.table) = Rows(T3) \cup Prep(skipped)
       /\ WellFormed(b.table) => WellFormed(a.table)
       /\ Running(a.table) \subseteq Running(b.table) \cup {r \in C : o[r] = "async"}
  BY <1>5 DEF AfterFacts
<1>6. db' = [r \in RowIds |-> IF r \in W THEN a.table[r] ELSE db[r]]
  BY <1>1
<1>7. /\ Rows(view[t]) \subseteq X /\ wrote[t] \subseteq Rows(view[t])
      /\ WellFormed(view[t]) /\ WellFormed(db)
      /\ exec \notin {"none", "error"}
      /\ \A r \in Running(view[t]) \cup Running(db) : job[r] # "idle"
      /\ Closed(X) /\ Ancestry(X) /\ HasStarts(X)
  BY <1>2 DEF IInv, Snapshots, Database
<1>8. WellFormed(a.table)
  BY <1>3, <1>5a, <1>7
<1> HIDE DEF a
<1>9. Rows(db') = X \cup retry \cup Prep(next) \cup Expanded(o) \cup Prep(skipped)
  <2>1. Rows(a.table) = Rows(view[t]) \cup retry \cup b.cancel \cup Prep(next) \cup Expanded(o)
                        \cup Prep(skipped)
    BY <1>3, <1>5a
  <2>2. \A r \in RowIds : r \in W /\ r \notin Rows(a.table) => r \notin X
    <3> SUFFICES ASSUME NEW r \in RowIds, r \in W, r \notin Rows(a.table) PROVE FALSE
      OBVIOUS
    <3>1. r \notin Rows(view[t]) /\ r \notin b.cancel
      BY <2>1
    <3>2. a.table[r] # view[t][r]
      BY <1>7, <3>1
    <3>3. a.table[r] = NoRow
      BY <1>8 DEF WellFormed, Rows, Exists
    <3>4. view[t][r] = NoRow
      BY <1>7, <3>1 DEF WellFormed, Rows, Exists
    <3> QED
      BY <3>2, <3>3, <3>4
  <2>3. \A r \in RowIds : r \in Rows(a.table) /\ r \notin W => r \in Rows(view[t])
    BY DEF Rows, Exists
  <2>4. Rows(db') = X \cup Rows(a.table)
    <3>1. \A r \in RowIds : r \in Rows(db') <=> IF r \in W THEN r \in Rows(a.table) ELSE r \in X
      BY <1>6 DEF Rows, Exists
    <3>2. /\ X \subseteq RowIds /\ Rows(db') \subseteq RowIds /\ Rows(a.table) \subseteq RowIds
      BY DEF Rows
    <3> HIDE DEF W, X
    <3> QED
      BY <1>7, <2>2, <2>3, <3>1, <3>2
  <2> QED
    BY <1>3, <1>7, <2>1, <2>4
<1>10. Closed(Rows(db')) /\ Ancestry(Rows(db')) /\ HasStarts(Rows(db'))
  <2>1. \A r \in retry : \E q \in X : /\ q[1] = r[1] /\ q[4] = 0 /\ r[4] = 0
                                        /\ q = <<r[1], r[2], r[3] - 1, 0>>
    BY <1>3, <1>7, RetryParent
  <2>2. /\ Rows(T2) \subseteq X \cup retry
        /\ C \subseteq X \cup retry \cup Prep(next)
        /\ Rows(T3) \subseteq X \cup retry \cup Prep(next) \cup Expanded(o)
    BY <1>3, <1>4, <1>5a, <1>7
  <2>3. X \in SUBSET RowIds
    BY DEF Rows
  <2>4. ctx \in {refresh_ctx(T3), refresh_ctx(T2)}
    BY <1>3, <1>5a
  <2>5. next \subseteq compute_next_runnables(T2)
    BY <1>3
  <2>6. /\ T3 \in Tables /\ skipped \in SUBSET Nodes
        /\ \A n \in skipped : \A e \in Incoming[n] :
              ctx[e.from] \in TERMINAL_STATUSES \/ e.from \in skipped
    BY <1>5a
  <2>7. Closed(X) /\ Ancestry(X) /\ HasStarts(X)
    BY <1>7
  <2> HIDE DEF X, retry
  <2> QED
    BY <1>9, <2>1, <2>2, <2>3, <2>4, <2>5, <2>6, <2>7, InsertsClosed
<1>11. WellFormed(db')
  <2>1. \A r \in RowIds : db'[r] = a.table[r] \/ db'[r] = db[r]
    BY <1>6
  <2> QED
    BY <1>7, <1>8, <2>1 DEF WellFormed
<1>12. \A r \in RowIds : job'[r] = "idle" => job[r] = "idle" /\ ~(r \in C /\ o[r] = "async")
  <2> DEFINE j == KillJobs(job, b.cancel \cup aborts[t])
  <2>1. j \in [RowIds -> JobStates] /\ \A r \in RowIds : j[r] = "idle" => job[r] = "idle"
    BY KillFacts DEF IInv, TypeOK
  <2>2. DOMAIN o = C /\ job' = StartJobs(j, o)
    BY <1>1 DEF DispatchChoices
  <2> HIDE DEF j
  <2> QED
    BY <2>1, <2>2, StartFacts
<1>13. \A r \in Running(db') : job'[r] # "idle"
  <2>1. \A r \in Running(db') : r \in RowIds /\ (r \in Running(a.table) \/ r \in Running(db))
    BY <1>6 DEF Running
  <2> QED
    BY <1>3, <1>5a, <1>7, <1>12, <2>1
<1>14. exec' \notin {"none", "error"}
  BY <1>1, <1>7, FinalizeType
<1>15. Database'
  BY <1>10, <1>11, <1>13, <1>14 DEF Database
<1>16. ASSUME NEW u \in Tickers
       PROVE  (/\ Rows(view[u]) \subseteq Rows(db)
               /\ wrote[u] \subseteq Rows(view[u])
               /\ snap[u] \subseteq Rows(db)
               /\ WellFormed(view[u])
               /\ \A r \in Running(view[u]) : job[r] # "idle"
               /\ pc[u] # "idle" => exec \notin {"none", "error"})'
  <2>1. X \subseteq Rows(db')
    BY <1>9
  <2>2. /\ \/ view'[u] = view[u]
           \/ view'[u] = EmptyTable /\ wrote'[u] = {}
        /\ wrote'[u] \in {wrote[u], {}} /\ snap'[u] \in {snap[u], {}}
    BY <1>2 DEF EndTick, IInv, TypeOK
  <2>3. \A T : Running(T) \subseteq RowIds
    BY DEF Running
  <2> QED
    BY <1>12, <1>14, <2>1, <2>2, <2>3, EmptyTableFacts DEF IInv, Snapshots
<1>17. Callbacks'
  <2>1. callback' = callback
    BY DEF Commit
  <2> QED
    BY <1>9, <2>1 DEF IInv, Callbacks
<1> QED
  BY <1>15, <1>16, <1>17 DEF Snapshots

LEMMA TriggerIInv ==
    ASSUME IInv, trigger_workflow
    PROVE  Snapshots' /\ Database' /\ Callbacks'
<1> DEFINE first == compute_next_runnables(EmptyTable)
           N == Starts \cup first
<1>1. PICK T2 \in Tables, second \in SUBSET Nodes, C \in SUBSET RowIds :
         \E o \in DispatchChoices(C) :
            /\ C \subseteq Prep(N)
            /\ Rows(T2) = Prep(N) \cup Expanded(o)
            /\ second \subseteq compute_next_runnables(T2)
            /\ \/ exec' = "error" /\ db' = db /\ job' = job
               \/ /\ exec' \in {"running", "success", "failed", "cancelled"}
                  /\ db' \in Tables
                  /\ Rows(db') = Rows(T2) \cup Prep(second)
                  /\ WellFormed(db')
                  /\ Running(db') \subseteq {r \in C : o[r] = "async"}
                  /\ job' = StartJobs(job, o)
  BY TriggerFacts DEF IInv
<1>2. exec = "none" /\ UNCHANGED <<callback, tick>>
  BY DEF trigger_workflow
<1>3. Rows(db) = {} /\ \A t \in Tickers : pc[t] = "idle"
  BY <1>2 DEF IInv, Database, Snapshots
<1>4. CASE exec' = "error" /\ db' = db /\ job' = job
  BY <1>2, <1>3, <1>4 DEF IInv, Database, Snapshots, Callbacks, tick
<1>5. ASSUME NEW o \in DispatchChoices(C),
             C \subseteq Prep(N),
             Rows(T2) = Prep(N) \cup Expanded(o),
             second \subseteq compute_next_runnables(T2),
             exec' \in {"running", "success", "failed", "cancelled"},
             Rows(db') = Rows(T2) \cup Prep(second),
             WellFormed(db'),
             Running(db') \subseteq {r \in C : o[r] = "async"},
             job' = StartJobs(job, o)
      PROVE  Snapshots' /\ Database'
  <2> DEFINE Y == Rows(db')
             Up(r) == \A e \in Incoming[r[1]] : \E q \in Y : q[1] = e.from /\ q[4] = 0
  <2>1. N \in SUBSET Nodes
    BY DEF Starts, compute_next_runnables
  <2>2. HasStarts(Y)
    BY <1>5, <2>1, PrepHasRow DEF HasStarts
  <2>3. \A r \in Prep(N) : Up(r)
    <3> SUFFICES ASSUME NEW r \in Prep(N), NEW e \in Incoming[r[1]]
                PROVE  \E q \in Y : q[1] = e.from /\ q[4] = 0
      OBVIOUS
    <3>1. CASE r[1] \in Starts
      <4>1. Incoming[r[1]] = {}
        BY <3>1, ControlNodeAssumption DEF Incoming, Starts
      <4> QED
        BY <4>1
    <3>2. CASE r[1] \in first
      <4>1. e.from \in Starts \/ \E q \in Rows(EmptyTable) : q[1] = e.from /\ q[4] = 0
        BY <3>2, RunnableUpstream
      <4> QED
        BY <2>2, <4>1, EmptyTableFacts DEF HasStarts
    <3> QED
      BY <3>1, <3>2, PrepNode
  <2>4. \A r \in Expanded(o) : <<r[1], r[2], 1, 0>> \in Prep(N) /\ r[3] = 1
    BY <1>5, ChildParent
  <2>5. \A r \in Expanded(o) : Up(r)
    <3> SUFFICES ASSUME NEW r \in Expanded(o) PROVE Up(r)
      OBVIOUS
    <3>1. Up(<<r[1], r[2], 1, 0>>)
      BY <2>3, <2>4
    <3> QED
      BY <3>1
  <2>6. \A r \in Prep(second) : Up(r)
    <3> SUFFICES ASSUME NEW r \in Prep(second), NEW e \in Incoming[r[1]]
                PROVE  \E q \in Y : q[1] = e.from /\ q[4] = 0
      OBVIOUS
    <3>1. r[1] \in compute_next_runnables(T2)
      BY <1>5, PrepNode
    <3>2. e.from \in Starts \/ \E q \in Rows(T2) : q[1] = e.from /\ q[4] = 0
      BY <3>1, RunnableUpstream
    <3> QED
      BY <1>5, <2>2, <3>2 DEF HasStarts
  <2>7. Closed(Y)
    BY <1>5, <2>3, <2>5, <2>6 DEF Closed
  <2>8. Ancestry(Y)
    <3> SUFFICES ASSUME NEW r \in Y
                PROVE  /\ r[3] > 1 => <<r[1], r[2], r[3] - 1, 0>> \in Y
                       /\ r[4] > 0 => <<r[1], r[2], 1, 0>> \in Y
      BY DEF Ancestry
    <3>1. CASE r \in Prep(N) \cup Prep(second)
      BY <3>1, PrepNode
    <3>2. CASE r \in Expanded(o)
      <4>1. r[3] = 1 /\ <<r[1], r[2], 1, 0>> \in Prep(N)
        BY <2>4, <3>2
      <4>2. Prep(N) \subseteq Y
        BY <1>5
      <4> HIDE DEF Y, N
      <4> QED
        BY <4>1, <4>2
    <3> QED
      BY <1>5, <3>1, <3>2
  <2>9. \A r \in Running(db') : job'[r] # "idle"
    <3>1. DOMAIN o = C /\ job \in [RowIds -> JobStates]
      BY DEF DispatchChoices, IInv, TypeOK
    <3>2. \A r \in RowIds : r \in C /\ o[r] = "async" => job'[r] = "active"
      BY <1>5, <3>1, StartFacts
    <3> QED
      BY <1>5, <3>2
  <2>10. Database'
    BY <1>5, <2>2, <2>7, <2>8, <2>9 DEF Database
  <2>11. \A r \in RowIds : job'[r] = "idle" => job[r] = "idle"
    BY <1>5, StartFacts DEF IInv, TypeOK
  <2>12. \A T : Running(T) \subseteq RowIds
    BY DEF Running
  <2>13. Snapshots'
    BY <1>2, <1>3, <1>5, <2>11, <2>12 DEF IInv, Snapshots, tick
  <2> QED
    BY <2>10, <2>13
<1>6. Callbacks'
  BY <1>2, <1>3 DEF IInv, Callbacks
<1> QED
  BY <1>1, <1>4, <1>5, <1>6

LEMMA NextIInv == IInv /\ [Next]_vars => IInv'
<1> SUFFICES ASSUME IInv, [Next]_vars PROVE IInv'
  OBVIOUS
<1>0. TypeOK'
  BY TypeStep DEF IInv
<1>1. CASE trigger_workflow
  BY <1>0, <1>1, TriggerIInv DEF IInv
<1>2. ASSUME NEW t \in Tickers,
             \/ StartTick(t) \/ LoadRunning(t) \/ BeginTx(t) \/ Reread(t) \/ Conflict(t)
             \/ DispatchRaises(t) \/ CrashTick(t) \/ \E r \in RowIds : PollKeep(t, r)
      PROVE  IInv'
  BY <1>0, <1>2, QuietTick DEF IInv
<1>3. ASSUME NEW t \in Tickers, Commit(t)
      PROVE  IInv'
  BY <1>0, <1>3, CommitIInv DEF IInv
<1>4. ASSUME NEW t \in Tickers, NEW r \in RowIds, PollDone(t, r)
      PROVE  IInv'
  <2> DEFINE s == transition_status("RUNNING", PollRow(job[r]).st)
             e == PollRow(job[r]).err
  <2>1. s \in {"SUCCESS", "FAILED", "CANCELLED"} /\ e \in {"-", "final", "retryable"}
    BY <1>4, PollOutcome DEF PollDone
  <2>2. SavePolled(t, r, s, e) /\ job' = job /\ r \in snap[t]
    BY <1>4 DEF PollDone
  <2> HIDE DEF s, e
  <2> QED
    BY <1>0, <2>1, <2>2, SaveIInv DEF IInv
<1>5. ASSUME NEW t \in Tickers, NEW r \in RowIds,
             PollTimeout(t, r) \/ PollGiveUp(t, r) \/ PollRaises(t, r)
      PROVE  IInv'
  <2>1. \A q \in RowIds : job'[q] = "idle" => job[q] = "idle"
    BY <1>5, KillFacts DEF PollTimeout, PollGiveUp, PollRaises, IInv, TypeOK
  <2>2. r \in snap[t] /\ \E e \in {"final", "retryable"} : SavePolled(t, r, "FAILED", e)
    BY <1>5 DEF PollTimeout, PollGiveUp, PollRaises
  <2> QED
    BY <1>0, <2>1, <2>2, SaveIInv DEF IInv
<1>6. CASE Outside \/ \E r \in RowIds : WriteResult(r)
  BY <1>0, <1>6, OutsideIInv DEF IInv
<1>7. CASE UNCHANGED vars
  BY <1>0, <1>7 DEF vars, IInv, Snapshots, Database, Callbacks
<1> QED
  BY <1>1, <1>2, <1>3, <1>4, <1>5, <1>6, <1>7 DEF Next, Tick, Outside

LEMMA InvariantHolds == Spec => []IInv
  BY InitIInv, NextIInv, PTL DEF Spec

-----------------------------------------------------------------------------
(* The theorems.                                                           *)

(* However the ticks interleave and whatever users and faults do, a node   *)
(* has a row only when every node before it in the DAG has one.            *)
THEOREM RowsFollowEdges == Spec => []UpstreamFirst
<1>1. IInv => UpstreamFirst
  <2> SUFFICES ASSUME IInv, NEW r \in RowIds, Exists(db, r), NEW e \in Incoming[r[1]]
              PROVE  RowsOf(db, e.from) # {}
    BY DEF UpstreamFirst
  <2>1. r \in Rows(db)
    BY DEF Rows
  <2>2. PICK q \in Rows(db) : q[1] = e.from /\ q[4] = 0
    BY <2>1 DEF IInv, Database, Closed
  <2>3. e.from \in Nodes
    BY RowNode, GraphAssumption DEF Incoming
  <2> QED
    BY <2>2, <2>3 DEF RowsOf, OwnRows, Rows
<1> QED
  BY <1>1, InvariantHolds, PTL

(* A retry row follows its earlier attempt, a loop child its loop row, and *)
(* a RUNNING row always has a job that was really started.                 *)
THEOREM RowsHaveParents == Spec => []Lineage
<1>1. IInv => Lineage
  <2> SUFFICES ASSUME IInv, NEW r \in RowIds, Exists(db, r)
              PROVE  /\ r[3] > 1 => Exists(db, <<r[1], r[2], r[3] - 1, 0>>)
                     /\ r[4] > 0 => Exists(db, <<r[1], r[2], 1, 0>>)
                     /\ db[r].st = "RUNNING" => job[r] # "idle"
    BY DEF Lineage
  <2>1. r \in Rows(db)
    BY DEF Rows
  <2>2. /\ r[3] > 1 => <<r[1], r[2], r[3] - 1, 0>> \in Rows(db)
        /\ r[4] > 0 => <<r[1], r[2], 1, 0>> \in Rows(db)
    BY <2>1 DEF IInv, Database, Ancestry
  <2>3. db[r].st = "RUNNING" => job[r] # "idle"
    BY DEF IInv, Database, Running
  <2> QED
    BY <2>2, <2>3 DEF Rows
<1> QED
  BY <1>1, InvariantHolds, PTL

(* A transaction that dispatches calls the adapters of its own new rows    *)
(* and of loop children only.                                              *)
LEMMA TransactionCalls ==
    ASSUME IInv, NEW t \in Tickers, NEW b, b = BeforeDispatch(t), ~Taken(b.retry \cup b.created),
           NEW D \in SUBSET Candidates(b.table, b.created), NEW o \in DispatchChoices(D),
           calls' = CountCalls(o),
           NEW r \in RowIds, r[4] = 0, calls'[r] # calls[r]
    PROVE  ~Exists(db, r)
<1>1. b.table \in Tables /\ WellFormed(b.table)
  BY BeforeDispatchFacts DEF IInv, Snapshots, Database
<1>2. r \in Called(o)
  BY CallsFacts DEF IInv, TypeOK
<1>3. r \in Candidates(b.table, b.created)
  BY <1>2 DEF Called, DispatchChoices
<1>4. r \in b.created
  BY <1>1, <1>3 DEF Candidates, WellFormed
<1> QED
  BY <1>4 DEF Taken

(* However many callers advance the execution at once, and whatever they   *)
(* find crashed, retried or rolled back, adapter.dispatch is never called  *)
(* for a node row that is already in the database.                         *)
THEOREM DispatchIsIdempotent == Spec => NoRedispatch
<1>1. IInv /\ [Next]_vars =>
         [\A r \in RowIds : r[4] = 0 /\ calls'[r] # calls[r] => ~Exists(db, r)]_vars
  <2> SUFFICES ASSUME IInv, Next, NEW r \in RowIds, r[4] = 0, calls'[r] # calls[r]
              PROVE  ~Exists(db, r)
    OBVIOUS
  <2>1. CASE trigger_workflow
    <3>1. Rows(db) = {}
      BY <2>1 DEF trigger_workflow, IInv, Database
    <3> QED
      BY <3>1 DEF Rows
  <2>2. ASSUME NEW t \in Tickers, Commit(t)
        PROVE  ~Exists(db, r)
    BY <2>2, TransactionCalls DEF Commit
  <2>3. ASSUME NEW t \in Tickers, Conflict(t) \/ DispatchRaises(t) \/ CrashTick(t)
        PROVE  ~Exists(db, r)
    <3>1. CASE \E o \in Abandoned(t) : calls' = CountCalls(o)
      BY <3>1, TransactionCalls DEF Abandoned
    <3>2. CASE Conflict(t)
      BY <3>2, TransactionCalls DEF Conflict
    <3> QED
      BY <2>3, <3>1, <3>2 DEF DispatchRaises, CrashTick
  <2>4. ASSUME NEW t \in Tickers, NEW q \in RowIds,
               \/ StartTick(t) \/ LoadRunning(t) \/ BeginTx(t) \/ Reread(t) \/ PollKeep(t, q)
               \/ PollDone(t, q) \/ PollTimeout(t, q) \/ PollGiveUp(t, q) \/ PollRaises(t, q)
        PROVE  FALSE
    BY <2>4 DEF StartTick, LoadRunning, BeginTx, Reread, PollKeep, PollDone, PollTimeout,
                PollGiveUp, PollRaises, SavePolled
  <2>5. CASE Outside
    BY <2>5, OutsideFacts DEF IInv
  <2>6. CASE \E q \in RowIds : WriteResult(q)
    BY <2>6 DEF WriteResult
  <2> QED
    BY <2>1, <2>2, <2>3, <2>4, <2>5, <2>6 DEF Next, Tick, Outside
<1> QED
  BY <1>1, InvariantHolds, PTL DEF Spec, NoRedispatch

=============================================================================
