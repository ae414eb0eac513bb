---------------------- MODULE WorkflowRunnerRefinement ----------------------
(***************************************************************************)
(* WorkflowRunner, with the daemon as its only caller, implements          *)
(* ExecutionLife: the trigger and the commits are its steps, the ends of   *)
(* jobs show as such, and everything else a tick does, its polls, its      *)
(* conflicts and its crashes included, changes nothing that was promised.  *)
(***************************************************************************)
EXTENDS WorkflowRunnerSerialProofs

(* What the mapping makes of a status.                                     *)
LEMMA Words ==
    \A s \in Statuses \cup {"none"} :
        /\ Word[s] \in {"none", "open"} \cup Life!Verdicts
        /\ Word[s] = "none" <=> s = "none"
        /\ Word[s] = "open" <=> s \in {"PENDING", "RUNNING"}
        /\ Word[s] \in Life!Verdicts <=> s \in TERMINAL_STATUSES
        /\ Word[s] = "failed" <=> s = "FAILED"
        /\ Word[s] = "cancelled" <=> s = "CANCELLED"
<1>1. /\ Word["none"] = "none" /\ Word["PENDING"] = "open" /\ Word["RUNNING"] = "open"
      /\ Word["SUCCESS"] = "passed" /\ Word["SKIPPED"] = "passed"
      /\ Word["FAILED"] = "failed" /\ Word["CANCELLED"] = "cancelled"
  BY DEF Word, Statuses
<1> QED
  BY <1>1 DEF Statuses, TERMINAL_STATUSES, Life!Verdicts

LEMMA StatusOf ==
    ASSUME NEW T \in Tables, NEW r \in RowIds
    PROVE  T[r].st \in Statuses \cup {"none"}
  BY DEF Tables, Row

(* _finalize_workflow_if_done gives the result that the rows have.  It     *)
(* looks at the business rows only: the others are inserted finished.      *)
LEMMA ResultShown ==
    ASSUME NEW T \in Tables, Orderly(T), NEW R, R = [r \in RowIds |-> Word[T[r].st]]
    PROVE  Life!Result(R) = finalize_workflow_if_done(T)
<1> DEFINE rows == {r \in RowIds : r[1] \in Business /\ Exists(T, r)}
           absent == \E n \in Business : RowsOf(T, n) = {}
           missing == \E P \in {OwnRows[n] : n \in Business} : \A r \in P : R[r] = "none"
           open == \E r \in rows : ~Terminal(T, r)
           has(s) == \E r \in rows : T[r].st = s
           shows(s) == \E r \in RowIds : R[r] = s
<1>1. finalize_workflow_if_done(T) =
         IF absent \/ open THEN "running"
         ELSE IF has("CANCELLED") THEN "cancelled"
         ELSE IF has("FAILED") THEN "failed" ELSE "success"
  BY DEF finalize_workflow_if_done
<1>2. Life!Result(R) =
         IF missing \/ shows("open") THEN "running"
         ELSE IF shows("cancelled") THEN "cancelled"
         ELSE IF shows("failed") THEN "failed" ELSE "success"
  BY DEF Life!Result
<1>3. \A r \in RowIds :
         /\ R[r] = "none" <=> T[r].st = "none"
         /\ R[r] = "open" <=> T[r].st # "none" /\ ~Terminal(T, r)
         /\ R[r] = "failed" <=> T[r].st = "FAILED"
         /\ R[r] = "cancelled" <=> T[r].st = "CANCELLED"
  <2> SUFFICES ASSUME NEW r \in RowIds
              PROVE  /\ R[r] = "none" <=> T[r].st = "none"
                     /\ R[r] = "open" <=> T[r].st # "none" /\ ~Terminal(T, r)
                     /\ R[r] = "failed" <=> T[r].st = "FAILED"
                     /\ R[r] = "cancelled" <=> T[r].st = "CANCELLED"
    OBVIOUS
  <2>1. R[r] = Word[T[r].st] /\ T[r].st \in Statuses \cup {"none"}
    BY StatusOf
  <2> QED
    BY <2>1, Words DEF Terminal, TERMINAL_STATUSES, Statuses
<1>4. \A r \in RowIds : T[r].st \notin {"none", "SUCCESS"} => r \in rows
  BY RowNode DEF Orderly, Business, Exists
<1>5. \A r \in rows : r \in RowIds /\ T[r].st # "none"
  BY DEF Exists
<1>6. \A n \in Business : RowsOf(T, n) = {} <=> \A r \in OwnRows[n] : R[r] = "none"
  <2>1. \A n \in Business : \A r \in OwnRows[n] : r \in RowIds
    BY DEF OwnRows, Business
  <2> QED
    BY <1>3, <2>1 DEF RowsOf, Exists
<1> HIDE DEF rows
<1>7. absent <=> missing
  BY <1>6
<1>8. open <=> shows("open")
  BY <1>3, <1>4, <1>5 DEF Terminal, TERMINAL_STATUSES
<1>9. (has("CANCELLED") <=> shows("cancelled")) /\ (has("FAILED") <=> shows("failed"))
  BY <1>3, <1>4, <1>5
<1> HIDE DEF absent, missing, open, has, shows
<1> QED
  BY <1>1, <1>2, <1>7, <1>8, <1>9

(* A step that leaves the rows alone, and starts or stops no job.          *)
LEMMA NothingPromised ==
    ASSUME UNCHANGED <<exec, db>>,
           \A r \in RowIds : job'[r] \in {"active", "killed"} => job[r] = job'[r]
    PROVE  Life!JobsEnd
<1>1. rowBar' = rowBar /\ firmBar' = firmBar
  BY DEF rowBar, firmBar, Terminal
<1>2. liveBar' \subseteq liveBar
  BY DEF liveBar
<1>3. toldBar' = toldBar \cap liveBar'
  BY DEF liveBar, toldBar
<1> QED
  BY <1>1, <1>2, <1>3 DEF Life!JobsEnd

(* A step that writes the rows.                                            *)
LEMMA ProgressShown ==
    ASSUME db \in Tables, db' \in Tables, Orderly(db'), JobsAccountedFor',
           Rows(db) \subseteq Rows(db'), NEW X, Follows(db', db, X), JobsAccountedFor,
           \A r \in RowIds : job[r] = "killed" => job'[r] \in {"active", "killed"},
           exec' = finalize_workflow_if_done(db')
    PROVE  Life!Progress
<1>1. /\ rowBar = [r \in RowIds |-> Word[db[r].st]]
      /\ rowBar' = [r \in RowIds |-> Word[db'[r].st]]
  BY DEF rowBar
<1>2. \A r \in RowIds : /\ db[r].st \in Statuses \cup {"none"}
                        /\ db'[r].st \in Statuses \cup {"none"}
  BY StatusOf
<1>3. \A r \in RowIds : /\ r \in firmBar <=> Settled(db, r)
                        /\ r \in firmBar' <=> Settled(db', r)
  BY DEF firmBar, LoopRows, Settled, Terminal
<1>4. firmBar \subseteq RowIds /\ firmBar' \subseteq RowIds /\ liveBar' \subseteq RowIds
  BY DEF firmBar, liveBar
<1>5. \A r \in RowIds : /\ r \in Life!Closed(rowBar) <=> Terminal(db, r)
                        /\ r \in Life!Closed(rowBar') <=> Terminal(db', r)
                        /\ r \in Life!Open(rowBar') <=> db'[r].st \in {"PENDING", "RUNNING"}
  BY <1>1, <1>2, Words DEF Life!Closed, Life!Open, Terminal
<1>6. Life!Closed(rowBar) \subseteq RowIds /\ Life!Closed(rowBar') \subseteq RowIds
  BY DEF Life!Closed
<1>7. rowBar' \in [RowIds -> {"none", "open"} \cup Life!Verdicts]
  BY <1>1, <1>2, Words
<1>8. \A r \in RowIds : rowBar'[r] = "none" => rowBar[r] = "none"
  BY <1>1, <1>2, Words DEF Rows, Exists
<1>9. Life!Closed(rowBar) \subseteq Life!Closed(rowBar')
  BY <1>5, <1>6 DEF Follows
<1>10. \A r \in firmBar : db'[r] = db[r] /\ Settled(db', r)
  BY <1>3, <1>4 DEF Follows, Settled, Terminal
<1>11. (\A r \in firmBar : rowBar'[r] = rowBar[r]) /\ firmBar \subseteq firmBar'
  BY <1>1, <1>3, <1>4, <1>10
<1>12. Life!Closed(rowBar') \ LoopRows \subseteq firmBar' /\ firmBar' \subseteq Life!Closed(rowBar')
  BY <1>3, <1>4, <1>5, <1>6 DEF Settled, LoopRows
<1>13. liveBar' \subseteq Life!Open(rowBar') \cup Life!Closed(rowBar')
  BY <1>4, <1>5 DEF liveBar, JobsAccountedFor
<1>13a. toldBar' = liveBar' \cap Life!Closed(rowBar')
  <2>1. \A r \in RowIds : r \in toldBar' <=> r \in liveBar' /\ Terminal(db', r)
    BY DEF toldBar, liveBar, JobsAccountedFor, Terminal, TERMINAL_STATUSES
  <2> QED
    BY <1>4, <1>5, <2>1 DEF toldBar
<1>13b. toldBar \subseteq toldBar'
  <2> SUFFICES ASSUME NEW r \in RowIds, job[r] = "killed" PROVE job'[r] = "killed"
    BY DEF toldBar
  <2>1. Terminal(db', r)
    BY DEF JobsAccountedFor, Follows
  <2> QED
    BY <2>1 DEF JobsAccountedFor, Terminal, TERMINAL_STATUSES
<1>14. exec' = Life!Result(rowBar')
  BY <1>1, ResultShown
<1> QED
  BY <1>7, <1>8, <1>9, <1>11, <1>12, <1>13, <1>13a, <1>13b, <1>14 DEF Life!Progress

LEMMA CommitShown ==
    ASSUME OneDaemon, SInv, SInv', NEW t \in Tickers, Commit(t)
    PROVE  Life!Advance
<1>0. /\ IInv /\ Alone /\ Orderly(db) /\ Judged(db) /\ pc[t] = "tx" /\ exec = "running"
      /\ db \in Tables /\ db' \in Tables /\ Orderly(db')
      /\ JobsAccountedFor /\ JobsAccountedFor'
  BY DEF SInv, IInv, TypeOK, Alone, Commit
<1>1. PICK b \in {BeforeDispatch(t)}, T2 \in Tables, N \in SUBSET Nodes :
         \E o \in DispatchChoices(Candidates(b.table, b.created)) :
         \E a \in {AfterDispatching(b, o)} :
            /\ BeforeKept(t, b, T2, N)
            /\ AfterKept(b, Candidates(b.table, b.created), o, a)
            /\ db' = a.table
            /\ exec' = finalize_workflow_if_done(a.table)
            /\ job' = StartJobs(KillJobs(job, b.cancel \cup aborts[t]), o)
  BY <1>0, LoneCommit, ZenonT(60)
<1>2. /\ Follows(T2, view[t], b.cancel) /\ Follows(b.table, T2, {}) /\ Follows(db', b.table, {})
      /\ Rows(db) \subseteq Rows(db') /\ exec' = finalize_workflow_if_done(db')
  BY <1>1 DEF BeforeKept, AfterKept
<1>3. Follows(view[t], db, wrote[t])
  BY <1>0, LoneView
<1>4. Follows(T2, db, wrote[t] \cup b.cancel)
  BY <1>2, <1>3, FollowsTrans
<1>5. Follows(b.table, db, (wrote[t] \cup b.cancel) \cup {})
  BY <1>2, <1>4, FollowsTrans
<1>6. Follows(db', db, ((wrote[t] \cup b.cancel) \cup {}) \cup {})
  BY <1>2, <1>5, FollowsTrans
<1>7. \A r \in RowIds : job[r] = "killed" => job'[r] \in {"active", "killed"}
  BY <1>1 DEF StartJobs, KillJobs
<1>8. Life!Progress
  BY <1>0, <1>2, <1>6, <1>7, ProgressShown
<1> QED
  BY <1>0, <1>8 DEF Life!Advance

LEMMA TriggerShown ==
    ASSUME SInv, SInv', trigger_workflow
    PROVE  Life!Trigger \/ Life!Refuse
<1>0. /\ IInv /\ exec = "none" /\ db \in Tables /\ db' \in Tables
      /\ Orderly(db') /\ JobsAccountedFor /\ JobsAccountedFor' /\ Rows(db) = {}
  BY DEF SInv, IInv, TypeOK, Database, trigger_workflow
<1>1. PICK C \in SUBSET RowIds : \E o \in DispatchChoices(C) :
         (exec' = "error" /\ UNCHANGED <<db, job>>) \/ TriggerKept(C, o)
  BY <1>0, TriggerKeeps
<1>2. CASE exec' = "error" /\ UNCHANGED <<db, job>>
  <2>1. UNCHANGED <<rowBar, firmBar, liveBar, toldBar>>
    BY <1>2 DEF rowBar, firmBar, liveBar, toldBar, Terminal
  <2> QED
    BY <1>0, <1>2, <2>1 DEF Life!Refuse
<1>3. CASE exec' = finalize_workflow_if_done(db')
  <2>1. \A r \in RowIds : db[r].st = "none"
    BY <1>0 DEF Rows, Exists
  <2>2. Follows(db', db, {})
    BY <2>1 DEF Follows, Settled, Terminal, TERMINAL_STATUSES
  <2>3. Rows(db) \subseteq Rows(db')
    BY <1>0
  <2>4. \A r \in RowIds : job[r] # "killed"
    BY <1>0, <2>1 DEF JobsAccountedFor, Terminal, TERMINAL_STATUSES
  <2> QED
    BY <1>0, <1>3, <2>2, <2>3, <2>4, ProgressShown DEF Life!Trigger
<1> QED
  BY <1>1, <1>2, <1>3 DEF TriggerKept

(* With the daemon as its only caller, and whatever it conflicts with or   *)
(* wherever it crashes, the runner implements ExecutionLife: rows are      *)
(* opened and closed once, the execution gets the result its rows have,    *)
(* and from then on no row changes and no job starts; a job still running  *)
(* behind a closed row was told to stop when the row was closed.           *)
THEOREM LifeKept ==
    ASSUME OneDaemon
    PROVE  Spec => KeepsLife
<1>1. Init => Life!Init
  <2> SUFFICES ASSUME Init PROVE Life!Init
    OBVIOUS
  <2>1. \A r \in RowIds : db[r].st = "none" /\ job[r] = "idle"
    BY EmptyTableKept DEF Init
  <2>2. rowBar = [r \in RowIds |-> "none"]
    BY <2>1, Words DEF rowBar
  <2>3. firmBar = {} /\ liveBar = {} /\ toldBar = {}
    BY <2>1 DEF firmBar, liveBar, toldBar, Terminal, TERMINAL_STATUSES
  <2> QED
    BY <2>2, <2>3 DEF Init, Life!Init
<1>2. ASSUME SInv, SInv', [Next]_vars
      PROVE  [Life!Next]_(Life!vars)
  <2>1. CASE trigger_workflow
    BY <1>2, <2>1, TriggerShown DEF Life!Next
  <2>2. ASSUME NEW t \in Tickers, Commit(t)
        PROVE  Life!Next
    BY <1>2, <2>2, CommitShown DEF Life!Next
  <2>3. ASSUME NEW t \in Tickers, Aside(t)
        PROVE  Life!Next
    <3>1. UNCHANGED <<exec, db>>
      BY <2>3, AsideFrame DEF OneDaemon
    <3>2. \A r \in RowIds : job'[r] \in {"active", "killed"} => job[r] = job'[r]
      BY <1>2, <2>3, AsideJobs DEF SInv, OneDaemon
    <3> QED
      BY <3>1, <3>2, NothingPromised DEF Life!Next
  <2>4. CASE UNCHANGED vars
    BY <2>4, NothingPromised DEF vars, Life!Next
  <2> QED
    BY <1>2, <2>1, <2>2, <2>3, <2>4, LoneSteps DEF SInv
<1> QED
  BY <1>1, <1>2, SerialInvariant, PTL DEF Spec, KeepsLife, Life!Spec

=============================================================================
