------------------------- MODULE ApprovalRefinement -------------------------
(***************************************************************************)
(* The approval engines, serving one request at a time, implement          *)
(* ApprovalDecision: each save of a node is a vote or an invitation on a   *)
(* stage whose turn has come, each save of an instance the decision its    *)
(* votes justify, and every other step changes nothing that was promised.  *)
(***************************************************************************)
EXTENDS ApprovalSerialProofs

LEMMA FunctionIsSeq ==
    ASSUME NEW S, NEW n \in Nat, NEW f \in [1 .. n -> S]
    PROVE  f \in Seq(S) /\ Len(f) = n
<1>1. f \in Seq(S)
  BY SeqDef
<1>2. DOMAIN f = 1 .. Len(f) /\ Len(f) \in Nat
  BY <1>1, LenProperties
<1> QED
  BY <1>1, <1>2

(* What the mapping shows of one instance.                                 *)
LEMMA Shown ==
    ASSUME TypeOK, NEW i \in Instances
    PROVE  /\ decisionBar[i] = Decision[instance[i].status]
           /\ stagesBar[i] \in Seq(Promise!Stage) /\ Len(stagesBar[i]) = Len(nodes[i])
           /\ votesBar[i] \in Seq(SUBSET Users) /\ Len(votesBar[i]) = Len(nodes[i])
           /\ \A k \in 1 .. Len(nodes[i]) :
                 /\ stagesBar[i][k] = StageOf(nodes[i][k])
                 /\ votesBar[i][k] = nodes[i][k].approvals
<1>1. Len(nodes[i]) \in Nat /\ \A k \in 1 .. Len(nodes[i]) : nodes[i][k] \in NodeRow
  BY DEF TypeOK
<1>2. \A k \in 1 .. Len(nodes[i]) :
         StageOf(nodes[i][k]) \in Promise!Stage /\ nodes[i][k].approvals \in SUBSET Users
  BY <1>1 DEF StageOf, Promise!Stage, NodeRow
<1>3. /\ stagesBar[i] \in [1 .. Len(nodes[i]) -> Promise!Stage]
      /\ votesBar[i] \in [1 .. Len(nodes[i]) -> SUBSET Users]
  BY <1>2 DEF stagesBar, votesBar
<1>4. /\ stagesBar[i] \in Seq(Promise!Stage) /\ Len(stagesBar[i]) = Len(nodes[i])
      /\ votesBar[i] \in Seq(SUBSET Users) /\ Len(votesBar[i]) = Len(nodes[i])
  BY <1>1, <1>3, FunctionIsSeq
<1> QED
  BY <1>4 DEF decisionBar, stagesBar, votesBar

LEMMA Words ==
    /\ Decision["none"] = "none" /\ Decision["pending"] = "open"
    /\ Decision["approved"] = "granted" /\ Decision["rejected"] = "refused"
    /\ Decision["cancelled"] = "withdrawn"
  BY DEF Decision

(* A signed node is a complete stage, and with the nodes before it signed  *)
(* the one in turn has been reached.                                       *)
LEMMA SignedIsComplete ==
    ASSUME TypeOK, NEW i \in Instances, NEW k \in 1 .. Len(nodes[i]), Signed(nodes[i][k])
    PROVE  Promise!Complete(i, k)
<1>1. /\ stagesBar[i][k] = StageOf(nodes[i][k]) /\ votesBar[i][k] = nodes[i][k].approvals
  BY Shown
<1>2. /\ StageOf(nodes[i][k]).all <=> nodes[i][k].mode = "all"
      /\ StageOf(nodes[i][k]).asks = nodes[i][k].candidates
  BY DEF StageOf
<1> QED
  BY <1>1, <1>2 DEF Promise!Complete, Signed

LEMMA InTurnIsReached ==
    ASSUME TypeOK, InOrder, NEW i \in Instances, Open(i), NEW k \in 1 .. Len(nodes[i]),
           k = instance[i].index + 1
    PROVE  k \in Promise!Reached(i)
<1>1. instance[i].index \in Nat /\ Len(nodes[i]) \in Nat /\ RowInOrder(i)
  BY DEF TypeOK, InstanceRow, InOrder
<1>2. \A j \in 1 .. k - 1 : j \in 1 .. Len(nodes[i]) /\ Signed(nodes[i][j])
  BY <1>1 DEF RowInOrder
<1>3. \A j \in 1 .. k - 1 : Promise!Complete(i, j)
  BY <1>2, SignedIsComplete
<1>4. k \in 1 .. Len(stagesBar[i])
  BY Shown
<1> QED
  BY <1>3, <1>4 DEF Promise!Reached

(* Steps that save no row.                                                 *)
LEMMA NothingShown ==
    ASSUME UNCHANGED <<instance, nodes>>
    PROVE  UNCHANGED Promise!vars
  BY DEF Promise!vars, decisionBar, stagesBar, votesBar

-----------------------------------------------------------------------------
(* start_approval.                                                         *)

LEMMA CreateAsks ==
    ASSUME IInv, NEW r \in Requests, CreateInstance(r)
    PROVE  Promise!Next
<1>1. PICK i \in Instances : /\ i = CHOOSE x \in Instances : instance[x].status = "none"
                             /\ instance[i].status = "none"
  BY DEF CreateInstance
<1>2. /\ instance' = [instance EXCEPT ![i] = NewInstance(req[r].by)] /\ UNCHANGED nodes
  BY <1>1 DEF CreateInstance
<1>3. \A x \in Instances : instance'[x] = IF x = i THEN NewInstance(req[r].by) ELSE instance[x]
  BY <1>2 DEF IInv, TypeOK
<1>4. NewInstance(req[r].by).status = "pending"
  BY DEF NewInstance
<1>5. decisionBar' = [decisionBar EXCEPT ![i] = "open"]
  BY <1>3, <1>4, Words DEF decisionBar
<1>6. UNCHANGED <<stagesBar, votesBar>>
  BY <1>2 DEF stagesBar, votesBar
<1>7. decisionBar[i] = "none"
  BY <1>1, Words DEF decisionBar
<1>8. Promise!Ask(i)
  BY <1>5, <1>6, <1>7 DEF Promise!Ask
<1> QED
  BY <1>8 DEF Promise!Next

LEMMA InsertAddsStage ==
    ASSUME IInv, IInv', InOrder, NEW r \in Requests, InsertNode(r)
    PROVE  Promise!Next
<1>1. PICK q \in Request : /\ q = req[r] /\ LaysDown(q)
                           /\ q.plan # <<>> /\ q.plan \in Seq(Asked)
  BY DEF InsertNode, InOrder, Turn, IInv, TypeOK, InFlight, Flight, Request
<1>2. PICK i \in Instances : i = q.inst /\ Open(i)
  BY <1>1 DEF LaysDown
<1>3. PICK new \in NodeRow : new = NewRow(Head(q.plan)) /\ Untouched(new)
  BY <1>1, NewRowUntouched
<1>4. nodes' = [nodes EXCEPT ![i] = Append(@, new)] /\ UNCHANGED instance
  BY <1>1, <1>2, <1>3 DEF InsertNode
<1>5. /\ nodes'[i] = Append(nodes[i], new) /\ nodes[i] \in Seq(NodeRow)
      /\ \A x \in Instances : x # i => nodes'[x] = nodes[x]
  BY <1>4 DEF IInv, TypeOK
<1>6. /\ Len(nodes'[i]) = Len(nodes[i]) + 1 /\ Len(nodes[i]) \in Nat
      /\ nodes'[i][Len(nodes[i]) + 1] = new
      /\ \A k \in 1 .. Len(nodes[i]) : nodes'[i][k] = nodes[i][k]
  BY <1>5
<1>7. stagesBar'[i] = Append(stagesBar[i], StageOf(new))
  <2>1. /\ stagesBar[i] \in Seq(Promise!Stage) /\ Len(stagesBar[i]) = Len(nodes[i])
        /\ \A k \in 1 .. Len(nodes[i]) : stagesBar[i][k] = StageOf(nodes[i][k])
    BY Shown DEF IInv
  <2>2. StageOf(new) \in Promise!Stage
    BY DEF StageOf, Promise!Stage, NodeRow
  <2>3. stagesBar'[i] = [k \in 1 .. Len(nodes[i]) + 1 |-> StageOf(nodes'[i][k])]
    BY <1>6 DEF stagesBar
  <2>4. Append(stagesBar[i], StageOf(new)) =
           [k \in 1 .. Len(nodes[i]) + 1 |->
               IF k = Len(nodes[i]) + 1 THEN StageOf(new) ELSE stagesBar[i][k]]
    BY <1>6, <2>1, <2>2
  <2>5. \A k \in 1 .. Len(nodes[i]) + 1 :
           StageOf(nodes'[i][k]) = IF k = Len(nodes[i]) + 1 THEN StageOf(new) ELSE stagesBar[i][k]
    BY <1>6, <2>1
  <2> QED
    BY <2>3, <2>4, <2>5
<1>8. votesBar'[i] = Append(votesBar[i], {})
  <2>1. /\ votesBar[i] \in Seq(SUBSET Users) /\ Len(votesBar[i]) = Len(nodes[i])
        /\ \A k \in 1 .. Len(nodes[i]) : votesBar[i][k] = nodes[i][k].approvals
    BY Shown DEF IInv
  <2>2. new.approvals = {}
    BY <1>3 DEF Untouched
  <2>3. votesBar'[i] = [k \in 1 .. Len(nodes[i]) + 1 |-> nodes'[i][k].approvals]
    BY <1>6 DEF votesBar
  <2>4. Append(votesBar[i], {}) =
           [k \in 1 .. Len(nodes[i]) + 1 |-> IF k = Len(nodes[i]) + 1 THEN {} ELSE votesBar[i][k]]
    BY <1>6, <2>1
  <2>5. \A k \in 1 .. Len(nodes[i]) + 1 :
           nodes'[i][k].approvals = IF k = Len(nodes[i]) + 1 THEN {} ELSE votesBar[i][k]
    <3> TAKE k \in 1 .. Len(nodes[i]) + 1
    <3>1. CASE k = Len(nodes[i]) + 1
      BY <1>6, <2>2, <3>1
    <3>2. CASE k \in 1 .. Len(nodes[i])
      <4>1. nodes'[i][k] = nodes[i][k] /\ votesBar[i][k] = nodes[i][k].approvals
            /\ k # Len(nodes[i]) + 1
        BY <1>6, <2>1, <3>2
      <4> QED
        BY <4>1
    <3> QED
      BY <1>6, <3>1, <3>2
  <2> QED
    BY <2>3, <2>4, <2>5
<1>9. \A x \in Instances : x # i => stagesBar'[x] = stagesBar[x] /\ votesBar'[x] = votesBar[x]
  BY <1>5 DEF stagesBar, votesBar
<1>10. /\ stagesBar' = [stagesBar EXCEPT ![i] = Append(@, StageOf(new))]
       /\ votesBar' = [votesBar EXCEPT ![i] = Append(@, {})]
  <2>1. /\ stagesBar' = [x \in Instances |-> stagesBar'[x]]
        /\ votesBar' = [x \in Instances |-> votesBar'[x]]
        /\ stagesBar = [x \in Instances |-> stagesBar[x]]
        /\ votesBar = [x \in Instances |-> votesBar[x]]
    BY DEF stagesBar, votesBar
  <2> QED
    BY <1>7, <1>8, <1>9, <2>1
<1>11. decisionBar[i] = "open" /\ UNCHANGED decisionBar
  BY <1>2, <1>4, Words DEF decisionBar, Open
<1>12. \A k \in 1 .. Len(votesBar[i]) : votesBar[i][k] = {}
  BY <1>1, <1>2, Shown DEF LaysDown, Untouched, IInv
<1>13. StageOf(new) \in Promise!Stage
  BY DEF StageOf, Promise!Stage, NodeRow
<1>14. Promise!AddStage(i, StageOf(new))
  BY <1>10, <1>11, <1>12 DEF Promise!AddStage
<1> QED
  BY <1>13, <1>14 DEF Promise!Next

-----------------------------------------------------------------------------
(* node_exec.save(): a vote or an invitation on the stage in turn.         *)

LEMMA MoreAsked ==
    ASSUME NEW b, NEW c, NEW d
    PROVE  [[all |-> b, asks |-> c] EXCEPT !.asks = @ \cup d] = [all |-> b, asks |-> c \cup d]
  OBVIOUS

LEMMA SaveNodeVotes ==
    ASSUME IInv, InOrder, NEW r \in Requests, SaveNode(r)
    PROVE  Promise!Next \/ UNCHANGED Promise!vars
<1>1. PICK q \in Request : q = req[r] /\ q.at = "node" /\ HasVoted(q) /\ AtNode(q)
  BY DEF SaveNode, InOrder, Turn, IInv, TypeOK, InFlight, Flight
<1>2. PICK i \in Instances : i = q.inst /\ Open(i)
  BY <1>1 DEF HasVoted, At
<1>3. PICK k \in 1 .. Len(nodes[i]) : k = q.k /\ k = instance[i].index + 1
  BY <1>1, <1>2 DEF HasVoted, At, AtNode
<1>4. PICK row \in NodeRow : row = q.row
  BY DEF Request
<1>5. PICK old \in NodeRow : old = nodes[i][k] /\ Edited(q, old)
  <2>1. nodes[i] \in Seq(NodeRow)
    BY DEF IInv, TypeOK
  <2>2. nodes[i][k] \in NodeRow
    BY <2>1
  <2> QED
    BY <1>1, <1>2, <1>3, <2>2 DEF HasVoted
<1>6. /\ UNCHANGED decisionBar
      /\ stagesBar' = [stagesBar EXCEPT ![i] = [@ EXCEPT ![k] = StageOf(row)]]
      /\ votesBar' = [votesBar EXCEPT ![i] = [@ EXCEPT ![k] = row.approvals]]
  <2>1. nodes' = [nodes EXCEPT ![i] = [@ EXCEPT ![k] = row]] /\ UNCHANGED instance
    BY <1>1, <1>2, <1>3, <1>4 DEF SaveNode
  <2>2. /\ nodes[i] \in Seq(NodeRow) /\ nodes'[i] = [nodes[i] EXCEPT ![k] = row]
        /\ \A x \in Instances : x # i => nodes'[x] = nodes[x]
    BY <2>1 DEF IInv, TypeOK
  <2>3. /\ Len(nodes'[i]) = Len(nodes[i])
        /\ \A j \in 1 .. Len(nodes[i]) : nodes'[i][j] = IF j = k THEN row ELSE nodes[i][j]
    BY <2>2
  <2>4. stagesBar'[i] = [stagesBar[i] EXCEPT ![k] = StageOf(row)]
    <3> DEFINE was == stagesBar[i]
               becomes == stagesBar'[i]
               stage == StageOf(row)
               n == Len(nodes[i])
    <3>1. /\ was = [j \in 1 .. n |-> was[j]] /\ becomes = [j \in 1 .. n |-> becomes[j]]
          /\ \A j \in 1 .. n : was[j] = StageOf(nodes[i][j]) /\ becomes[j] = StageOf(nodes'[i][j])
      BY <2>3 DEF stagesBar
    <3>2. \A j \in 1 .. n : becomes[j] = IF j = k THEN stage ELSE was[j]
      BY <2>3, <3>1, ZenonT(60)
    <3>3. becomes = [was EXCEPT ![k] = stage]
      <4> HIDE DEF was, becomes, stage, n
      <4> QED
        BY <3>1, <3>2
    <3> QED
      BY <3>3
  <2>5. votesBar'[i] = [votesBar[i] EXCEPT ![k] = row.approvals]
    <3> DEFINE was == votesBar[i]
               becomes == votesBar'[i]
               votes == row.approvals
               n == Len(nodes[i])
    <3>1. /\ was = [j \in 1 .. n |-> was[j]] /\ becomes = [j \in 1 .. n |-> becomes[j]]
          /\ \A j \in 1 .. n : was[j] = nodes[i][j].approvals /\ becomes[j] = nodes'[i][j].approvals
      BY <2>3 DEF votesBar
    <3>2. ASSUME NEW j \in 1 .. n
          PROVE  becomes[j] = IF j = k THEN votes ELSE was[j]
      <4>1. /\ was[j] = nodes[i][j].approvals /\ becomes[j] = nodes'[i][j].approvals
            /\ nodes'[i][j] = IF j = k THEN row ELSE nodes[i][j]
        BY <2>3, <3>1
      <4> HIDE DEF was, becomes
      <4> QED
        BY <4>1
    <3>3. becomes = [was EXCEPT ![k] = votes]
      <4> HIDE DEF was, becomes, votes, n
      <4> QED
        BY <3>1, <3>2
    <3> QED
      BY <3>3
  <2>6. \A x \in Instances : x # i => stagesBar'[x] = stagesBar[x] /\ votesBar'[x] = votesBar[x]
    BY <2>2 DEF stagesBar, votesBar
  <2>7. /\ stagesBar' = [x \in Instances |-> stagesBar'[x]]
        /\ votesBar' = [x \in Instances |-> votesBar'[x]]
        /\ stagesBar = [x \in Instances |-> stagesBar[x]]
        /\ votesBar = [x \in Instances |-> votesBar[x]]
    BY DEF stagesBar, votesBar
  <2>8. UNCHANGED decisionBar
    BY <2>1 DEF decisionBar
  <2> QED
    BY <2>4, <2>5, <2>6, <2>7, <2>8
<1>7. /\ stagesBar[i][k] = StageOf(old) /\ votesBar[i][k] = old.approvals
      /\ decisionBar[i] = "open" /\ k \in Promise!Reached(i)
  BY <1>2, <1>3, <1>5, Shown, Words, InTurnIsReached DEF IInv, Open
<1>8. ASSUME row.mode = old.mode, row.candidates = old.candidates
      PROVE  UNCHANGED stagesBar
  <2>1. StageOf(row) = stagesBar[i][k]
    BY <1>7, <1>8 DEF StageOf
  <2>2. /\ stagesBar = [x \in Instances |-> stagesBar[x]]
        /\ stagesBar[i] = [x \in 1 .. Len(nodes[i]) |-> stagesBar[i][x]]
    BY DEF stagesBar
  <2> QED
    <3>1. [stagesBar[i] EXCEPT ![k] = StageOf(row)] = stagesBar[i]
      BY <2>1, <2>2
    <3> QED
      BY <1>6, <2>2, <3>1
<1>9. ASSUME row.approvals = old.approvals
      PROVE  UNCHANGED votesBar
  <2>1. row.approvals = votesBar[i][k]
    BY <1>7, <1>9
  <2>2. /\ votesBar = [x \in Instances |-> votesBar[x]]
        /\ votesBar[i] = [x \in 1 .. Len(nodes[i]) |-> votesBar[i][x]]
    BY DEF votesBar
  <2> QED
    <3>1. [votesBar[i] EXCEPT ![k] = row.approvals] = votesBar[i]
      BY <2>1, <2>2
    <3> QED
      BY <1>6, <2>2, <3>1
<1>10. CASE q.op = "approve"
  <2>1. /\ row.mode = old.mode /\ row.candidates = old.candidates
        /\ q.by \in old.candidates \ old.approvals
        /\ row.approvals = old.approvals \cup {q.by}
    BY <1>4, <1>5, <1>10 DEF Edited
  <2>2. q.by \in Users
    BY <1>1, <1>10 DEF AtNode
  <2>3. q.by \in stagesBar[i][k].asks \ votesBar[i][k]
    BY <1>7, <2>1 DEF StageOf
  <2>4. votesBar' = [votesBar EXCEPT ![i][k] = @ \cup {q.by}]
    BY <1>6, <1>7, <2>1
  <2>5. Promise!Vote(i, k, q.by)
    BY <1>6, <1>7, <1>8, <2>1, <2>3, <2>4 DEF Promise!Vote
  <2> QED
    BY <1>7, <2>2, <2>5 DEF Promise!Next
<1>11. CASE q.op = "reject"
  <2>1. /\ row.mode = old.mode /\ row.candidates = old.candidates
        /\ row.approvals = old.approvals
    BY <1>4, <1>5, <1>11 DEF Edited
  <2> QED
    BY <1>6, <1>8, <1>9, <2>1 DEF Promise!vars
<1>12. CASE q.op = "invite"
  <2>1. /\ row.mode = old.mode /\ old.candidates \subseteq row.candidates
        /\ row.approvals = old.approvals /\ row.candidates \in SUBSET Users
    BY <1>4, <1>5, <1>12 DEF Edited, NodeRow
  <2>2. StageOf(row) = [stagesBar[i][k] EXCEPT !.asks = @ \cup row.candidates]
    <3>1. old.candidates \cup row.candidates = row.candidates
      BY <2>1
    <3> DEFINE every == old.mode = "all"
               stage == stagesBar[i][k]
               more == row.candidates
               few == old.candidates
    <3>2. StageOf(row) = [all |-> every, asks |-> more]
      BY <2>1 DEF StageOf
    <3>3. stage = [all |-> every, asks |-> few]
      BY <1>7 DEF StageOf
    <3>4. [stage EXCEPT !.asks = @ \cup more] = [all |-> every, asks |-> few \cup more]
      <4>1. [stage EXCEPT !.asks = @ \cup more]
              = [[all |-> every, asks |-> few] EXCEPT !.asks = @ \cup more]
        <5> HIDE DEF every, stage, more, few
        <5> QED
          BY <3>3, Zenon
      <4>2. [[all |-> every, asks |-> few] EXCEPT !.asks = @ \cup more]
              = [all |-> every, asks |-> few \cup more]
        <5> HIDE DEF every, stage, more, few
        <5> QED
          BY MoreAsked, Zenon
      <4> QED
        BY <4>1, <4>2, Zenon
    <3> QED
      BY <3>1, <3>2, <3>4, Zenon
  <2>3. stagesBar' = [stagesBar EXCEPT ![i][k].asks = @ \cup row.candidates]
    BY <1>6, <2>2
  <2>4. Promise!Invite(i, k, row.candidates)
    BY <1>6, <1>7, <1>9, <2>1, <2>3 DEF Promise!Invite
  <2> QED
    BY <1>7, <2>1, <2>4 DEF Promise!Next
<1> QED
  BY <1>5, <1>10, <1>11, <1>12 DEF Edited

-----------------------------------------------------------------------------
(* instance.save(): the decision, or the next stage in turn.               *)

LEMMA SaveInstanceDecides ==
    ASSUME IInv, InOrder, NEW r \in Requests, SaveInstance(r)
    PROVE  Promise!Next \/ UNCHANGED Promise!vars
<1>1. PICK q \in Request : q = req[r] /\ q.at = "inst" /\ Decides(q)
  BY DEF SaveInstance, InOrder, Turn, IInv, TypeOK
<1>2. PICK i \in Instances : i = q.inst /\ Open(i)
  BY <1>1 DEF Decides
<1>3. /\ instance' = [instance EXCEPT ![i] = q.snap] /\ UNCHANGED nodes
  BY <1>1, <1>2 DEF SaveInstance
<1>4. \A x \in Instances : instance'[x] = IF x = i THEN q.snap ELSE instance[x]
  BY <1>3 DEF IInv, TypeOK
<1>5. decisionBar' = [decisionBar EXCEPT ![i] = Decision[q.snap.status]]
  BY <1>4 DEF decisionBar
<1>6. UNCHANGED <<stagesBar, votesBar>>
  BY <1>3 DEF stagesBar, votesBar
<1>7. decisionBar[i] = "open"
  BY <1>2, Words DEF decisionBar, Open
<1>8. Len(nodes[i]) \in Nat /\ Len(stagesBar[i]) = Len(nodes[i])
  BY Shown DEF IInv, TypeOK
<1>9. CASE q.snap.status = "cancelled"
  <2>1. Promise!Withdraw(i)
    BY <1>5, <1>6, <1>7, <1>9, Words DEF Promise!Withdraw
  <2> QED
    BY <2>1 DEF Promise!Next
<1>10. CASE q.snap.status = "rejected"
  <2>1. PICK k \in 1 .. Len(nodes[i]) : k = instance[i].index + 1 /\ nodes[i][k].candidates # {}
    <3>1. instance[i].index \in Nat
      BY DEF IInv, TypeOK, InstanceRow
    <3> QED
      BY <1>1, <1>2, <1>8, <1>10, <3>1 DEF Decides
  <2>2. k \in Promise!Reached(i) /\ stagesBar[i][k].asks # {}
    <3>1. k \in Promise!Reached(i)
      BY <1>2, <2>1, InTurnIsReached DEF IInv
    <3>2. stagesBar[i][k] = StageOf(nodes[i][k])
      BY Shown DEF IInv
    <3> QED
      BY <2>1, <3>1, <3>2 DEF StageOf
  <2>3. Promise!Refuse(i)
    BY <1>5, <1>6, <1>7, <1>10, <2>2, Words DEF Promise!Refuse
  <2> QED
    BY <2>3 DEF Promise!Next
<1>11. CASE q.snap.status = "approved"
  <2>1. nodes[i] # <<>> /\ \A j \in 1 .. Len(nodes[i]) : Signed(nodes[i][j])
    BY <1>1, <1>2, <1>11 DEF Decides
  <2>2. stagesBar[i] # <<>>
    <3>1. Len(nodes[i]) # 0
      BY <2>1 DEF IInv, TypeOK
    <3> QED
      BY <1>8, <3>1
  <2>3. \A j \in 1 .. Len(stagesBar[i]) : Promise!Complete(i, j)
    BY <1>8, <2>1, SignedIsComplete DEF IInv
  <2>4. Promise!Grant(i)
    BY <1>5, <1>6, <1>7, <1>11, <2>2, <2>3, Words DEF Promise!Grant
  <2> QED
    BY <2>4 DEF Promise!Next
<1>12. CASE q.snap.status = "pending"
  <2>1. decisionBar' = decisionBar
    <3>1. \A x \in Instances : instance'[x].status = instance[x].status
      BY <1>2, <1>4, <1>12 DEF Open
    <3> QED
      BY <3>1 DEF decisionBar
  <2> QED
    BY <1>6, <2>1 DEF Promise!vars
<1> QED
  BY <1>1, <1>9, <1>10, <1>11, <1>12 DEF Decides

-----------------------------------------------------------------------------

(* One request at a time, script_approval_engine and                       *)
(* workflow_approval_engine implement ApprovalDecision, also when requests *)
(* die half way: users vote on a stage once those before it are complete   *)
(* and never twice, an approval is decided once, and it is granted only    *)
(* when every stage is complete.                                           *)
THEOREM PromiseKept ==
    ASSUME OneAtATime
    PROVE  Spec => KeepsPromise
<1>1. Init => Promise!Init
  <2> SUFFICES ASSUME Init
               PROVE  Promise!Init
    OBVIOUS
  <2>1. decisionBar = [i \in Instances |-> "none"]
    BY Rows, Words DEF Init, decisionBar
  <2>2. stagesBar = [i \in Instances |-> <<>>] /\ votesBar = [i \in Instances |-> <<>>]
    <3>1. \A i \in Instances : nodes[i] = <<>> /\ 1 .. Len(nodes[i]) = {}
      BY DEF Init
    <3>2. \A i \in Instances : stagesBar[i] = <<>> /\ votesBar[i] = <<>>
      BY <3>1 DEF stagesBar, votesBar
    <3> QED
      BY <3>2 DEF stagesBar, votesBar
  <2> QED
    BY <2>1, <2>2 DEF Promise!Init
<1>2. ASSUME IInv, IInv', InOrder, [Next]_vars
      PROVE  [Promise!Next]_(Promise!vars)
  <2>1. CASE Next
    <3>1. PICK r \in Requests :
              \/ Asks(r) \/ Approve(r) \/ Reject(r) \/ Invite(r) \/ Aside(r)
              \/ SaveNode(r) \/ SaveInstance(r) \/ CreateInstance(r) \/ InsertNode(r)
      BY <1>2, <2>1, StepKinds
    <3>2. CASE Asks(r) \/ Approve(r) \/ Reject(r) \/ Invite(r) \/ Aside(r)
      <4>1. UNCHANGED <<instance, nodes>>
        BY <3>2 DEF Asks, Arrive, AskCancel, Approve, Reject, Invite, Aside, data
      <4> QED
        BY <4>1, NothingShown
    <3> QED
      BY <1>2, <3>1, <3>2, SaveNodeVotes, SaveInstanceDecides, CreateAsks, InsertAddsStage
  <2>2. CASE UNCHANGED vars
    BY <2>2, NothingShown DEF vars
  <2> QED
    BY <1>2, <2>1, <2>2
<1> QED
  BY <1>1, <1>2, Invariance, OrderKept, PTL DEF Spec, KeepsPromise, Promise!Spec

=============================================================================
