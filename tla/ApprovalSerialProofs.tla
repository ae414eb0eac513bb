------------------------ MODULE ApprovalSerialProofs ------------------------
(***************************************************************************)
(* What the approval engines keep when requests are served one at a time.  *)
(*                                                                         *)
(* A request that nobody interrupts saves rows that are still as it has    *)
(* read them.  So the nodes before the one in turn are signed for good,    *)
(* those after it are untouched, and the engine implements                 *)
(* ApprovalDecision, also when requests die half way.  While none has      *)
(* died, the node in turn waits for somebody's vote, and a script has at   *)
(* most one open approval.                                                 *)
(***************************************************************************)
EXTENDS ApprovalProofs

(* Requests are served one at a time.                                      *)
OneAtATime == \E r : Requests = {r}

(* Everybody a node waits for has signed it.                               *)
Signed(row) ==
    /\ row.approvals # {}
    /\ row.mode = "all" => row.candidates \subseteq row.approvals

Untouched(row) == row.approvals = {} /\ row.count = 0 /\ row.rejections = {}

(* The nodes of an open instance, before and after the one in turn.        *)
RowInOrder(i) ==
    /\ instance[i].status = "none" => nodes[i] = <<>>
    /\ Open(i) =>
          /\ IF nodes[i] = <<>> THEN instance[i].index = 0
                                ELSE instance[i].index < Len(nodes[i])
          /\ \A k \in 1 .. instance[i].index : Signed(nodes[i][k])
          /\ \A k \in instance[i].index + 2 .. Len(nodes[i]) : Untouched(nodes[i][k])

(* The instance is still open, at the node the request has read.           *)
At(i, k) == i \in Instances /\ Open(i) /\ k = instance[i].index + 1

HasRead(q) == At(q.inst, q.k) /\ q.snap = instance[q.inst] /\ ~q.moves

(* The row about to be saved, and the row in the table.                    *)
Edited(q, old) ==
    /\ q.row.mode = old.mode
    /\ \/ /\ q.op = "approve"
          /\ q.by \in old.candidates \ old.approvals
          /\ q.row.candidates = old.candidates
          /\ q.row.approvals = old.approvals \cup {q.by}
          /\ q.moves => IsNodeApproved(q.row)
       \/ /\ q.op = "reject" /\ q.moves
          /\ q.row.candidates = old.candidates /\ old.candidates # {}
          /\ q.row.approvals = old.approvals
       \/ /\ q.op = "invite" /\ ~q.moves
          /\ old.candidates \subseteq q.row.candidates
          /\ q.row.approvals = old.approvals

(* What the save of the instance will make of it.                          *)
Moves(q) ==
    \/ q.op = "reject" /\ q.snap.status = "rejected"
    \/ q.op = "approve" /\ q.snap.status = "approved" /\ q.k = Len(nodes[q.inst])
    \/ /\ q.op = "approve" /\ q.snap.status = "pending"
       /\ q.snap.index = q.k /\ q.k < Len(nodes[q.inst])

HasVoted(q) ==
    /\ At(q.inst, q.k) /\ q.k <= Len(nodes[q.inst])
    /\ Edited(q, nodes[q.inst][q.k])
    /\ q.moves => Moves(q)

Decides(q) ==
    /\ q.inst \in Instances /\ Open(q.inst)
    /\ LET N == nodes[q.inst]
           k == instance[q.inst].index + 1
       IN  \/ q.snap.status = "cancelled"
           \/ q.snap.status = "rejected" /\ k <= Len(N) /\ N[k].candidates # {}
           \/ /\ q.snap.status = "approved" /\ N # <<>>
              /\ \A j \in 1 .. Len(N) : Signed(N[j])
           \/ /\ q.snap.status = "pending" /\ q.snap.index = k /\ k < Len(N)
              /\ Signed(N[k])

(* start_approval inserts nodes before anybody can have voted.             *)
LaysDown(q) ==
    /\ q.inst \in Instances /\ Open(q.inst) /\ instance[q.inst].index = 0
    /\ \A k \in 1 .. Len(nodes[q.inst]) : Untouched(nodes[q.inst][k])

Turn(q) ==
    /\ q.at = "nodes" => HasRead(q)
    /\ q.at = "node" => HasVoted(q)
    /\ q.at = "inst" => Decides(q)
    /\ q.at = "insert" => LaysDown(q)

InOrder ==
    /\ \A i \in Instances : RowInOrder(i)
    /\ \A r \in Requests : Turn(req[r])

-----------------------------------------------------------------------------
(* Steps that change no row.                                               *)

LEMMA OnlyRequest ==
    ASSUME OneAtATime, TypeOK, NEW r \in Requests, NEW q,
           req' = [req EXCEPT ![r] = q], Turn(q)'
    PROVE  (\A x \in Requests : Turn(req[x]))'
<1> SUFFICES ASSUME NEW x \in Requests
             PROVE  Turn(req[x])'
  OBVIOUS
<1>1. req'[x] = q
  BY DEF OneAtATime, TypeOK
<1> QED
  BY <1>1 DEF Turn, HasRead, HasVoted, Decides, LaysDown, At, Edited, Moves, Open

LEMMA NoRowChanged ==
    ASSUME OneAtATime, TypeOK, InOrder, NEW r \in Requests, NEW q,
           req' = [req EXCEPT ![r] = q], Turn(q), UNCHANGED <<instance, nodes>>
    PROVE  InOrder'
<1>1. Turn(q)'
  BY DEF Turn, HasRead, HasVoted, Decides, LaysDown, At, Edited, Moves, Open
<1>2. \A i \in Instances : RowInOrder(i)'
  BY DEF InOrder, RowInOrder, Open
<1> QED
  BY <1>1, <1>2, OnlyRequest DEF InOrder

LEMMA ArriveInOrder ==
    ASSUME OneAtATime, TypeOK, InOrder, NEW r \in Requests,
           NEW op, NEW u, NEW named, NEW i \in Instances, Arrive(r, op, u, named, i)
    PROVE  InOrder'
<1> DEFINE q == [Idle EXCEPT !.at = "nodes", !.op = op, !.by = u, !.named = named,
                             !.inst = i, !.snap = instance[i], !.k = instance[i].index + 1]
<1>1. PICK p : p = q
  OBVIOUS
<1>2. /\ p.at = "nodes" /\ p.inst = i /\ p.snap = instance[i] /\ p.k = instance[i].index + 1
      /\ p.moves = FALSE
  BY <1>1 DEF Idle
<1>3. req' = [req EXCEPT ![r] = p] /\ UNCHANGED <<instance, nodes>> /\ Open(i)
  BY <1>1 DEF Arrive, data
<1>4. Turn(p)
  BY <1>2, <1>3 DEF Turn, HasRead, At
<1> QED
  BY <1>3, <1>4, NoRowChanged

LEMMA AskCancelInOrder ==
    ASSUME OneAtATime, TypeOK, InOrder, NEW r \in Requests,
           NEW u, NEW i \in Instances, AskCancel(r, u, i)
    PROVE  InOrder'
<1> DEFINE q == [Idle EXCEPT !.at = "inst", !.inst = i,
                             !.snap = [instance[i] EXCEPT !.status = "cancelled"]]
<1>1. PICK p : p = q
  OBVIOUS
<1>2. p.at = "inst" /\ p.inst = i /\ p.snap.status = "cancelled"
  BY <1>1 DEF Idle, TypeOK, InstanceRow
<1>3. req' = [req EXCEPT ![r] = p] /\ UNCHANGED <<instance, nodes>> /\ Open(i)
  BY <1>1 DEF AskCancel, data
<1>4. Turn(p)
  BY <1>2, <1>3 DEF Turn, Decides
<1> QED
  BY <1>3, <1>4, NoRowChanged

(* A request that goes on has the row in turn in its hands.                *)
LEMMA ReadRow ==
    ASSUME TypeOK, NEW q \in Request, HasRead(q), MayGoOn(q)
    PROVE  /\ q.inst \in Instances /\ q.k \in 1 .. Len(nodes[q.inst])
           /\ Len(nodes[q.inst]) \in Nat
           /\ nodes[q.inst][q.k] \in NodeRow /\ q.snap \in InstanceRow
           /\ q.snap.status = "pending" /\ instance[q.inst] \in InstanceRow
           /\ q.by \in nodes[q.inst][q.k].candidates
           /\ q.op # "invite" => q.by \notin nodes[q.inst][q.k].approvals
<1>1. /\ q.inst \in Instances /\ q.snap \in InstanceRow /\ Len(nodes[q.inst]) \in Nat
      /\ q.k = q.snap.index + 1 /\ q.snap.index \in Nat /\ q.snap.status = "pending"
      /\ nodes[q.inst] \in Seq(NodeRow) /\ instance[q.inst] \in InstanceRow
  BY DEF HasRead, At, Open, Request, InstanceRow, TypeOK
<1>2. q.k \in 1 .. Len(nodes[q.inst])
  BY <1>1 DEF MayGoOn
<1>3. nodes[q.inst][q.k] \in NodeRow
  BY <1>1, <1>2
<1> QED
  BY <1>1, <1>2, <1>3 DEF MayGoOn, MayVote

LEMMA ApproveInOrder ==
    ASSUME OneAtATime, TypeOK, InOrder, NEW r \in Requests, Approve(r)
    PROVE  InOrder'
<1>1. PICK q \in Request : q = req[r] /\ q.op = "approve" /\ HasRead(q) /\ MayGoOn(q)
                           /\ q.at = "nodes"
  BY DEF Approve, InOrder, Turn, TypeOK
<1>2. PICK old \in NodeRow : old = nodes[q.inst][q.k]
  BY <1>1, ReadRow
<1> DEFINE new == [old EXCEPT !.approvals = @ \cup {q.by}, !.count = @ + 1]
           signed == [new EXCEPT !.status = "approved"]
           moved == IF q.k >= Len(nodes[q.inst]) THEN [q.snap EXCEPT !.status = "approved"]
                                                 ELSE [q.snap EXCEPT !.index = q.k]
           goes == [q EXCEPT !.at = "node", !.moves = TRUE, !.row = signed, !.snap = moved]
           stays == [q EXCEPT !.at = "node", !.row = new, !.snap = NoInstance]
<1>3. /\ req' = [req EXCEPT ![r] = IF IsNodeApproved(new) THEN goes ELSE stays]
      /\ UNCHANGED <<instance, nodes>>
  BY <1>1, <1>2 DEF Approve, data
<1>4. /\ new.mode = old.mode /\ new.candidates = old.candidates
      /\ new.approvals = old.approvals \cup {q.by}
      /\ signed.mode = old.mode /\ signed.candidates = old.candidates
      /\ signed.approvals = old.approvals \cup {q.by}
      /\ IsNodeApproved(signed) <=> IsNodeApproved(new)
  BY DEF NodeRow, IsNodeApproved
<1>5. /\ q.by \in old.candidates \ old.approvals /\ q.k \in 1 .. Len(nodes[q.inst])
      /\ Len(nodes[q.inst]) \in Nat
      /\ At(q.inst, q.k)
  BY <1>1, <1>2, ReadRow DEF HasRead
<1>6. \/ moved.status = "approved" /\ q.k = Len(nodes[q.inst])
      \/ moved.status = "pending" /\ moved.index = q.k /\ q.k < Len(nodes[q.inst])
  BY <1>1, <1>5, ReadRow DEF InstanceRow
<1>7. /\ goes.at = "node" /\ goes.moves = TRUE /\ goes.row = signed /\ goes.snap = moved
      /\ goes.inst = q.inst /\ goes.k = q.k /\ goes.by = q.by /\ goes.op = "approve"
      /\ stays.at = "node" /\ stays.row = new /\ stays.moves = q.moves
      /\ stays.inst = q.inst /\ stays.k = q.k /\ stays.by = q.by /\ stays.op = "approve"
  BY <1>1 DEF Request
<1> HIDE DEF goes, stays, moved, signed, new
<1>8. ASSUME IsNodeApproved(new)
      PROVE  Turn(goes)
  <2>1. IsNodeApproved(goes.row)
    BY <1>4, <1>7, <1>8
  <2>2. Edited(goes, old)
    BY <1>4, <1>5, <1>7, <2>1 DEF Edited
  <2>3. Moves(goes)
    BY <1>6, <1>7 DEF Moves
  <2> QED
    BY <1>2, <1>5, <1>7, <2>2, <2>3 DEF Turn, HasVoted
<1>9. Turn(stays)
  <2>1. ~stays.moves
    BY <1>1, <1>7 DEF HasRead
  <2>2. Edited(stays, old)
    BY <1>4, <1>5, <1>7, <2>1 DEF Edited
  <2> QED
    BY <1>2, <1>5, <1>7, <2>1, <2>2 DEF Turn, HasVoted
<1> QED
  BY <1>3, <1>8, <1>9, NoRowChanged

LEMMA RejectInOrder ==
    ASSUME OneAtATime, TypeOK, InOrder, NEW r \in Requests, Reject(r)
    PROVE  InOrder'
<1>1. PICK q \in Request : q = req[r] /\ q.op = "reject" /\ HasRead(q) /\ MayGoOn(q)
                           /\ q.at = "nodes"
  BY DEF Reject, InOrder, Turn, TypeOK
<1>2. PICK old \in NodeRow : old = nodes[q.inst][q.k]
  BY <1>1, ReadRow
<1> DEFINE new == [old EXCEPT !.rejections = @ \cup {q.by}, !.status = "rejected"]
           refused == [q.snap EXCEPT !.status = "rejected"]
           next == [q EXCEPT !.at = "node", !.moves = TRUE, !.by = "none",
                             !.row = new, !.snap = refused]
<1>3. req' = [req EXCEPT ![r] = next] /\ UNCHANGED <<instance, nodes>>
  BY <1>1, <1>2 DEF Reject, data
<1>4. /\ new.mode = old.mode /\ new.candidates = old.candidates
      /\ new.approvals = old.approvals
  BY DEF NodeRow
<1>5. /\ old.candidates # {} /\ q.k <= Len(nodes[q.inst]) /\ At(q.inst, q.k)
      /\ refused.status = "rejected"
  BY <1>1, <1>2, ReadRow DEF HasRead, InstanceRow
<1>6. /\ next.at = "node" /\ next.moves = TRUE /\ next.row = new /\ next.snap = refused
      /\ next.inst = q.inst /\ next.k = q.k /\ next.op = "reject"
  BY <1>1 DEF Request
<1> HIDE DEF next, refused, new
<1>7. Edited(next, old) /\ Moves(next)
  BY <1>4, <1>5, <1>6 DEF Edited, Moves
<1>8. Turn(next)
  BY <1>2, <1>5, <1>6, <1>7 DEF Turn, HasVoted
<1> QED
  BY <1>3, <1>8, NoRowChanged

LEMMA InviteInOrder ==
    ASSUME OneAtATime, TypeOK, InOrder, NEW r \in Requests, Invite(r)
    PROVE  InOrder'
<1>1. PICK q \in Request : q = req[r] /\ q.op = "invite" /\ HasRead(q) /\ MayGoOn(q)
                           /\ q.at = "nodes"
  BY DEF Invite, InOrder, Turn, TypeOK
<1>2. PICK old \in NodeRow : old = nodes[q.inst][q.k]
  BY <1>1, ReadRow
<1> DEFINE new == [old EXCEPT !.candidates = @ \cup q.named,
                              !.listed = @ + Cardinality(q.named \ old.candidates)]
           next == [q EXCEPT !.at = "node", !.by = "none", !.named = {}, !.row = new,
                             !.snap = NoInstance]
<1>3. req' = [req EXCEPT ![r] = next] /\ UNCHANGED <<instance, nodes>>
  BY <1>1, <1>2 DEF Invite, data
<1>4. /\ new.mode = old.mode /\ new.candidates = old.candidates \cup q.named
      /\ new.approvals = old.approvals
  BY DEF NodeRow
<1>5. q.k <= Len(nodes[q.inst]) /\ At(q.inst, q.k) /\ ~q.moves
  BY <1>1, <1>2, ReadRow DEF HasRead
<1>6. /\ next.at = "node" /\ next.moves = q.moves /\ next.row = new
      /\ next.inst = q.inst /\ next.k = q.k /\ next.op = "invite"
  BY <1>1 DEF Request
<1> HIDE DEF next, new
<1>7. ~next.moves
  BY <1>5, <1>6
<1>8. Edited(next, old)
  BY <1>4, <1>6, <1>7 DEF Edited
<1>9. Turn(next)
  BY <1>2, <1>5, <1>6, <1>7, <1>8 DEF Turn, HasVoted
<1> QED
  BY <1>3, <1>9, NoRowChanged

-----------------------------------------------------------------------------
(* Saves.                                                                  *)

(* A row that counts as approved is signed by all it waits for.            *)
LEMMA ApprovedIsSigned ==
    ASSUME NEW row \in NodeRow, row.approvals \subseteq row.candidates,
           row.count = Cardinality(row.approvals), Listed(row), IsNodeApproved(row)
    PROVE  Signed(row)
  BY AllSigned DEF Signed

(* node_exec.save() replaces the row in turn.                              *)
LEMMA SaveNodeInOrder ==
    ASSUME OneAtATime, IInv, InOrder, NEW r \in Requests, SaveNode(r)
    PROVE  InOrder'
<1>1. PICK q \in Request : q = req[r] /\ q.at = "node" /\ HasVoted(q) /\ AtNode(q)
  BY DEF SaveNode, InOrder, Turn, IInv, TypeOK, InFlight, Flight
<1> DEFINE next == IF q.moves THEN [Idle EXCEPT !.at = "inst", !.inst = q.inst, !.snap = q.snap]
                              ELSE Idle
<1>2. PICK i \in Instances : i = q.inst /\ Open(i)
  BY <1>1 DEF HasVoted, At
<1>3. PICK k \in 1 .. Len(nodes[i]) : k = q.k /\ k = instance[i].index + 1
  BY <1>1, <1>2 DEF HasVoted, At, AtNode
<1>4. /\ nodes' = [nodes EXCEPT ![i] = [@ EXCEPT ![k] = q.row]]
      /\ req' = [req EXCEPT ![r] = next] /\ UNCHANGED instance
  BY <1>1, <1>2, <1>3 DEF SaveNode, Finish
<1>5. /\ nodes[i] \in Seq(NodeRow) /\ instance[i] \in InstanceRow /\ q.row \in NodeRow
      /\ nodes[i][k] \in NodeRow /\ Len(nodes[i]) \in Nat
  BY DEF IInv, TypeOK, Request
<1>6. /\ Len(nodes'[i]) = Len(nodes[i]) /\ nodes'[i][k] = q.row /\ nodes'[i] # <<>>
      /\ \A j \in 1 .. Len(nodes[i]) : j # k => nodes'[i][j] = nodes[i][j]
      /\ \A x \in Instances : x # i => nodes'[x] = nodes[x]
  BY <1>4, <1>5 DEF IInv, TypeOK
<1>7. \A x \in Instances : RowInOrder(x)'
  <2> SUFFICES ASSUME NEW x \in Instances
               PROVE  RowInOrder(x)'
    OBVIOUS
  <2>1. CASE x # i
    BY <1>4, <1>6, <2>1 DEF InOrder, RowInOrder, Open
  <2>2. CASE x = i
    <3>1. RowInOrder(i) /\ instance[i].index \in Nat /\ nodes[i] # <<>>
      BY <1>3, <1>5 DEF InOrder, InstanceRow
    <3>1a. /\ \A j \in 1 .. instance[i].index : Signed(nodes[i][j])
           /\ \A j \in instance[i].index + 2 .. Len(nodes[i]) : Untouched(nodes[i][j])
      BY <1>2, <3>1 DEF RowInOrder
    <3>2. \A j \in 1 .. instance[i].index : Signed(nodes'[i][j])
      BY <1>3, <1>5, <1>6, <3>1, <3>1a, SMTT(30)
    <3>3. \A j \in instance[i].index + 2 .. Len(nodes[i]) : Untouched(nodes'[i][j])
      BY <1>3, <1>5, <1>6, <3>1, <3>1a, SMTT(30)
    <3>4. instance[i].index < Len(nodes[i]) /\ instance[i].status # "none"
      BY <1>2, <3>1 DEF RowInOrder, Open
    <3> QED
      BY <1>4, <1>6, <2>2, <3>2, <3>3, <3>4 DEF RowInOrder, Signed, Untouched
  <2> QED
    BY <2>1, <2>2
<1>8. Turn(next)'
  <2>1. CASE q.moves
    <3>1. next.at = "inst" /\ next.inst = i /\ next.snap = q.snap
      BY <1>2, <2>1 DEF Idle
    <3>2. Moves(q) /\ Edited(q, nodes[i][k])
      BY <1>1, <1>2, <1>3, <2>1 DEF HasVoted
    <3>3. ASSUME q.op = "approve"
          PROVE  Signed(q.row)
      <4>1. IsNodeApproved(q.row)
        BY <2>1, <3>2, <3>3 DEF Edited
      <4>2. Sound(q.inst, q.k, q.row, Own(q))
        BY <1>1 DEF AtNode
      <4> QED
        BY <1>5, <4>1, <4>2, ApprovedIsSigned DEF Sound
    <3>4. CASE q.op = "reject" /\ q.snap.status = "rejected"
      <4>1. q.row.candidates # {}
        BY <3>2, <3>4 DEF Edited
      <4> HIDE DEF next
      <4> QED
        BY <1>2, <1>3, <1>4, <1>6, <3>1, <3>4, <4>1 DEF Turn, Decides, Open
    <3>5. CASE q.op = "approve" /\ q.snap.status = "approved" /\ k = Len(nodes[i])
      <4>1. \A j \in 1 .. Len(nodes[i]) : Signed(nodes'[i][j])
        <5>1. instance[i].index \in Nat /\ RowInOrder(i)
          BY <1>5 DEF InstanceRow, InOrder
        <5>2. \A j \in 1 .. instance[i].index : Signed(nodes[i][j])
          BY <1>2, <5>1 DEF RowInOrder
        <5>3. \A j \in 1 .. Len(nodes[i]) : j # k => j \in 1 .. instance[i].index
          BY <1>3, <1>5, <3>5, <5>1
        <5> QED
          BY <1>6, <3>3, <3>5, <5>2, <5>3
      <4> HIDE DEF next
      <4> QED
        BY <1>2, <1>4, <1>6, <3>1, <3>5, <4>1 DEF Turn, Decides, Open, Signed
    <3>6. CASE /\ q.op = "approve" /\ q.snap.status = "pending"
               /\ q.snap.index = k /\ k < Len(nodes[i])
      <4> HIDE DEF next
      <4>1. Signed(nodes'[i][k]) /\ k < Len(nodes'[i]) /\ instance' = instance
        BY <1>4, <1>6, <3>3, <3>6
      <4>2. Decides(next)'
        BY <1>2, <1>3, <3>1, <3>6, <4>1 DEF Decides, Open, Signed
      <4> QED
        BY <3>1, <4>2 DEF Turn
    <3> QED
      BY <1>2, <1>3, <3>2, <3>4, <3>5, <3>6 DEF Moves
  <2>2. CASE ~q.moves
    BY <2>2, Rows DEF Turn
  <2> QED
    BY <2>1, <2>2
<1> HIDE DEF next
<1> QED
  BY <1>4, <1>7, <1>8, OnlyRequest DEF InOrder, IInv

(* instance.save(): the next node is in turn, or the instance is decided.  *)
LEMMA SaveInstanceInOrder ==
    ASSUME OneAtATime, IInv, InOrder, NEW r \in Requests, SaveInstance(r)
    PROVE  InOrder'
<1>1. PICK q \in Request : q = req[r] /\ q.at = "inst" /\ Decides(q)
  BY DEF SaveInstance, InOrder, Turn, IInv, TypeOK
<1> DEFINE next == IF q.snap.status \in {"approved", "cancelled"}
                   THEN [Idle EXCEPT !.at = "object", !.snap.status = q.snap.status] ELSE Idle
<1>2. PICK i \in Instances : i = q.inst /\ Open(i)
  BY <1>1 DEF Decides
<1>3. /\ instance' = [instance EXCEPT ![i] = q.snap]
      /\ req' = [req EXCEPT ![r] = next] /\ UNCHANGED nodes
  BY <1>1, <1>2 DEF SaveInstance, Finish
<1>4. /\ instance[i] \in InstanceRow /\ instance[i].index \in Nat
      /\ Len(nodes[i]) \in Nat /\ RowInOrder(i)
      /\ \A x \in Instances : instance'[x] = IF x = i THEN q.snap ELSE instance[x]
  BY <1>3 DEF IInv, TypeOK, InstanceRow, InOrder
<1>5. next.at \in {"idle", "object"}
  BY DEF Idle
<1>6. \A x \in Instances : RowInOrder(x)'
  <2> SUFFICES ASSUME NEW x \in Instances
               PROVE  RowInOrder(x)'
    OBVIOUS
  <2>1. CASE x # i
    BY <1>3, <1>4, <2>1 DEF InOrder, RowInOrder, Open
  <2>2. CASE x = i /\ q.snap.status # "pending"
    BY <1>1, <1>3, <1>4, <2>2 DEF Decides, RowInOrder, Open
  <2>3. CASE x = i /\ q.snap.status = "pending"
    <3>1. PICK k \in Nat : k = instance[i].index + 1
      BY <1>4
    <3>2. q.snap.index = k /\ k < Len(nodes[i]) /\ Signed(nodes[i][k])
      BY <1>1, <1>2, <2>3, <3>1 DEF Decides
    <3>2a. \A j \in 1 .. instance[i].index : Signed(nodes[i][j])
      BY <1>2, <1>4 DEF RowInOrder
    <3>3. \A j \in 1 .. k : Signed(nodes[i][j])
      BY <1>4, <3>1, <3>2, <3>2a
    <3>3a. \A j \in instance[i].index + 2 .. Len(nodes[i]) : Untouched(nodes[i][j])
      BY <1>2, <1>4 DEF RowInOrder
    <3>4. \A j \in k + 2 .. Len(nodes[i]) : Untouched(nodes[i][j])
      BY <1>4, <3>1, <3>2, <3>3a, SMTT(30)
    <3>5. nodes[i] # <<>>
      BY <3>2
    <3> QED
      BY <1>3, <1>4, <2>3, <3>2, <3>3, <3>4, <3>5 DEF RowInOrder, Open, Signed, Untouched
  <2> QED
    BY <2>1, <2>2, <2>3
<1> HIDE DEF next
<1>7. Turn(next)'
  BY <1>5 DEF Turn
<1> QED
  BY <1>3, <1>6, <1>7, OnlyRequest DEF InOrder, IInv

LEMMA CreateInstanceInOrder ==
    ASSUME OneAtATime, IInv, InOrder, NEW r \in Requests, CreateInstance(r)
    PROVE  InOrder'
<1>1. PICK q \in Request : q = req[r] /\ q.at = "create"
  BY DEF CreateInstance, IInv, TypeOK
<1>2. PICK i \in Instances : /\ i = CHOOSE x \in Instances : instance[x].status = "none"
                             /\ instance[i].status = "none"
  BY DEF CreateInstance
<1> DEFINE next == [q EXCEPT !.at = IF q.plan = <<>> THEN "last" ELSE "insert",
                             !.inst = i, !.starts = FALSE]
<1>3. /\ instance' = [instance EXCEPT ![i] = NewInstance(q.by)]
      /\ req' = [req EXCEPT ![r] = next] /\ UNCHANGED nodes
  BY <1>1, <1>2 DEF CreateInstance
<1>4. /\ next.inst = i /\ next.at \in {"last", "insert"}
  BY DEF Request
<1>5. /\ nodes[i] = <<>> /\ Len(nodes[i]) = 0
      /\ \A x \in Instances : instance'[x] = IF x = i THEN NewInstance(q.by) ELSE instance[x]
  BY <1>2, <1>3 DEF InOrder, RowInOrder, IInv, TypeOK
<1>6. NewInstance(q.by).status = "pending" /\ NewInstance(q.by).index = 0
  BY DEF NewInstance
<1> HIDE DEF next
<1>7. \A x \in Instances : RowInOrder(x)'
  BY <1>3, <1>5, <1>6 DEF InOrder, RowInOrder, Open
<1>8. Turn(next)'
  BY <1>3, <1>4, <1>5, <1>6 DEF Turn, LaysDown, Open
<1> QED
  BY <1>3, <1>7, <1>8, OnlyRequest DEF InOrder, IInv

LEMMA NewRowUntouched ==
    ASSUME NEW plan \in Seq(Asked), plan # <<>>
    PROVE  NewRow(Head(plan)) \in NodeRow /\ Untouched(NewRow(Head(plan)))
<1>1. PICK a \in Asked : a = Head(plan)
  OBVIOUS
<1>2. NewRow(a) \in NodeRow /\ Untouched(NewRow(a))
  BY DEF NewRow, NodeRow, Asked, Untouched
<1> QED
  BY <1>1, <1>2

LEMMA InsertNodeInOrder ==
    ASSUME OneAtATime, IInv, InOrder, NEW r \in Requests, InsertNode(r)
    PROVE  InOrder'
<1>1. PICK q \in Request : /\ q = req[r] /\ q.at = "insert" /\ LaysDown(q)
                           /\ q.plan # <<>> /\ q.plan \in Seq(Asked)
  BY DEF InsertNode, InOrder, Turn, IInv, TypeOK, InFlight, Flight, Request
<1>2. PICK i \in Instances : i = q.inst /\ Open(i) /\ instance[i].index = 0
  BY <1>1 DEF LaysDown
<1>3. PICK new \in NodeRow : new = NewRow(Head(q.plan)) /\ Untouched(new)
  BY <1>1, NewRowUntouched
<1> DEFINE next == [q EXCEPT !.at = IF Len(q.plan) > 1 THEN "insert" ELSE "last",
                             !.plan = Tail(@)]
<1>4. /\ nodes' = [nodes EXCEPT ![i] = Append(@, new)]
      /\ req' = [req EXCEPT ![r] = next] /\ UNCHANGED instance
  BY <1>1, <1>2, <1>3 DEF InsertNode
<1>5. next.inst = i /\ next.at \in {"last", "insert"}
  BY <1>2 DEF Request
<1>6. /\ nodes[i] \in Seq(NodeRow) /\ nodes'[i] = Append(nodes[i], new)
      /\ \A x \in Instances : x # i => nodes'[x] = nodes[x]
  BY <1>4 DEF IInv, TypeOK
<1>7. Len(nodes'[i]) = Len(nodes[i]) + 1 /\ Len(nodes[i]) \in Nat /\ nodes'[i] # <<>>
  BY <1>6
<1>8. \A k \in 1 .. Len(nodes'[i]) : Untouched(nodes'[i][k])
  <2> SUFFICES ASSUME NEW k \in 1 .. Len(nodes'[i])
               PROVE  Untouched(nodes'[i][k])
    OBVIOUS
  <2>1. CASE k \in 1 .. Len(nodes[i])
    <3>1. nodes'[i][k] = nodes[i][k]
      BY <1>6, <2>1
    <3> QED
      BY <1>1, <1>2, <2>1, <3>1 DEF LaysDown
  <2>2. CASE k = Len(nodes[i]) + 1
    BY <1>3, <1>6, <2>2
  <2> QED
    BY <1>7, <2>1, <2>2
<1> HIDE DEF next
<1>9. \A x \in Instances : RowInOrder(x)'
  <2> SUFFICES ASSUME NEW x \in Instances
               PROVE  RowInOrder(x)'
    OBVIOUS
  <2>1. CASE x # i
    BY <1>4, <1>6, <2>1 DEF InOrder, RowInOrder, Open
  <2>2. CASE x = i
    BY <1>2, <1>4, <1>7, <1>8, <2>2, SMTT(30) DEF RowInOrder, Open, Untouched
  <2> QED
    BY <2>1, <2>2
<1>10. Turn(next)'
  BY <1>2, <1>4, <1>5, <1>8 DEF Turn, LaysDown, Open, Untouched
<1> QED
  BY <1>4, <1>9, <1>10, OnlyRequest DEF InOrder, IInv

-----------------------------------------------------------------------------
(* The views and the last writes hold no row.                              *)

(* A step after which the request holds no row and no row has changed; it  *)
(* drops a decision half saved only by dying.                              *)
Aside(r) ==
    /\ UNCHANGED <<instance, nodes>>
    /\ req'[r].at \in {"idle", "view", "create", "last", "object"}
    /\ faults' = 0 => faults = 0 /\ req[r].at # "inst"

LEMMA AsideInOrder ==
    ASSUME OneAtATime, TypeOK, InOrder, NEW r \in Requests, Aside(r)
    PROVE  InOrder'
<1>1. \A x \in Requests : Turn(req[x])'
  BY DEF OneAtATime, Aside, Turn
<1>2. \A i \in Instances : RowInOrder(i)'
  BY DEF Aside, InOrder, RowInOrder, Open
<1> QED
  BY <1>1, <1>2 DEF InOrder

LEMMA PreparedAside ==
    /\ Idle.at = "idle"
    /\ \A s : Change(s).at = "view"
    /\ \A u, o, writes : Submission(u, o, writes).at \in {"view", "create"}
    /\ \A u : Enable(u).at \in {"view", "create"}
<1>1. Idle.at = "idle" /\ \A s : Change(s).at = "view"
  BY DEF Idle, Change
<1>2. \A u, o, writes : Submission(u, o, writes).at \in {"view", "create"}
  BY DEF Idle, Submission
<1> QED
  BY <1>1, <1>2 DEF Enable

LEMMA ServeAside ==
    ASSUME TypeOK, NEW r \in Requests, NEW q, Serve(r, q), q.at \in {"view", "create"}
    PROVE  Aside(r)
  BY DEF Serve, Aside, data, TypeOK

LEMMA ViewsAside ==
    ASSUME IInv, NEW r \in Requests, NEW u \in Users, NEW o,
           \/ CreateObject(r, u)
           \/ ToggleScript(r, u) \/ Unarchive(r, u) \/ EditScript(r, u) \/ Rollback(r, u)
           \/ EditWorkflow(r, u) \/ SubmitApprove(r, u)
           \/ CentreSubmit(r, u) \/ ExecuteAsks(r, u) \/ Publish(r, u, o)
    PROVE  Aside(r)
<1> USE DEF IInv
<1>1. CASE CreateObject(r, u)
  BY <1>1, PreparedAside DEF CreateObject, Aside, TypeOK
<1>2. CASE ToggleScript(r, u)
  BY <1>2, PreparedAside, ServeAside DEF ToggleScript
<1>3. CASE Unarchive(r, u)
  BY <1>3, PreparedAside, ServeAside DEF Unarchive
<1>4. CASE EditScript(r, u)
  BY <1>4, PreparedAside, ServeAside DEF EditScript
<1>5. CASE Rollback(r, u)
  BY <1>5, PreparedAside, ServeAside DEF Rollback
<1>6. CASE EditWorkflow(r, u)
  BY <1>6, PreparedAside, ServeAside DEF EditWorkflow
<1>7. CASE SubmitApprove(r, u)
  <2>1. target \in Targets /\ <<>> \in Seq(ObjectStatuses) /\ NoOverride \in Overrides \cup {NoOverride}
    BY DEF IInv, TypeOK
  <2>2. PICK q \in Request : q = Submission(u, NoOverride, <<>>) /\ q.at \in {"view", "create"}
    BY <2>1, PreparedAside, SubmissionOk DEF Prepared
  <2> DEFINE twice == [q EXCEPT !.again = TRUE]
             after == [q EXCEPT !.writes = Append(@, "pending")]
  <2>3. Serve(r, twice) \/ Serve(r, after)
    BY <1>7, <2>2 DEF SubmitApprove
  <2>4. twice.at = q.at /\ after.at = q.at
    BY DEF Request
  <2> HIDE DEF twice, after
  <2> QED
    BY <2>2, <2>3, <2>4, ServeAside
<1>8. CASE CentreSubmit(r, u)
  BY <1>8, PreparedAside, ServeAside DEF CentreSubmit
<1>9. CASE ExecuteAsks(r, u)
  BY <1>9, PreparedAside, ServeAside DEF ExecuteAsks
<1>10. CASE Publish(r, u, o)
  BY <1>10, PreparedAside, ServeAside DEF Publish
<1> QED
  BY <1>1, <1>2, <1>3, <1>4, <1>5, <1>6, <1>7, <1>8, <1>9, <1>10

LEMMA PlainViewsAside ==
    ASSUME IInv, NEW r \in Requests,
           Archive(r) \/ ApproveSingle(r) \/ EditObject(r) \/ ToggleWorkflow(r)
    PROVE  Aside(r)
<1>1. ASSUME NEW s, Overrule(r, s)
      PROVE  Aside(r)
  BY <1>1, PreparedAside DEF Overrule, Aside, IInv, TypeOK
<1> QED
  BY <1>1, PreparedAside, ServeAside
     DEF Archive, ApproveSingle, EditObject, ToggleWorkflow, IInv

LEMMA WritesAside ==
    ASSUME IInv, NEW r \in Requests,
           \/ WriteObject(r) \/ WritePending(r) \/ SaveObject(r) \/ Raise(r) \/ Die(r)
    PROVE  Aside(r)
<1>1. PICK q \in Request : q = req[r]
  BY DEF IInv, TypeOK
<1>2. CASE SaveObject(r) \/ Raise(r) \/ Die(r)
  BY <1>2, Rows DEF SaveObject, Raise, Die, Finish, Aside, data, IInv, TypeOK
<1>3. CASE WriteObject(r)
  <2> DEFINE more == [q EXCEPT !.writes = Tail(@)]
             done == [q EXCEPT !.at = "create", !.writes = <<>>]
  <2>1. /\ q.at = "view" /\ UNCHANGED <<instance, nodes, faults>>
        /\ req' = [req EXCEPT ![r] = IF Len(q.writes) > 1 THEN more
                                     ELSE IF q.starts THEN done ELSE Idle]
    BY <1>1, <1>3 DEF WriteObject
  <2>2. more.at = "view" /\ done.at = "create"
    BY <2>1 DEF Request
  <2> HIDE DEF more, done
  <2> QED
    BY <1>1, <2>1, <2>2, Rows DEF Aside, IInv, TypeOK
<1>4. CASE WritePending(r)
  <2> DEFINE once == [q EXCEPT !.again = FALSE]
  <2>1. /\ q.at = "last" /\ UNCHANGED <<instance, nodes, faults>>
        /\ req' = [req EXCEPT ![r] = IF q.again THEN once ELSE Idle]
    BY <1>1, <1>4 DEF WritePending, IInv, TypeOK
  <2>2. once.at = "last"
    BY <2>1 DEF Request
  <2> HIDE DEF once
  <2> QED
    BY <1>1, <2>1, <2>2, Rows DEF Aside, IInv, TypeOK
<1> QED
  BY <1>2, <1>3, <1>4

(* Every step is one of these.                                             *)
Asks(r) ==
    \E u \in Users, i \in Instances :
        \/ \E op \in {"approve", "reject", "invite"}, named \in SUBSET Users :
              Arrive(r, op, u, named, i)
        \/ AskCancel(r, u, i)

LEMMA StepKinds ==
    ASSUME IInv, Next
    PROVE  \E r \in Requests :
              \/ Asks(r) \/ Approve(r) \/ Reject(r) \/ Invite(r) \/ Aside(r)
              \/ SaveNode(r) \/ SaveInstance(r) \/ CreateInstance(r) \/ InsertNode(r)
<1>1. PICK r \in Requests : EngineStep(r) \/ ViewStep(r) \/ Die(r)
  BY DEF Next
<1>2. CASE EngineStep(r)
  <2>1. CASE \E u \in Users, i \in Instances :
                \/ AskApprove(r, u, i) \/ AskReject(r, u, i) \/ AskCancel(r, u, i)
                \/ \E v \in Users : AskDelegate(r, u, i, v)
                \/ \E vs \in SUBSET Users : AskAddSign(r, u, i, vs)
    BY <2>1 DEF AskApprove, AskReject, AskDelegate, AskAddSign, Asks
  <2> QED
    BY <1>2, <2>1, WritesAside DEF EngineStep
<1>3. CASE ViewStep(r)
  <2>1. CASE \E u \in Users :
                \/ CreateObject(r, u)
                \/ ToggleScript(r, u) \/ Unarchive(r, u) \/ EditScript(r, u) \/ Rollback(r, u)
                \/ EditWorkflow(r, u) \/ SubmitApprove(r, u)
                \/ CentreSubmit(r, u) \/ ExecuteAsks(r, u)
                \/ \E o \in Overrides \cup {NoOverride} : Publish(r, u, o)
    BY <2>1, ViewsAside
  <2> QED
    BY <1>3, <2>1, PlainViewsAside, WritesAside DEF ViewStep
<1> QED
  BY <1>1, <1>2, <1>3, WritesAside

(* One request at a time, the nodes of every approval stay in order and    *)
(* the request at work writes what it has read.                            *)
THEOREM OrderKept ==
    ASSUME OneAtATime
    PROVE  Spec => []InOrder
<1>1. Init => InOrder
  BY Rows, PreparedAside DEF Init, InOrder, RowInOrder, Turn, Open
<1>2. ASSUME IInv, InOrder, [Next]_vars
      PROVE  InOrder'
  <2>1. CASE Next
    <3>1. PICK r \in Requests :
              \/ Asks(r) \/ Approve(r) \/ Reject(r) \/ Invite(r) \/ Aside(r)
              \/ SaveNode(r) \/ SaveInstance(r) \/ CreateInstance(r) \/ InsertNode(r)
      BY <1>2, <2>1, StepKinds
    <3>2. CASE Asks(r)
      BY <1>2, <3>2, ArriveInOrder, AskCancelInOrder DEF Asks, IInv
    <3>3. CASE Approve(r) \/ Reject(r) \/ Invite(r) \/ Aside(r)
      BY <1>2, <3>3, ApproveInOrder, RejectInOrder, InviteInOrder, AsideInOrder DEF IInv
    <3> QED
      BY <1>2, <3>1, <3>2, <3>3, SaveNodeInOrder, SaveInstanceInOrder,
         CreateInstanceInOrder, InsertNodeInOrder
  <2>2. CASE UNCHANGED vars
    <3>1. UNCHANGED <<instance, nodes, req>>
      BY <2>2 DEF vars
    <3>2. ASSUME NEW x \in Requests
          PROVE  Turn(req[x])'
      <4>1. Turn(req[x])
        BY <1>2 DEF InOrder
      <4> QED
        BY <3>1, <4>1 DEF Turn, HasRead, HasVoted, Decides, LaysDown, At, Edited, Moves, Open
    <3>3. \A i \in Instances : RowInOrder(i)'
      BY <1>2, <3>1 DEF InOrder, RowInOrder, Open
    <3> QED
      BY <3>2, <3>3 DEF InOrder
  <2> QED
    BY <1>2, <2>1, <2>2
<1> QED
  BY <1>1, <1>2, Invariance, PTL DEF Spec

-----------------------------------------------------------------------------
(* An open approval waits for a vote.                                      *)

(* A node that neither approve nor reject has finished with.               *)
Unsettled(row) == ~IsNodeApproved(row) /\ row.rejections = {}

AwaitsVote(i) ==
    Open(i) /\ nodes[i] # <<>> =>
        \/ Unsettled(InTurn(i))
        \/ \E r \in Requests : req[r].at = "inst" /\ req[r].inst = i

SavesUnsettled(q) == q.at = "node" /\ ~q.moves => Unsettled(q.row)

(* While no request has died, the node in turn is settled only between the *)
(* save of the node and the save of the instance.                          *)
Awaiting ==
    faults = 0 =>
        /\ \A i \in Instances : AwaitsVote(i)
        /\ \A r \in Requests : SavesUnsettled(req[r])

LEMMA UntouchedIsUnsettled ==
    ASSUME NEW row \in NodeRow, Untouched(row)
    PROVE  Unsettled(row)
  BY DEF Unsettled, Untouched, IsNodeApproved, NodeRow

(* Reading, voting and the steps aside leave the tables alone.             *)
LEMMA TablesStill ==
    ASSUME OneAtATime, TypeOK, Awaiting, NEW r \in Requests, UNCHANGED <<instance, nodes>>,
           faults' = 0 => faults = 0 /\ req[r].at # "inst" /\ SavesUnsettled(req[r])'
    PROVE  Awaiting'
<1> SUFFICES ASSUME faults' = 0
             PROVE  /\ \A i \in Instances : AwaitsVote(i)'
                    /\ \A x \in Requests : SavesUnsettled(req[x])'
  BY DEF Awaiting
<1>1. \A x \in Requests : x = r
  BY DEF OneAtATime
<1>2. \A x \in Requests : SavesUnsettled(req[x])'
  BY <1>1
<1>3. ASSUME NEW i \in Instances
      PROVE  AwaitsVote(i)'
  <2>1. AwaitsVote(i) /\ \A x \in Requests : req[x].at # "inst"
    BY <1>1 DEF Awaiting
  <2> QED
    BY <2>1 DEF AwaitsVote, Open, InTurn, Unsettled
<1> QED
  BY <1>2, <1>3

LEMMA VotingAwaits ==
    ASSUME OneAtATime, IInv, InOrder, Awaiting, NEW r \in Requests,
           Approve(r) \/ Reject(r) \/ Invite(r)
    PROVE  Awaiting'
<1>1. PICK q \in Request : q = req[r] /\ HasRead(q) /\ MayGoOn(q) /\ q.at = "nodes"
  BY DEF Approve, Reject, Invite, InOrder, Turn, IInv, TypeOK
<1>2. PICK old \in NodeRow : old = nodes[q.inst][q.k] /\ Sound(q.inst, q.k, old, {})
  BY <1>1, ReadRow DEF IInv, NodeRows
<1>3. UNCHANGED <<instance, nodes, faults>>
  BY DEF Approve, Reject, Invite, data
<1>4. ASSUME faults = 0
      PROVE  Unsettled(old)
  <2>1. q.inst \in Instances /\ Open(q.inst) /\ nodes[q.inst] # <<>> /\ old = InTurn(q.inst)
    <3>1. q.inst \in Instances /\ Open(q.inst) /\ q.k = instance[q.inst].index + 1
      BY <1>1 DEF HasRead, At
    <3>2. q.k \in 1 .. Len(nodes[q.inst]) /\ Len(nodes[q.inst]) \in Nat
      BY <1>1, ReadRow DEF IInv
    <3>3. nodes[q.inst] # <<>>
      BY <3>2
    <3> QED
      BY <1>2, <3>1, <3>3 DEF InTurn
  <2>2. \A x \in Requests : req[x].at # "inst"
    BY <1>1 DEF OneAtATime
  <2> QED
    BY <1>4, <2>1, <2>2 DEF Awaiting, AwaitsVote
<1>5. ASSUME faults = 0
      PROVE  SavesUnsettled(req[r])'
  <2>1. CASE Approve(r)
    <3> DEFINE new == [old EXCEPT !.approvals = @ \cup {q.by}, !.count = @ + 1]
    <3>1. req'[r].moves \/ (req'[r].row = new /\ ~IsNodeApproved(new))
      BY <1>1, <1>2, <2>1 DEF Approve, IInv, TypeOK, Request
    <3>2. new.rejections = old.rejections
      BY DEF NodeRow
    <3> HIDE DEF new
    <3> QED
      BY <1>4, <1>5, <3>1, <3>2 DEF SavesUnsettled, Unsettled
  <2>2. CASE Reject(r)
    <3>1. req'[r].moves
      BY <1>1, <1>2, <2>2 DEF Reject, IInv, TypeOK, Request
    <3> QED
      BY <3>1 DEF SavesUnsettled
  <2>3. CASE Invite(r)
    <3> DEFINE more == Cardinality(q.named \ old.candidates)
               new == [old EXCEPT !.candidates = @ \cup q.named, !.listed = @ + more]
    <3>1. req'[r].row = new
      BY <1>1, <1>2, <2>3 DEF Invite, IInv, TypeOK, Request
    <3>2. more \in Nat /\ Cardinality(old.candidates) \in Nat /\ Cardinality(old.approvals) \in Nat
          /\ Cardinality(old.approvals) <= Cardinality(old.candidates)
      <4>1. q.named \ old.candidates \in SUBSET Users /\ old.candidates \in SUBSET Users
            /\ old.approvals \subseteq old.candidates /\ old.approvals \in SUBSET Users
        BY <1>2 DEF Request, NodeRow, Sound
      <4> QED
        BY <4>1, Finite, FS_Subset
    <3> HIDE DEF more
    <3>3. /\ new.mode = old.mode /\ new.count = old.count /\ new.rejections = old.rejections
          /\ new.listed = old.listed + more /\ old.listed \in Nat
      BY DEF NodeRow
    <3> HIDE DEF new
    <3>4. ~IsNodeApproved(new)
      <4>1. old.count = Cardinality(old.approvals) /\ Cardinality(old.candidates) <= old.listed
        BY <1>2 DEF Sound, Listed
      <4>2. ~IsNodeApproved(old)
        BY <1>4, <1>5 DEF Unsettled
      <4> QED
        BY <3>2, <3>3, <4>1, <4>2 DEF IsNodeApproved
    <3> QED
      BY <1>4, <1>5, <3>1, <3>3, <3>4 DEF SavesUnsettled, Unsettled
  <2> QED
    BY <2>1, <2>2, <2>3
<1> QED
  BY <1>1, <1>3, <1>5, TablesStill DEF IInv

LEMMA SaveNodeAwaits ==
    ASSUME OneAtATime, IInv, InOrder, Awaiting, NEW r \in Requests, SaveNode(r)
    PROVE  Awaiting'
<1>1. PICK q \in Request : q = req[r] /\ q.at = "node" /\ HasVoted(q) /\ AtNode(q)
  BY DEF SaveNode, InOrder, Turn, IInv, TypeOK, InFlight, Flight
<1> SUFFICES ASSUME faults = 0
             PROVE  /\ \A i \in Instances : AwaitsVote(i)'
                    /\ \A x \in Requests : SavesUnsettled(req[x])'
  BY DEF Awaiting, SaveNode
<1>2. PICK i \in Instances : i = q.inst /\ Open(i)
  BY <1>1 DEF HasVoted, At
<1>3. PICK k \in 1 .. Len(nodes[i]) : k = q.k /\ k = instance[i].index + 1
  BY <1>1, <1>2 DEF HasVoted, At, AtNode
<1>4. /\ nodes' = [nodes EXCEPT ![i] = [@ EXCEPT ![k] = q.row]] /\ UNCHANGED instance
      /\ q.moves => req'[r].at = "inst" /\ req'[r].inst = i
      /\ ~q.moves => req'[r].at = "idle"
  <2>1. nodes' = [nodes EXCEPT ![i] = [@ EXCEPT ![k] = q.row]] /\ UNCHANGED instance
    BY <1>1, <1>2, <1>3 DEF SaveNode
  <2>2. ASSUME q.moves
        PROVE  req'[r].at = "inst" /\ req'[r].inst = i
    <3> DEFINE next == [Idle EXCEPT !.at = "inst", !.inst = i, !.snap = q.snap]
    <3>1. req' = [req EXCEPT ![r] = next]
      BY <1>1, <1>2, <2>2 DEF SaveNode
    <3>2. next.at = "inst" /\ next.inst = i
      BY DEF Idle
    <3> HIDE DEF next
    <3> QED
      BY <3>1, <3>2 DEF IInv, TypeOK
  <2>3. ASSUME ~q.moves
        PROVE  req'[r].at = "idle"
    BY <1>1, <2>3 DEF SaveNode, Finish, Idle, IInv, TypeOK
  <2> QED
    BY <2>1, <2>2, <2>3
<1>5. nodes'[i][k] = q.row /\ \A x \in Instances : x # i => nodes'[x] = nodes[x]
  BY <1>4 DEF IInv, TypeOK
<1>6. \A x \in Requests : x = r
  BY DEF OneAtATime
<1>7. \A x \in Requests : SavesUnsettled(req[x])'
  <2>1. req'[r].at # "node"
    BY <1>4
  <2> QED
    BY <1>6, <2>1 DEF SavesUnsettled
<1>8. ASSUME NEW x \in Instances
      PROVE  AwaitsVote(x)'
  <2>1. CASE x # i
    <3>1. AwaitsVote(x) /\ \A y \in Requests : req[y].at # "inst"
      BY <1>1, <1>6 DEF Awaiting
    <3> QED
      BY <1>4, <1>5, <2>1, <3>1 DEF AwaitsVote, Open, InTurn, Unsettled
  <2>2. CASE x = i /\ q.moves
    BY <1>4, <2>2 DEF AwaitsVote
  <2>3. CASE x = i /\ ~q.moves
    <3>1. Unsettled(q.row)
      BY <1>1, <2>3 DEF Awaiting, SavesUnsettled
    <3> QED
      BY <1>3, <1>4, <1>5, <2>3, <3>1 DEF AwaitsVote, InTurn, Unsettled
  <2> QED
    BY <2>1, <2>2, <2>3
<1> QED
  BY <1>7, <1>8

LEMMA SaveInstanceAwaits ==
    ASSUME OneAtATime, IInv, InOrder, Awaiting, NEW r \in Requests, SaveInstance(r)
    PROVE  Awaiting'
<1>1. PICK q \in Request : q = req[r] /\ q.at = "inst" /\ Decides(q)
  BY DEF SaveInstance, InOrder, Turn, IInv, TypeOK
<1> SUFFICES ASSUME faults = 0
             PROVE  /\ \A i \in Instances : AwaitsVote(i)'
                    /\ \A x \in Requests : SavesUnsettled(req[x])'
  BY DEF Awaiting, SaveInstance
<1>2. PICK i \in Instances : i = q.inst /\ Open(i)
  BY <1>1 DEF Decides
<1>3. /\ instance' = [instance EXCEPT ![i] = q.snap] /\ UNCHANGED nodes
      /\ req'[r].at \in {"idle", "object"}
  BY <1>1, <1>2, Rows, ZenonT(60) DEF SaveInstance, Finish, Idle, IInv, TypeOK
<1>4. \A x \in Instances : instance'[x] = IF x = i THEN q.snap ELSE instance[x]
  BY <1>3 DEF IInv, TypeOK
<1>5. \A x \in Requests : x = r
  BY DEF OneAtATime
<1>6. \A x \in Requests : SavesUnsettled(req[x])'
  BY <1>3, <1>5 DEF SavesUnsettled
<1>7. ASSUME NEW x \in Instances
      PROVE  AwaitsVote(x)'
  <2>1. CASE x # i
    <3>1. AwaitsVote(x) /\ \A y \in Requests : req[y].at = "inst" => req[y].inst # x
      BY <1>1, <1>2, <1>5, <2>1 DEF Awaiting
    <3> QED
      BY <1>3, <1>4, <2>1, <3>1 DEF AwaitsVote, Open, InTurn, Unsettled
  <2>2. CASE x = i /\ q.snap.status # "pending"
    BY <1>4, <2>2 DEF AwaitsVote, Open
  <2>3. CASE x = i /\ q.snap.status = "pending"
    <3>1. /\ instance[i].index \in Nat /\ nodes[i] \in Seq(NodeRow) /\ RowInOrder(i)
          /\ q.snap.index = instance[i].index + 1 /\ q.snap.index < Len(nodes[i])
      BY <1>1, <1>2, <2>3 DEF Decides, IInv, TypeOK, InstanceRow, InOrder
    <3>2. PICK row \in NodeRow : row = nodes[i][q.snap.index + 1] /\ Untouched(row)
      <4>1. PICK k \in Nat : k = q.snap.index + 1 /\ k = instance[i].index + 2
        BY <3>1
      <4>2. k \in 1 .. Len(nodes[i]) /\ k \in instance[i].index + 2 .. Len(nodes[i])
        BY <3>1, <4>1
      <4>3. nodes[i][k] \in NodeRow /\ Untouched(nodes[i][k])
        BY <1>2, <3>1, <4>2 DEF RowInOrder
      <4> QED
        BY <4>1, <4>3
    <3>3. Unsettled(row)
      BY <3>2, UntouchedIsUnsettled
    <3> QED
      BY <1>3, <1>4, <2>3, <3>2, <3>3 DEF AwaitsVote, InTurn, Unsettled
  <2> QED
    BY <2>1, <2>2, <2>3
<1> QED
  BY <1>6, <1>7

LEMMA NewApprovalAwaits ==
    ASSUME OneAtATime, IInv, InOrder, InOrder', IInv', Awaiting, NEW r \in Requests,
           CreateInstance(r) \/ InsertNode(r)
    PROVE  Awaiting'
<1>1. \A x \in Requests : x = r
  BY DEF OneAtATime
<1>2. faults' = faults /\ req'[r].at \in {"last", "insert"} /\ req[r].at \in {"create", "insert"}
  <2>1. req \in [Requests -> Request] /\ req[r] \in Request
    BY DEF IInv, TypeOK
  <2>2. CASE CreateInstance(r)
    BY <2>1, <2>2 DEF CreateInstance, Request
  <2>3. CASE InsertNode(r)
    BY <2>1, <2>3 DEF InsertNode, Request
  <2> QED
    BY <2>2, <2>3
<1> SUFFICES ASSUME faults = 0
             PROVE  /\ \A i \in Instances : AwaitsVote(i)'
                    /\ \A x \in Requests : SavesUnsettled(req[x])'
  BY <1>2 DEF Awaiting
<1>3. \A x \in Requests : SavesUnsettled(req[x])'
  BY <1>1, <1>2 DEF SavesUnsettled
<1>4. \A i \in Instances : AwaitsVote(i) /\ \A x \in Requests : req[x].at # "inst"
  BY <1>1, <1>2 DEF Awaiting
<1>5. CASE CreateInstance(r)
  <2>1. PICK new \in Instances : /\ new = CHOOSE x \in Instances : instance[x].status = "none"
                                 /\ instance[new].status = "none"
    BY <1>5 DEF CreateInstance
  <2>2. /\ nodes[new] = <<>> /\ UNCHANGED nodes
        /\ \A x \in Instances : x # new => instance'[x] = instance[x]
    BY <1>5, <2>1 DEF CreateInstance, InOrder, RowInOrder, IInv, TypeOK
  <2>3. \A i \in Instances : AwaitsVote(i)'
    BY <1>4, <2>2 DEF AwaitsVote, Open, InTurn, Unsettled
  <2> QED
    BY <1>3, <2>3
<1>6. CASE InsertNode(r)
  <2>1. PICK q \in Request : /\ q = req[r] /\ LaysDown(q)
                             /\ q.plan # <<>> /\ q.plan \in Seq(Asked)
    BY <1>6 DEF InsertNode, InOrder, Turn, IInv, TypeOK, InFlight, Flight, Request
  <2>2. PICK new \in Instances : new = q.inst /\ instance[new].index = 0
    BY <2>1 DEF LaysDown
  <2>3. PICK row \in NodeRow : row = NewRow(Head(q.plan)) /\ Untouched(row)
    BY <2>1, NewRowUntouched
  <2>4. /\ nodes' = [nodes EXCEPT ![new] = Append(@, row)] /\ UNCHANGED instance
    BY <1>6, <2>1, <2>2, <2>3 DEF InsertNode
  <2>5. /\ nodes'[new] = Append(nodes[new], row) /\ nodes[new] \in Seq(NodeRow)
        /\ \A x \in Instances : x # new => nodes'[x] = nodes[x]
    BY <2>4 DEF IInv, TypeOK
  <2>6. PICK first \in NodeRow : first = nodes'[new][1] /\ Untouched(first)
    <3>1. CASE Len(nodes[new]) = 0
      BY <2>3, <2>5, <3>1
    <3>2. CASE Len(nodes[new]) > 0
      BY <2>1, <2>2, <2>5, <3>2 DEF LaysDown
    <3> QED
      BY <2>5, <3>1, <3>2
  <2>7. Unsettled(first)
    BY <2>6, UntouchedIsUnsettled
  <2>8. ASSUME NEW i \in Instances
        PROVE  AwaitsVote(i)'
    <3>1. CASE i = new
      BY <2>2, <2>4, <2>6, <2>7, <3>1 DEF AwaitsVote, InTurn, Unsettled
    <3>2. CASE i # new
      BY <1>4, <2>4, <2>5, <3>2 DEF AwaitsVote, Open, InTurn, Unsettled
    <3> QED
      BY <3>1, <3>2
  <2> QED
    BY <1>3, <2>8
<1> QED
  BY <1>5, <1>6

LEMMA AsksAt ==
    ASSUME TypeOK, NEW r \in Requests, Asks(r)
    PROVE  req'[r].at \in {"nodes", "inst"}
<1>1. PICK u \in Users, i \in Instances :
         \/ \E op \in {"approve", "reject", "invite"}, named \in SUBSET Users :
               Arrive(r, op, u, named, i)
         \/ AskCancel(r, u, i)
  BY DEF Asks
<1>2. CASE AskCancel(r, u, i)
  BY <1>2 DEF AskCancel, TypeOK, Idle
<1>3. ASSUME NEW op, NEW named, Arrive(r, op, u, named, i)
      PROVE  req'[r].at = "nodes"
  BY <1>3 DEF Arrive, TypeOK, Idle
<1> QED
  BY <1>1, <1>2, <1>3

LEMMA AsksAwait ==
    ASSUME OneAtATime, IInv, Awaiting, NEW r \in Requests, Asks(r) \/ Aside(r)
    PROVE  Awaiting'
<1>1. CASE Asks(r)
  <2>1. UNCHANGED <<instance, nodes, faults>> /\ req[r].at = "idle"
    BY <1>1 DEF Asks, Arrive, AskCancel, data
  <2>2. req'[r].at \in {"nodes", "inst"}
    BY <1>1, AsksAt DEF IInv
  <2> QED
    BY <2>1, <2>2, TablesStill DEF SavesUnsettled, IInv
<1>2. CASE Aside(r)
  <2>1. SavesUnsettled(req[r])'
    BY <1>2 DEF Aside, SavesUnsettled
  <2> QED
    BY <1>2, <2>1, TablesStill DEF Aside, IInv
<1> QED
  BY <1>1, <1>2

(* One request at a time and none dead half way, an open approval has a    *)
(* candidate who has not voted: approve and reject never leave it to wait  *)
(* for nobody, whatever votes, delegations and added signs come in.        *)
THEOREM SomebodyIsAwaitedHolds ==
    ASSUME OneAtATime
    PROVE  Spec => []SomebodyIsAwaited
<1>1. Init => Awaiting
  BY Rows DEF Init, Awaiting, AwaitsVote, SavesUnsettled, Open
<1>2. ASSUME IInv, IInv', InOrder, InOrder', Awaiting, [Next]_vars
      PROVE  Awaiting'
  <2>1. CASE Next
    <3>1. PICK r \in Requests :
              \/ Asks(r) \/ Approve(r) \/ Reject(r) \/ Invite(r) \/ Aside(r)
              \/ SaveNode(r) \/ SaveInstance(r) \/ CreateInstance(r) \/ InsertNode(r)
      BY <1>2, <2>1, StepKinds
    <3> QED
      BY <1>2, <3>1, AsksAwait, VotingAwaits, SaveNodeAwaits, SaveInstanceAwaits,
         NewApprovalAwaits
  <2>2. CASE UNCHANGED vars
    BY <1>2, <2>2 DEF vars, Awaiting, AwaitsVote, SavesUnsettled, Open, InTurn, Unsettled
  <2> QED
    BY <1>2, <2>1, <2>2
<1>3. ASSUME IInv, InOrder, Awaiting
      PROVE  SomebodyIsAwaited
  <2> SUFFICES ASSUME Quiet, faults = 0, NEW i \in Instances, Open(i), nodes[i] # <<>>
               PROVE  /\ instance[i].index < Len(nodes[i])
                      /\ LET row == InTurn(i)
                         IN  row.candidates # {} /\ row.listed = Cardinality(row.candidates)
                             => row.candidates \ (row.approvals \cup row.rejections) # {}
    BY DEF SomebodyIsAwaited
  <2>1. instance[i].index < Len(nodes[i])
    BY <1>3 DEF InOrder, RowInOrder
  <2>2. PICK k \in 1 .. Len(nodes[i]) : k = instance[i].index + 1
    <3>1. instance[i].index \in Nat /\ Len(nodes[i]) \in Nat
      BY <1>3 DEF IInv, TypeOK, InstanceRow
    <3> QED
      BY <2>1, <3>1
  <2>3. PICK row \in NodeRow : row = InTurn(i) /\ Sound(i, k, row, {})
    BY <1>3, <2>2 DEF IInv, TypeOK, NodeRows, InTurn
  <2>4. Unsettled(row)
    BY <1>3, <2>3 DEF Awaiting, AwaitsVote, Quiet
  <2>5. ASSUME row.candidates # {}, row.listed = Cardinality(row.candidates)
        PROVE  row.candidates \ (row.approvals \cup row.rejections) # {}
    <3>1. /\ IsFiniteSet(row.candidates) /\ Cardinality(row.candidates) \in Nat
          /\ IsFiniteSet(row.approvals) /\ Cardinality(row.approvals) \in Nat
      BY Finite DEF NodeRow
    <3>2. Cardinality(row.candidates) > 0
      BY <2>5, <3>1, FS_EmptySet
    <3>3. row.approvals # row.candidates
      BY <2>3, <2>4, <2>5, <3>1, <3>2 DEF Unsettled, IsNodeApproved, Sound, NodeRow
    <3> QED
      BY <2>3, <2>4, <3>3 DEF Sound, Unsettled
  <2> QED
    BY <2>1, <2>3, <2>5
<1> QED
  BY <1>1, <1>2, <1>3, Invariance, OrderKept, PTL DEF Spec

-----------------------------------------------------------------------------
(* A script has one approval at a time.                                    *)

(* Where the request at work stands with respect to the open approvals.    *)
ScriptTurn(q) ==
    /\ q.at \in {"idle", "nodes", "node", "inst"} => (SomeOpen => object = "pending")
    /\ q.at \in {"object", "create"} => ~SomeOpen
    /\ q.at = "view" => (SomeOpen => ~q.starts /\ object = "pending" /\ q.writes = <<"pending">>)

OneOpen == \A i, j \in Instances : Open(i) /\ Open(j) => i = j

ScriptInOrder ==
    IsScript /\ faults = 0 /\ ~overruled => OneOpen /\ \A r \in Requests : ScriptTurn(req[r])

(* A guarded view of a script has seen it settled.                         *)
ViewIsSafe(q) == q.at \in {"view", "create"} /\ object # "pending"

LEMMA ScriptStep ==
    ASSUME OneAtATime, NEW r \in Requests, UNCHANGED target,
           IsScript /\ faults' = 0 /\ ~overruled' => OneOpen' /\ ScriptTurn(req[r])'
    PROVE  ScriptInOrder'
<1>1. \A x \in Requests : x = r
  BY DEF OneAtATime
<1> QED
  BY <1>1 DEF ScriptInOrder, IsScript

LEMMA ChangeIs ==
    \A s : Change(s).at = "view" /\ Change(s).starts = FALSE /\ Change(s).writes = <<s>>
  BY DEF Change, Idle

(* Serve by a request that sees what ViewIsSafe says.                      *)
LEMMA SafeView ==
    ASSUME OneAtATime, IInv, ScriptInOrder, NEW r \in Requests, NEW q, Serve(r, q), ViewIsSafe(q)
    PROVE  ScriptInOrder'
<1>1. /\ req'[r] = q /\ UNCHANGED <<target, object, instance, overruled, faults>> /\ req[r].at = "idle"
  BY DEF Serve, data, IInv, TypeOK
<1>2. SomeOpen' <=> SomeOpen
  BY <1>1 DEF SomeOpen, Open
<1>3. ASSUME IsScript, faults = 0, ~overruled
      PROVE  OneOpen' /\ ScriptTurn(req[r])'
  <2>1. OneOpen /\ (SomeOpen => object = "pending")
    BY <1>1, <1>3 DEF ScriptInOrder, ScriptTurn
  <2>2. OneOpen'
    BY <1>1, <2>1 DEF OneOpen, Open
  <2>3. ScriptTurn(req[r])'
    BY <1>1, <1>2, <2>1 DEF ViewIsSafe, ScriptTurn
  <2> QED
    BY <2>2, <2>3
<1> QED
  BY <1>1, <1>3, ScriptStep

LEMMA ScriptViews ==
    ASSUME OneAtATime, IInv, ScriptInOrder, NEW r \in Requests, NEW u \in Users,
           ToggleScript(r, u) \/ Unarchive(r, u) \/ EditScript(r, u) \/ Rollback(r, u)
    PROVE  ScriptInOrder'
<1>1. object # "pending"
  BY DEF ToggleScript, Unarchive, EditScript, Rollback
<1>2. \A q : q.at \in {"view", "create"} => ViewIsSafe(q)
  BY <1>1 DEF ViewIsSafe
<1>3. PICK q : Serve(r, q) /\ q.at \in {"view", "create"}
  BY PreparedAside DEF ToggleScript, Unarchive, EditScript, Rollback
<1> QED
  BY <1>2, <1>3, SafeView

LEMMA ArchiveView ==
    ASSUME OneAtATime, IInv, ScriptInOrder, NEW r \in Requests, Archive(r)
    PROVE  ScriptInOrder'
<1>1. object # "pending" => ViewIsSafe(Change("archived"))
  BY ChangeIs DEF ViewIsSafe
<1> QED
  BY <1>1, SafeView DEF Archive

(* An unchecked write of a status finds no approval open, writes pending   *)
(* where it does, or is on record.                                         *)
LEMMA UncheckedViews ==
    ASSUME OneAtATime, IInv, ScriptInOrder, NEW r \in Requests, ApproveSingle(r) \/ EditObject(r)
    PROVE  ScriptInOrder'
<1>1. PICK s : Overrule(r, s)
  BY DEF ApproveSingle, EditObject
<1>2. /\ req'[r] = Change(s) /\ req[r].at = "idle"
      /\ UNCHANGED <<target, object, instance, faults>>
      /\ ~overruled' => ~overruled /\ (IsScript /\ SomeOpen => s = "pending")
  BY <1>1 DEF Overrule, IInv, TypeOK
<1>3. SomeOpen' <=> SomeOpen
  BY <1>2 DEF SomeOpen, Open
<1>4. ASSUME IsScript, faults = 0, ~overruled'
      PROVE  OneOpen' /\ ScriptTurn(req[r])'
  <2>1. OneOpen /\ (SomeOpen => object = "pending" /\ s = "pending")
    BY <1>2, <1>4 DEF ScriptInOrder, ScriptTurn
  <2>2. OneOpen'
    BY <1>2, <2>1 DEF OneOpen, Open
  <2>3. ScriptTurn(req[r])'
    BY <1>2, <1>3, <2>1, ChangeIs DEF ScriptTurn
  <2> QED
    BY <2>2, <2>3
<1> QED
  BY <1>2, <1>4, ScriptStep

LEMMA NotAScript ==
    ASSUME OneAtATime, NEW r \in Requests, NEW u, NEW o,
           \/ EditWorkflow(r, u) \/ SubmitApprove(r, u) \/ CentreSubmit(r, u)
           \/ ExecuteAsks(r, u) \/ Publish(r, u, o) \/ ToggleWorkflow(r)
    PROVE  ScriptInOrder'
<1>1. IsWorkflow /\ UNCHANGED target
  BY DEF EditWorkflow, SubmitApprove, CentreSubmit, ExecuteAsks, Publish, ToggleWorkflow, Serve
<1> QED
  BY <1>1 DEF ScriptInOrder, IsScript, IsWorkflow

LEMMA CreateScript ==
    ASSUME OneAtATime, IInv, ScriptInOrder, NEW r \in Requests, NEW u, CreateObject(r, u)
    PROVE  ScriptInOrder'
<1>1. /\ req[r].at = "idle" /\ object = "new" /\ UNCHANGED <<target, instance, overruled, faults>>
      /\ req'[r].at \in {"idle", "view", "create"}
  BY PreparedAside DEF CreateObject, IInv, TypeOK
<1>2. ASSUME IsScript, faults = 0, ~overruled
      PROVE  OneOpen' /\ ScriptTurn(req[r])'
  <2>1. ~SomeOpen
    BY <1>1, <1>2 DEF ScriptInOrder, ScriptTurn
  <2> QED
    BY <1>1, <2>1 DEF SomeOpen, Open, OneOpen, ScriptTurn
<1> QED
  BY <1>1, <1>2, ScriptStep

(* The engine handles the one open instance, and the object follows it.    *)
LEMMA EngineOnScript ==
    ASSUME OneAtATime, IInv, InOrder, ScriptInOrder, NEW r \in Requests,
           \/ Asks(r) \/ Raise(r) \/ Approve(r) \/ Reject(r) \/ Invite(r) \/ SaveNode(r)
    PROVE  ScriptInOrder'
<1>1. /\ UNCHANGED <<target, object, instance, overruled, faults>>
      /\ req[r].at \in {"idle", "nodes", "node"}
  BY DEF Asks, Arrive, AskCancel, Raise, Approve, Reject, Invite, SaveNode, data
<1>2. req'[r].at \in {"idle", "nodes", "node", "inst"}
  <2>1. req \in [Requests -> Request] /\ req[r] \in Request
    BY DEF IInv, TypeOK
  <2>2. CASE Asks(r)
    BY <2>1, <2>2, AsksAt DEF IInv
  <2>3. CASE Raise(r)
    BY <2>1, <2>3, Rows DEF Raise, Finish
  <2>4. CASE Approve(r)
    BY <2>1, <2>4 DEF Approve, Request
  <2>5. CASE Reject(r)
    BY <2>1, <2>5 DEF Reject, Request
  <2>6. CASE Invite(r)
    BY <2>1, <2>6 DEF Invite, Request
  <2>7. CASE SaveNode(r)
    <3> DEFINE next == [Idle EXCEPT !.at = "inst", !.inst = req[r].inst, !.snap = req[r].snap]
    <3>1. req' = [req EXCEPT ![r] = next] \/ req' = [req EXCEPT ![r] = Idle]
      BY <2>7 DEF SaveNode, Finish
    <3>2. next.at = "inst" /\ Idle.at = "idle"
      BY DEF Idle
    <3> HIDE DEF next
    <3> QED
      BY <2>1, <3>1, <3>2
  <2> QED
    BY <2>2, <2>3, <2>4, <2>5, <2>6, <2>7
<1>3. ASSUME IsScript, faults = 0, ~overruled
      PROVE  OneOpen' /\ ScriptTurn(req[r])'
  <2>1. OneOpen /\ (SomeOpen => object = "pending")
    BY <1>1, <1>3 DEF ScriptInOrder, ScriptTurn
  <2> QED
    BY <1>1, <1>2, <2>1 DEF OneOpen, Open, ScriptTurn, SomeOpen
<1> QED
  BY <1>1, <1>3, ScriptStep

LEMMA SavesOnScript ==
    ASSUME OneAtATime, IInv, InOrder, ScriptInOrder, NEW r \in Requests,
           SaveInstance(r) \/ SaveObject(r)
    PROVE  ScriptInOrder'
<1>1. CASE SaveInstance(r)
  <2>1. PICK q \in Request : q = req[r] /\ q.at = "inst" /\ Decides(q)
    BY <1>1 DEF SaveInstance, InOrder, Turn, IInv, TypeOK
  <2>2. PICK i \in Instances : i = q.inst /\ Open(i)
    BY <2>1 DEF Decides
  <2>3. /\ UNCHANGED <<target, object, overruled, faults>>
        /\ \A x \in Instances : instance'[x] = IF x = i THEN q.snap ELSE instance[x]
    BY <1>1, <2>1, <2>2 DEF SaveInstance, IInv, TypeOK
  <2>4. /\ q.snap.status \in {"approved", "cancelled"} => req'[r].at = "object"
        /\ q.snap.status \notin {"approved", "cancelled"} => req'[r].at = "idle"
    <3> DEFINE next == [Idle EXCEPT !.at = "object", !.snap.status = q.snap.status]
    <3>1. req' = [req EXCEPT ![r] = IF q.snap.status \in {"approved", "cancelled"}
                                    THEN next ELSE Idle]
      BY <1>1, <2>1 DEF SaveInstance, Finish
    <3>2. next.at = "object" /\ Idle.at = "idle"
      BY DEF Idle
    <3> HIDE DEF next
    <3> QED
      BY <3>1, <3>2 DEF IInv, TypeOK
  <2>5. ASSUME IsScript, faults = 0, ~overruled
        PROVE  OneOpen' /\ ScriptTurn(req[r])'
    <3>1. object = "pending" /\ \A x \in Instances : Open(x) => x = i
      BY <2>1, <2>2, <2>5 DEF ScriptInOrder, ScriptTurn, OneOpen, SomeOpen
    <3>2. \A x \in Instances : Open(x)' => x = i /\ q.snap.status = "pending"
      BY <2>3, <3>1 DEF Open
    <3>3. OneOpen'
      BY <3>2 DEF OneOpen
    <3>4. SomeOpen' => q.snap.status = "pending"
      BY <3>2 DEF SomeOpen
    <3> QED
      BY <2>3, <2>4, <3>1, <3>3, <3>4 DEF ScriptTurn
  <2> QED
    BY <2>3, <2>5, ScriptStep
<1>2. CASE SaveObject(r)
  <2>1. UNCHANGED <<target, instance, overruled, faults>> /\ req[r].at = "object" /\ req'[r].at = "idle"
    BY <1>2, Rows DEF SaveObject, Finish, IInv, TypeOK
  <2>2. ASSUME IsScript, faults = 0, ~overruled
        PROVE  OneOpen' /\ ScriptTurn(req[r])'
    <3>1. ~SomeOpen
      BY <2>1, <2>2 DEF ScriptInOrder, ScriptTurn
    <3> QED
      BY <2>1, <3>1 DEF SomeOpen, Open, OneOpen, ScriptTurn
  <2> QED
    BY <2>1, <2>2, ScriptStep
<1> QED
  BY <1>1, <1>2

LEMMA WritesOnScript ==
    ASSUME OneAtATime, IInv, ScriptInOrder, NEW r \in Requests,
           WriteObject(r) \/ WritePending(r) \/ InsertNode(r)
    PROVE  ScriptInOrder'
<1>1. PICK q \in Request : q = req[r]
  BY DEF IInv, TypeOK
<1>2. UNCHANGED <<target, instance, overruled, faults>>
  BY DEF WriteObject, WritePending, InsertNode
<1>3. CASE WriteObject(r)
  <2> DEFINE more == [q EXCEPT !.writes = Tail(@)]
             done == [q EXCEPT !.at = "create", !.writes = <<>>]
  <2>1. /\ q.at = "view" /\ object' = Head(q.writes)
        /\ req'[r] = IF Len(q.writes) > 1 THEN more ELSE IF q.starts THEN done ELSE Idle
    BY <1>1, <1>3 DEF WriteObject, IInv, TypeOK
  <2>2. more.at = "view" /\ done.at = "create" /\ Idle.at = "idle"
    BY <2>1, Rows DEF Request
  <2> HIDE DEF more, done
  <2>3. ASSUME IsScript, faults = 0, ~overruled
        PROVE  OneOpen' /\ ScriptTurn(req[r])'
    <3>1. OneOpen /\ (SomeOpen => ~q.starts /\ q.writes = <<"pending">>)
      BY <1>1, <2>1, <2>3 DEF ScriptInOrder, ScriptTurn
    <3>2. OneOpen' /\ (SomeOpen' <=> SomeOpen)
      BY <1>2, <3>1 DEF OneOpen, Open, SomeOpen
    <3>3. CASE SomeOpen
      <4>1. req'[r].at = "idle" /\ object' = "pending"
        <5>1. Len(q.writes) = 1 /\ Head(q.writes) = "pending" /\ ~q.starts
          BY <3>1, <3>3
        <5> QED
          BY <2>1, <2>2, <5>1
      <4> QED
        BY <3>2, <4>1 DEF ScriptTurn
    <3>4. CASE ~SomeOpen
      BY <3>2, <3>4 DEF ScriptTurn
    <3> QED
      BY <3>3, <3>4
  <2> QED
    BY <1>2, <2>3, ScriptStep
<1>4. CASE WritePending(r) \/ InsertNode(r)
  <2>1. \/ req'[r].at \in {"last", "insert"}
        \/ req'[r].at = "idle" /\ object' = "pending"
    <3>1. CASE WritePending(r)
      BY <1>1, <3>1, Rows DEF WritePending, IInv, TypeOK, Request
    <3>2. CASE InsertNode(r)
      BY <1>1, <3>2 DEF InsertNode, IInv, TypeOK, Request
    <3> QED
      BY <1>4, <3>1, <3>2
  <2>2. ASSUME IsScript, faults = 0, ~overruled
        PROVE  OneOpen' /\ ScriptTurn(req[r])'
    BY <1>2, <2>1, <2>2 DEF ScriptInOrder, OneOpen, Open, ScriptTurn
  <2> QED
    BY <1>2, <2>2, ScriptStep
<1> QED
  BY <1>3, <1>4

LEMMA CreateInstanceOnScript ==
    ASSUME OneAtATime, IInv, ScriptInOrder, NEW r \in Requests, CreateInstance(r)
    PROVE  ScriptInOrder'
<1>1. PICK q \in Request : q = req[r]
  BY DEF IInv, TypeOK
<1>2. PICK i \in Instances : \A x \in Instances : x # i => instance'[x] = instance[x]
  BY DEF CreateInstance, IInv, TypeOK
<1>3. /\ UNCHANGED <<target, object, overruled, faults>> /\ q.at = "create"
      /\ req'[r].at \in {"last", "insert"}
  BY <1>1 DEF CreateInstance, IInv, TypeOK, Request
<1>4. ASSUME IsScript, faults = 0, ~overruled
      PROVE  OneOpen' /\ ScriptTurn(req[r])'
  <2>1. ~SomeOpen
    BY <1>1, <1>3, <1>4 DEF ScriptInOrder, ScriptTurn
  <2>2. \A x \in Instances : Open(x)' => x = i
    BY <1>2, <2>1 DEF SomeOpen, Open
  <2> QED
    BY <1>3, <2>2 DEF OneOpen, ScriptTurn
<1> QED
  BY <1>3, <1>4, ScriptStep

(* One request at a time and none dead half way, a script has at most one  *)
(* open approval, and is pending whenever it has one and no request is at  *)
(* work, until ScriptApproveViewSet.approve or an edit that sends a status *)
(* overrules an open one: these two views are the only way past the guards *)
(* of ScriptViewSet on status 2.                                           *)
THEOREM OneApprovalOfScriptHolds ==
    ASSUME OneAtATime
    PROVE  Spec => []OneApprovalOfScript
<1>1. Init => ScriptInOrder
  BY Rows DEF Init, ScriptInOrder, ScriptTurn, OneOpen, SomeOpen, Open
<1>2. ASSUME IInv, InOrder, ScriptInOrder, [Next]_vars
      PROVE  ScriptInOrder'
  <2>1. CASE Next
    <3>1. PICK r \in Requests : EngineStep(r) \/ ViewStep(r) \/ Die(r)
      BY <2>1 DEF Next
    <3>2. CASE EngineStep(r)
      <4>1. \/ Asks(r) \/ Raise(r) \/ Approve(r) \/ Reject(r) \/ Invite(r) \/ SaveNode(r)
            \/ SaveInstance(r) \/ SaveObject(r)
        BY <3>2 DEF EngineStep, AskApprove, AskReject, AskDelegate, AskAddSign, Asks
      <4> QED
        BY <1>2, <4>1, EngineOnScript, SavesOnScript
    <3>3. CASE ViewStep(r)
      <4>1. CASE \E u \in Users : CreateObject(r, u)
        BY <1>2, <4>1, CreateScript
      <4>2. CASE \E u \in Users :
                    ToggleScript(r, u) \/ Unarchive(r, u) \/ EditScript(r, u) \/ Rollback(r, u)
        BY <1>2, <4>2, ScriptViews
      <4>3. CASE \E u \in Users :
                    \/ EditWorkflow(r, u) \/ SubmitApprove(r, u)
                    \/ CentreSubmit(r, u) \/ ExecuteAsks(r, u)
                    \/ \E o \in Overrides \cup {NoOverride} : Publish(r, u, o)
        BY <4>3, NotAScript
      <4>4. CASE ToggleWorkflow(r)
        BY <4>4, NotAScript
      <4>5. CASE Archive(r) \/ ApproveSingle(r) \/ EditObject(r)
        BY <1>2, <4>5, ArchiveView, UncheckedViews
      <4>6. CASE WriteObject(r) \/ CreateInstance(r) \/ InsertNode(r) \/ WritePending(r)
        BY <1>2, <4>6, WritesOnScript, CreateInstanceOnScript
      <4> QED
        BY <3>3, <4>1, <4>2, <4>3, <4>4, <4>5, <4>6 DEF ViewStep
    <3>4. CASE Die(r)
      <4>1. faults' # 0
        BY <1>2, <3>4 DEF Die, IInv, TypeOK
      <4> QED
        BY <4>1 DEF ScriptInOrder
    <3> QED
      BY <3>1, <3>2, <3>3, <3>4
  <2>2. CASE UNCHANGED vars
    BY <1>2, <2>2 DEF vars, ScriptInOrder, IsScript, ScriptTurn, OneOpen, SomeOpen, Open
  <2> QED
    BY <1>2, <2>1, <2>2
<1>3. ASSUME IInv, ScriptInOrder
      PROVE  OneApprovalOfScript
  <2> SUFFICES ASSUME IsScript, faults = 0, ~overruled
               PROVE  /\ \A i, j \in Instances : Open(i) /\ Open(j) => i = j
                      /\ Quiet /\ SomeOpen => object = "pending"
    BY DEF OneApprovalOfScript
  <2>1. OneOpen
    BY <1>3 DEF ScriptInOrder
  <2>2. Requests # {} /\ Quiet /\ SomeOpen => object = "pending"
    BY <1>3 DEF ScriptInOrder, ScriptTurn, Quiet
  <2>3. Requests # {}
    BY DEF OneAtATime
  <2> QED
    BY <2>1, <2>2, <2>3 DEF OneOpen
<1> QED
  BY <1>1, <1>2, <1>3, Invariance, OrderKept, PTL DEF Spec

=============================================================================
