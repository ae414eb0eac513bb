--------------------------- MODULE ApprovalProofs ---------------------------
(***************************************************************************)
(* No node of an approval is passed without its mandate, for any users,    *)
(* requests, rules and approver lists.                                     *)
(*                                                                         *)
(* A request decides from the rows it has read, which others may have      *)
(* changed since.  That is harmless for the mandate because every version  *)
(* of a node row that is ever read or saved is sound by itself: it asks at *)
(* least the candidates the node was created with, and each approval it    *)
(* counts is another candidate's and has been saved before (or is the      *)
(* request's own).  A lost update only goes back to an older sound row.    *)
(***************************************************************************)
EXTENDS Approval, FiniteSetTheorems, SequenceTheorems, TLAPS

(* Entries of a list of users and the users in it.                         *)
Listed(a) == Cardinality(a.candidates) <= a.listed

(* A version of node k of instance i; the approvals of the users in who    *)
(* may not have been saved yet.                                            *)
Sound(i, k, row, who) ==
    /\ row.mode = asked[i][k].mode
    /\ asked[i][k].candidates \subseteq row.candidates
    /\ row.approvals \subseteq row.candidates
    /\ row.count = Cardinality(row.approvals)
    /\ Listed(row)
    /\ \A u \in row.approvals \ who : <<i, k, u>> \in said

NodeRows ==
    \A i \in Instances :
        /\ Len(nodes[i]) = Len(asked[i])
        /\ \A k \in 1 .. Len(nodes[i]) : Sound(i, k, nodes[i][k], {})

(* The nodes a version of an instance row says are behind it.              *)
Backed(i, row) == \A k \in Passed(row) : Mandated(i, k)

(* What a request that is about to save has to back it.                    *)
AtNodes(q) ==
    /\ q.inst \in Instances
    /\ q.k = q.snap.index + 1
    /\ q.snap.status = "pending"
    /\ q.by \in Users
    /\ Backed(q.inst, q.snap)

Own(q) == IF q.op = "approve" THEN {q.by} ELSE {}

AtNode(q) ==
    /\ q.inst \in Instances
    /\ q.k \in 1 .. Len(nodes[q.inst])
    /\ q.op = "approve" => q.by \in Users
    /\ Sound(q.inst, q.k, q.row, Own(q))
    /\ q.moves => \A j \in Passed(q.snap) :
          \/ Mandated(q.inst, j)
          \/ q.op = "approve" /\ j = q.k /\ IsNodeApproved(q.row)

Planned(plan) == \A n \in 1 .. Len(plan) : Listed(plan[n])

Flight(q) ==
    /\ Planned(q.plan)
    /\ q.at = "nodes" => AtNodes(q)
    /\ q.at = "node" => AtNode(q)
    /\ q.at = "inst" => q.inst \in Instances /\ Backed(q.inst, q.snap)
    /\ q.at = "view" => q.writes # <<>>
    /\ q.at = "insert" => q.inst \in Instances /\ q.plan # <<>>

InFlight == \A r \in Requests : Flight(req[r])

IInv == TypeOK /\ NodeRows /\ Mandate /\ InFlight

-----------------------------------------------------------------------------
(* Rows and requests.                                                      *)

LEMMA Rows ==
    /\ NoInstance \in InstanceRow /\ NoInstance.index = 0 /\ NoInstance.status = "none"
    /\ NoRow \in NodeRow
    /\ Idle \in Request /\ Idle.at = "idle" /\ Idle.plan = <<>>
<1>1. NoInstance \in InstanceRow /\ NoInstance.index = 0 /\ NoInstance.status = "none"
  BY DEF NoInstance, InstanceRow
<1>2. NoRow \in NodeRow
  BY DEF NoRow, NewRow, NodeRow, Modes
<1>3. 0 \in 0 .. MaxInstances
  BY ApprovalAssumption
<1>4. /\ <<>> \in Seq(ObjectStatuses)
      /\ <<>> \in Seq(Asked)
  OBVIOUS
<1> QED
  BY <1>1, <1>2, <1>3, <1>4 DEF Idle, Request, Places

LEMMA Finite == \A S \in SUBSET Users : IsFiniteSet(S) /\ Cardinality(S) \in Nat
  BY ApprovalAssumption, FS_Subset, FS_CardinalityType

(* A request at rest, or at work in a view, needs no backing.              *)
LEMMA Resting ==
    ASSUME NEW q, q.at \in {"idle", "view", "create", "last", "object"},
           Planned(q.plan), q.at = "view" => q.writes # <<>>
    PROVE  Flight(q)
  BY DEF Flight

LEMMA IdleFlight == Flight(Idle)
  BY Rows DEF Flight, Planned

(* Reading, dying and the saves of the object change no row.               *)
LEMMA ReplaceAny ==
    ASSUME IInv, NEW r \in Requests, NEW q \in Request, Flight(q),
           req' = [req EXCEPT ![r] = q],
           UNCHANGED <<target, instance, nodes, asked, said>>, overruled' \in BOOLEAN,
           object' \in ObjectStatuses \cup {"new"}, faults' \in 0 .. MaxFaults
    PROVE  IInv'
<1> USE DEF IInv
<1>1. TypeOK'
  BY DEF TypeOK
<1>2. NodeRows'
  BY DEF NodeRows, Sound
<1>3. Mandate'
  BY DEF Mandate, Mandated
<1>4. InFlight'
  <2> SUFFICES ASSUME NEW x \in Requests
               PROVE  Flight(req[x])'
    BY DEF InFlight
  <2>1. Flight(req'[x])
    BY DEF InFlight, TypeOK
  <2> QED
    BY <2>1, ZenonT(60) DEF Flight, AtNodes, AtNode, Backed, Mandated, Sound
<1> QED
  BY <1>1, <1>2, <1>3, <1>4

LEMMA Replace ==
    ASSUME IInv, NEW r \in Requests, NEW q \in Request, Flight(q),
           req' = [req EXCEPT ![r] = q],
           UNCHANGED <<target, instance, nodes, asked, said, overruled>>,
           object' \in ObjectStatuses \cup {"new"}, faults' \in 0 .. MaxFaults
    PROVE  IInv'
<1>1. overruled' \in BOOLEAN
  BY DEF IInv, TypeOK
<1> QED
  BY <1>1, ReplaceAny

-----------------------------------------------------------------------------
(* The vote that completes a node.                                         *)

(* A sound row that counts as approved has somebody's approval, and where  *)
(* all must sign that of everybody the node asked: as many approvals as    *)
(* listed candidates are all the candidates.                               *)
LEMMA AllSigned ==
    ASSUME NEW row \in NodeRow, row.approvals \subseteq row.candidates,
           row.count = Cardinality(row.approvals), Listed(row), IsNodeApproved(row)
    PROVE  row.approvals # {} /\ (row.mode = "all" => row.candidates = row.approvals)
<1>1. /\ IsFiniteSet(row.candidates) /\ IsFiniteSet(row.approvals)
      /\ Cardinality(row.candidates) \in Nat /\ Cardinality(row.approvals) \in Nat
      /\ row.listed \in Nat
  BY Finite DEF NodeRow
<1>2. Cardinality(row.approvals) > 0
  BY <1>1 DEF IsNodeApproved
<1>3. row.approvals # {}
  BY <1>2, FS_EmptySet
<1>4. ASSUME row.mode = "all"
      PROVE  row.candidates = row.approvals
  <2>1. Cardinality(row.approvals) >= Cardinality(row.candidates)
    BY <1>1, <1>4 DEF IsNodeApproved, Listed
  <2>2. Cardinality(row.approvals) = Cardinality(row.candidates)
    BY <1>1, <2>1, FS_Subset
  <2> QED
    BY <1>1, <2>2, FS_Subset
<1> QED
  BY <1>3, <1>4

(* A sound row that counts as approved, in the state after a save, shows   *)
(* the mandate of its node.                                                *)
LEMMA SignedNext ==
    ASSUME TypeOK', NEW i \in Instances, NEW k \in 1 .. Len(asked'[i]), NEW row \in NodeRow,
           Sound(i, k, row, {})', IsNodeApproved(row)
    PROVE  Mandated(i, k)'
<1>1. row.approvals # {} /\ (row.mode = "all" => row.candidates = row.approvals)
  BY AllSigned DEF Sound
<1>2. row.approvals \subseteq Users
  BY DEF NodeRow
<1> QED
  BY <1>1, <1>2 DEF Sound, Mandated

-----------------------------------------------------------------------------
(* Saves.                                                                  *)

(* Tables only grow, as far as what backs a request goes.                  *)
Grows ==
    /\ \A i \in Instances :
          /\ Len(nodes[i]) = Len(asked[i]) /\ Len(nodes[i]) \in Nat
          /\ Len(nodes'[i]) \in Nat /\ Len(asked'[i]) \in Nat
          /\ Len(nodes[i]) <= Len(nodes'[i]) /\ Len(asked[i]) <= Len(asked'[i])
          /\ \A k \in 1 .. Len(asked[i]) : asked'[i][k] = asked[i][k]
    /\ said \subseteq said'

LEMMA StillMandated ==
    ASSUME Grows
    PROVE  \A i \in Instances : \A k : Mandated(i, k) => Mandated(i, k)'
<1> SUFFICES ASSUME NEW i \in Instances, NEW k, Mandated(i, k)
             PROVE  Mandated(i, k)'
  OBVIOUS
<1>1. k \in 1 .. Len(asked'[i]) /\ asked'[i][k] = asked[i][k]
  BY DEF Grows, Mandated
<1>2. said \subseteq said'
  BY DEF Grows
<1> QED
  BY <1>1, <1>2 DEF Mandated

LEMMA StillInFlight ==
    ASSUME Grows, NEW q \in Request, Flight(q)
    PROVE  Flight(q)'
<1>1. \A i \in Instances : \A k : Mandated(i, k) => Mandated(i, k)'
  BY StillMandated
<1>2. AtNodes(q) => AtNodes(q)'
  BY <1>1 DEF AtNodes, Backed
<1>3. ASSUME AtNode(q)
      PROVE  AtNode(q)'
  <2>1. q.k \in 1 .. Len(nodes[q.inst]) /\ q.k \in 1 .. Len(nodes'[q.inst])
    BY <1>3 DEF AtNode, Grows
  <2>2. Sound(q.inst, q.k, q.row, Own(q))'
    BY <1>3, <2>1 DEF AtNode, Grows, Sound
  <2> QED
    BY <1>1, <1>3, <2>1, <2>2 DEF AtNode
<1>4. \A i \in Instances : Backed(i, q.snap) => Backed(i, q.snap)'
  BY <1>1 DEF Backed
<1> QED
  BY <1>2, <1>3, <1>4 DEF Flight

LEMMA OthersInFlight ==
    ASSUME IInv, Grows, NEW r \in Requests, NEW q \in Request, Flight(q)',
           req' = [req EXCEPT ![r] = q]
    PROVE  InFlight'
<1> USE DEF IInv
<1> SUFFICES ASSUME NEW x \in Requests
             PROVE  Flight(req[x])'
  BY DEF InFlight
<1>1. CASE x = r
  <2>1. req'[x] = q
    BY <1>1 DEF TypeOK
  <2> QED
    BY <2>1, ZenonT(60) DEF Flight, AtNodes, AtNode, Backed, Mandated, Sound
<1>2. CASE x # r
  <2>1. req'[x] = req[x] /\ req[x] \in Request
    BY <1>2 DEF TypeOK
  <2>2. \A p \in Request : Flight(p) => Flight(p)'
    BY StillInFlight
  <2> QED
    BY <2>1, <2>2 DEF InFlight
<1> QED
  BY <1>1, <1>2

LEMMA GrowsIf ==
    ASSUME TypeOK, TypeOK', NodeRows, said \subseteq said',
           \/ UNCHANGED asked /\ \A i \in Instances : Len(nodes'[i]) = Len(nodes[i])
           \/ \E i \in Instances, a \in Asked, row \in NodeRow :
                 /\ asked' = [asked EXCEPT ![i] = Append(@, a)]
                 /\ nodes' = [nodes EXCEPT ![i] = Append(@, row)]
    PROVE  Grows
<1>1. \A i \in Instances :
         /\ Len(nodes[i]) = Len(asked[i]) /\ Len(nodes[i]) \in Nat
         /\ Len(nodes'[i]) \in Nat /\ Len(asked'[i]) \in Nat
  BY DEF TypeOK, NodeRows
<1>2. CASE UNCHANGED asked /\ \A i \in Instances : Len(nodes'[i]) = Len(nodes[i])
  BY <1>1, <1>2 DEF Grows
<1>3. CASE \E i \in Instances, a \in Asked, row \in NodeRow :
              /\ asked' = [asked EXCEPT ![i] = Append(@, a)]
              /\ nodes' = [nodes EXCEPT ![i] = Append(@, row)]
  BY <1>1, <1>3 DEF Grows, TypeOK
<1> QED
  BY <1>2, <1>3

(* node_exec.save(): the row goes back to whatever the request has read,   *)
(* with its own vote; that vote is on record from here on.                 *)
LEMMA SaveNodeStep ==
    ASSUME IInv, NEW r \in Requests, SaveNode(r)
    PROVE  IInv'
<1> USE DEF IInv
<1>1. PICK q \in Request : q = req[r] /\ q.at = "node" /\ AtNode(q)
  BY DEF SaveNode, InFlight, Flight, TypeOK
<1> DEFINE vote == IF q.op = "approve" THEN {<<q.inst, q.k, q.by>>} ELSE {}
           next == IF q.moves THEN [Idle EXCEPT !.at = "inst", !.inst = q.inst, !.snap = q.snap]
                              ELSE Idle
<1>2. /\ q.inst \in Instances /\ q.k \in 1 .. Len(nodes[q.inst])
      /\ q.op = "approve" => q.by \in Users
      /\ q.row \in NodeRow /\ q.snap \in InstanceRow
      /\ Sound(q.inst, q.k, q.row, Own(q))
  BY <1>1 DEF AtNode, Request
<1>3. /\ nodes' = [nodes EXCEPT ![q.inst] = [@ EXCEPT ![q.k] = q.row]]
      /\ said' = said \cup vote
      /\ req' = [req EXCEPT ![r] = next]
      /\ UNCHANGED <<target, object, instance, asked, overruled, faults>>
  BY <1>1 DEF SaveNode, Finish
<1>4. next \in Request
  BY <1>1, <1>2, Rows, ZenonT(60) DEF Request, Places
<1>5. nodes' \in [Instances -> Seq(NodeRow)] /\ \A i \in Instances : Len(nodes'[i]) = Len(nodes[i])
  BY <1>2, <1>3 DEF TypeOK
<1>6. said' \subseteq Instances \X Nat \X Users
  BY <1>2, <1>3 DEF TypeOK
<1>7. TypeOK'
  BY <1>3, <1>4, <1>5, <1>6 DEF TypeOK
<1>8. Grows
  BY <1>3, <1>5, <1>7, GrowsIf
<1>9. Sound(q.inst, q.k, q.row, {})'
  BY <1>2, <1>3 DEF Sound, Own
<1>10. NodeRows'
  <2> SUFFICES ASSUME NEW i \in Instances, NEW k \in 1 .. Len(nodes'[i])
               PROVE  Sound(i, k, nodes[i][k], {})'
    BY <1>3, <1>5 DEF NodeRows
  <2>1. CASE i = q.inst /\ k = q.k
    <3>1. nodes'[i][k] = q.row
      BY <1>2, <1>3, <2>1 DEF TypeOK
    <3> QED
      BY <1>9, <2>1, <3>1 DEF Sound
  <2>2. CASE ~(i = q.inst /\ k = q.k)
    <3>1. nodes'[i][k] = nodes[i][k] /\ k \in 1 .. Len(nodes[i])
      BY <1>2, <1>3, <1>5, <2>2 DEF TypeOK
    <3>2. Sound(i, k, nodes[i][k], {})
      BY <3>1 DEF NodeRows
    <3> QED
      BY <1>3, <3>1, <3>2 DEF Sound
  <2> QED
    BY <2>1, <2>2
<1>11. Mandate'
  BY <1>3, <1>8, StillMandated DEF Mandate, Passed, TypeOK, InstanceRow
<1>12. Flight(next)'
  <2>1. CASE q.moves
    <3>1. \A j \in Passed(q.snap) : Mandated(q.inst, j)'
      <4> SUFFICES ASSUME NEW j \in Passed(q.snap)
                   PROVE  Mandated(q.inst, j)'
        OBVIOUS
      <4>1. CASE Mandated(q.inst, j)
        BY <1>2, <1>8, <4>1, StillMandated
      <4>2. CASE q.op = "approve" /\ j = q.k /\ IsNodeApproved(q.row)
        <5>1. q.k \in 1 .. Len(asked'[q.inst])
          BY <1>2, <1>3 DEF NodeRows
        <5> QED
          BY <1>2, <1>7, <1>9, <4>2, <5>1, SignedNext
      <4> QED
        BY <1>1, <2>1, <4>1, <4>2 DEF AtNode
    <3>2. /\ next.at = "inst" /\ next.inst = q.inst /\ next.snap = q.snap
          /\ next.plan = <<>>
      BY <2>1, Rows DEF Idle
    <3> QED
      BY <1>2, <3>1, <3>2 DEF Flight, Planned, Backed
  <2>2. CASE ~q.moves
    BY <2>2, Rows DEF Flight, Planned
  <2> QED
    BY <2>1, <2>2
<1>13. InFlight'
  BY <1>3, <1>4, <1>8, <1>12, OthersInFlight
<1> QED
  BY <1>7, <1>10, <1>11, <1>13

(* instance.save(): whatever the row has read, it is backed.               *)
LEMMA SaveInstanceStep ==
    ASSUME IInv, NEW r \in Requests, SaveInstance(r)
    PROVE  IInv'
<1> USE DEF IInv
<1>1. PICK q \in Request : /\ q = req[r] /\ q.at = "inst"
                           /\ q.inst \in Instances /\ Backed(q.inst, q.snap)
  BY DEF SaveInstance, InFlight, Flight, TypeOK
<1> DEFINE next == IF q.snap.status \in {"approved", "cancelled"}
                   THEN [Idle EXCEPT !.at = "object", !.snap.status = q.snap.status] ELSE Idle
<1>2. /\ instance' = [instance EXCEPT ![q.inst] = q.snap]
      /\ req' = [req EXCEPT ![r] = next]
      /\ UNCHANGED <<target, object, nodes, asked, said, overruled, faults>>
  BY <1>1 DEF SaveInstance, Finish
<1>3. q.snap \in InstanceRow
  BY DEF Request
<1>4. next \in Request
  <2>1. CASE q.snap.status \in {"approved", "cancelled"}
    <3>1. [NoInstance EXCEPT !.status = q.snap.status] \in InstanceRow
      BY <1>3, Rows DEF InstanceRow
    <3>2. Idle.snap = NoInstance
      BY DEF Idle
    <3>3. next = [Idle EXCEPT !.at = "object",
                              !.snap = [NoInstance EXCEPT !.status = q.snap.status]]
      BY <2>1, <3>2
    <3> HIDE DEF next
    <3> QED
      BY <3>1, <3>3, Rows DEF Request, Places
  <2>2. CASE q.snap.status \notin {"approved", "cancelled"}
    BY <2>2, Rows
  <2> QED
    BY <2>1, <2>2
<1>5. TypeOK'
  BY <1>1, <1>2, <1>3, <1>4 DEF TypeOK
<1>6. Grows
  BY <1>2, <1>5, GrowsIf
<1>7. NodeRows'
  BY <1>2 DEF NodeRows, Sound
<1>8. Mandate'
  <2>1. \A i \in Instances : \A k \in Passed(instance'[i]) : Mandated(i, k)
    BY <1>1, <1>2 DEF Mandate, Backed, TypeOK
  <2> QED
    BY <1>2, <2>1 DEF Mandate, Mandated, Passed
<1>9. Flight(next)'
  BY Rows DEF Flight, Planned
<1>10. InFlight'
  BY <1>2, <1>4, <1>6, <1>9, OthersInFlight
<1> QED
  BY <1>5, <1>7, <1>8, <1>10

LEMMA SaveObjectStep ==
    ASSUME IInv, NEW r \in Requests, SaveObject(r)
    PROVE  IInv'
<1>1. req' = [req EXCEPT ![r] = Idle]
  BY DEF SaveObject, Finish
<1>2. object' \in ObjectStatuses \cup {"new"} /\ faults' \in 0 .. MaxFaults
  BY DEF SaveObject, IInv, TypeOK, ObjectStatuses
<1> QED
  BY <1>1, <1>2, Rows, IdleFlight, Replace DEF SaveObject

-----------------------------------------------------------------------------
(* The engines' reading halves.                                            *)

LEMMA ArriveStep ==
    ASSUME IInv, NEW r \in Requests, NEW op \in {"approve", "reject", "invite"},
           NEW u \in Users, NEW named \in SUBSET Users, NEW i \in Instances,
           Arrive(r, op, u, named, i)
    PROVE  IInv'
<1> USE DEF IInv
<1>1. PICK row \in InstanceRow : row = instance[i] /\ row.status = "pending"
  BY DEF Arrive, Open, TypeOK
<1> DEFINE q == [Idle EXCEPT !.at = "nodes", !.op = op, !.by = u, !.named = named,
                             !.inst = i, !.snap = row, !.k = row.index + 1]
<1>2. q \in Request
  <2>1. i \in 0 .. MaxInstances /\ row.index + 1 \in Nat
    BY ApprovalAssumption DEF Instances, InstanceRow
  <2> QED
    BY <2>1, Rows DEF Request, Places
<1>3. Flight(q)
  <2>1. AtNodes(q)
    BY <1>1, Rows DEF AtNodes, Backed, Mandate, Idle
  <2>2. q.plan = <<>> /\ q.at = "nodes"
    BY Rows DEF Idle
  <2> QED
    BY <2>1, <2>2 DEF Flight, Planned
<1>4. /\ req' = [req EXCEPT ![r] = q]
      /\ UNCHANGED <<target, instance, nodes, asked, said, overruled, object, faults>>
  BY <1>1 DEF Arrive, data
<1>5. object' \in ObjectStatuses \cup {"new"} /\ faults' \in 0 .. MaxFaults
  BY <1>4 DEF TypeOK
<1> QED
  BY <1>2, <1>3, <1>4, <1>5, Replace

LEMMA AskCancelStep ==
    ASSUME IInv, NEW r \in Requests, NEW u \in Users, NEW i \in Instances,
           AskCancel(r, u, i)
    PROVE  IInv'
<1> USE DEF IInv
<1>1. PICK row \in InstanceRow : row = instance[i] /\ row.status = "pending"
  BY DEF AskCancel, Open, TypeOK
<1> DEFINE q == [Idle EXCEPT !.at = "inst", !.inst = i,
                             !.snap = [row EXCEPT !.status = "cancelled"]]
<1>2. q \in Request
  <2>1. i \in 0 .. MaxInstances /\ [row EXCEPT !.status = "cancelled"] \in InstanceRow
    BY ApprovalAssumption DEF Instances, InstanceRow, Decisions
  <2> QED
    BY <2>1, Rows DEF Request, Places
<1>3. Flight(q)
  <2>1. /\ q.plan = <<>> /\ q.at = "inst" /\ q.inst = i
        /\ q.snap.index = row.index /\ q.snap.status = "cancelled"
    BY Rows DEF Idle, InstanceRow
  <2>2. Passed(q.snap) = Passed(row)
    BY <1>1, <2>1 DEF Passed
  <2>3. Backed(i, q.snap)
    BY <1>1, <2>2 DEF Backed, Mandate
  <2> QED
    BY <2>1, <2>3 DEF Flight, Planned
<1>4. /\ req' = [req EXCEPT ![r] = q]
      /\ UNCHANGED <<target, instance, nodes, asked, said, overruled, object, faults>>
  BY <1>1 DEF AskCancel, data
<1>5. object' \in ObjectStatuses \cup {"new"} /\ faults' \in 0 .. MaxFaults
  BY <1>4 DEF TypeOK
<1> QED
  BY <1>2, <1>3, <1>4, <1>5, Replace

LEMMA RaiseStep ==
    ASSUME IInv, NEW r \in Requests, Raise(r)
    PROVE  IInv'
<1>1. req' = [req EXCEPT ![r] = Idle]
  BY DEF Raise, Finish
<1>2. object' \in ObjectStatuses \cup {"new"} /\ faults' \in 0 .. MaxFaults
  BY DEF Raise, data, IInv, TypeOK
<1> QED
  BY <1>1, <1>2, Rows, IdleFlight, Replace DEF Raise, data

LEMMA DieStep ==
    ASSUME IInv, NEW r \in Requests, Die(r)
    PROVE  IInv'
<1>1. req' = [req EXCEPT ![r] = Idle]
  BY DEF Die, Finish
<1>2. object' \in ObjectStatuses \cup {"new"} /\ faults' \in 0 .. MaxFaults
  BY ApprovalAssumption DEF Die, data, IInv, TypeOK
<1> QED
  BY <1>1, <1>2, Rows, IdleFlight, Replace DEF Die, data

(* What a request that goes on has in its hands.                           *)
LEMMA NodeInTurn ==
    ASSUME IInv, NEW q \in Request, AtNodes(q), MayGoOn(q)
    PROVE  /\ q.inst \in Instances /\ q.k \in 1 .. Len(nodes[q.inst])
           /\ nodes[q.inst][q.k] \in NodeRow
           /\ Sound(q.inst, q.k, nodes[q.inst][q.k], {})
           /\ q.snap \in InstanceRow /\ q.by \in Users /\ q.named \in SUBSET Users
           /\ q.by \in nodes[q.inst][q.k].candidates
           /\ q.op = "approve" => q.by \notin nodes[q.inst][q.k].approvals
           /\ q.k = q.snap.index + 1 /\ q.snap.status = "pending"
           /\ \A j \in 1 .. q.snap.index : Mandated(q.inst, j)
<1>1. /\ q.inst \in Instances /\ q.by \in Users /\ q.snap \in InstanceRow
      /\ q.named \in SUBSET Users
      /\ q.k = q.snap.index + 1 /\ q.snap.status = "pending" /\ q.snap.index \in Nat
  BY DEF AtNodes, Request, InstanceRow
<1>2. q.k \in 1 .. Len(nodes[q.inst])
  BY <1>1 DEF MayGoOn, IInv, TypeOK
<1>3. nodes[q.inst][q.k] \in NodeRow /\ Sound(q.inst, q.k, nodes[q.inst][q.k], {})
  BY <1>1, <1>2 DEF IInv, TypeOK, NodeRows
<1>4. /\ q.by \in nodes[q.inst][q.k].candidates
      /\ q.op = "approve" => q.by \notin nodes[q.inst][q.k].approvals
  BY DEF MayGoOn, MayVote
<1>5. \A j \in 1 .. q.snap.index : Mandated(q.inst, j)
  BY <1>1 DEF AtNodes, Backed, Passed
<1> QED
  BY <1>1, <1>2, <1>3, <1>4, <1>5

LEMMA ApproveStep ==
    ASSUME IInv, NEW r \in Requests, Approve(r)
    PROVE  IInv'
<1> USE DEF IInv
<1>1. PICK q \in Request : q = req[r] /\ q.op = "approve" /\ AtNodes(q) /\ MayGoOn(q)
                           /\ q.plan = req[r].plan /\ Planned(q.plan)
  BY DEF Approve, InFlight, Flight, TypeOK
<1>2. PICK old \in NodeRow : old = nodes[q.inst][q.k] /\ Sound(q.inst, q.k, old, {})
  BY <1>1, NodeInTurn
<1> DEFINE new == [old EXCEPT !.approvals = @ \cup {q.by}, !.count = @ + 1]
           signed == [new EXCEPT !.status = "approved"]
           moved == IF q.k >= Len(nodes[q.inst]) THEN [q.snap EXCEPT !.status = "approved"]
                                                 ELSE [q.snap EXCEPT !.index = q.k]
           goes == [q EXCEPT !.at = "node", !.moves = TRUE, !.row = signed, !.snap = moved]
           stays == [q EXCEPT !.at = "node", !.row = new, !.snap = NoInstance]
<1>3. /\ req' = [req EXCEPT ![r] = IF IsNodeApproved(new) THEN goes ELSE stays]
      /\ UNCHANGED <<target, instance, nodes, asked, said, overruled, object, faults>>
  BY <1>1, <1>2 DEF Approve, data
<1>4. new \in NodeRow /\ signed \in NodeRow
  <2>1. old.approvals \cup {q.by} \in SUBSET Users /\ old.count + 1 \in Nat
    BY <1>1, NodeInTurn DEF NodeRow
  <2> QED
    BY <2>1 DEF NodeRow
<1>5. /\ IsFiniteSet(old.approvals) /\ q.by \notin old.approvals
      /\ q.by \in old.candidates /\ q.by \in Users
  BY <1>1, <1>2, NodeInTurn, Finite DEF NodeRow
<1>6. Cardinality(old.approvals \cup {q.by}) = Cardinality(old.approvals) + 1
  BY <1>5, FS_AddElement
<1>7. Sound(q.inst, q.k, new, {q.by}) /\ Sound(q.inst, q.k, signed, {q.by})
  BY <1>2, <1>5, <1>6 DEF Sound, Listed, NodeRow
<1>8. moved \in InstanceRow /\ Passed(moved) = 1 .. q.k
  BY <1>1, NodeInTurn DEF InstanceRow, Decisions, Passed
<1>9. goes \in Request /\ stays \in Request
  BY <1>4, <1>8, Rows, ZenonT(60) DEF Request, Places
<1>10. /\ goes.inst = q.inst /\ goes.k = q.k /\ goes.op = "approve" /\ goes.by = q.by
       /\ goes.row = signed /\ goes.snap = moved /\ goes.plan = q.plan /\ goes.at = "node"
       /\ stays.inst = q.inst /\ stays.k = q.k /\ stays.op = "approve" /\ stays.by = q.by
       /\ stays.row = new /\ stays.snap = NoInstance /\ stays.plan = q.plan /\ stays.at = "node"
  BY <1>1 DEF Request
<1>11. ASSUME IsNodeApproved(new)
       PROVE  Flight(goes)
  <2>1. IsNodeApproved(signed)
    BY <1>11 DEF IsNodeApproved, NodeRow
  <2>2. \A j \in 1 .. q.k : Mandated(q.inst, j) \/ j = q.k
    BY <1>1, NodeInTurn DEF InstanceRow
  <2> HIDE DEF goes, signed, moved
  <2>3. AtNode(goes)
    BY <1>1, <1>5, <1>7, <1>8, <1>10, <2>1, <2>2, NodeInTurn DEF AtNode, Own
  <2> QED
    BY <1>1, <1>10, <2>3 DEF Flight
<1>12. Flight(stays)
  <2>1. Passed(NoInstance) = {}
    BY Rows DEF Passed
  <2> HIDE DEF stays, new
  <2>2. AtNode(stays)
    BY <1>1, <1>5, <1>7, <1>10, <2>1, NodeInTurn DEF AtNode, Own
  <2> QED
    BY <1>1, <1>10, <2>2 DEF Flight
<1>13. object' \in ObjectStatuses \cup {"new"} /\ faults' \in 0 .. MaxFaults
  BY <1>3 DEF TypeOK
<1> HIDE DEF goes, stays
<1>14. CASE IsNodeApproved(new)
  BY <1>3, <1>9, <1>11, <1>13, <1>14, Replace
<1>15. CASE ~IsNodeApproved(new)
  BY <1>3, <1>9, <1>12, <1>13, <1>15, Replace
<1> QED
  BY <1>14, <1>15

LEMMA RejectStep ==
    ASSUME IInv, NEW r \in Requests, Reject(r)
    PROVE  IInv'
<1> USE DEF IInv
<1>1. PICK q \in Request : /\ q = req[r] /\ q.op = "reject" /\ AtNodes(q) /\ MayGoOn(q)
                           /\ Planned(q.plan)
  BY DEF Reject, InFlight, Flight, TypeOK
<1>2. PICK old \in NodeRow : old = nodes[q.inst][q.k] /\ Sound(q.inst, q.k, old, {})
  BY <1>1, NodeInTurn
<1> DEFINE new == [old EXCEPT !.rejections = @ \cup {q.by}, !.status = "rejected"]
           refused == [q.snap EXCEPT !.status = "rejected"]
           next == [q EXCEPT !.at = "node", !.moves = TRUE, !.by = "none",
                             !.row = new, !.snap = refused]
<1>3. /\ req' = [req EXCEPT ![r] = next]
      /\ UNCHANGED <<target, instance, nodes, asked, said, overruled, object, faults>>
  BY <1>1, <1>2 DEF Reject, data
<1>4. new \in NodeRow /\ Sound(q.inst, q.k, new, {})
  <2>1. old.rejections \cup {q.by} \in SUBSET Users
    BY <1>1, NodeInTurn DEF NodeRow
  <2> QED
    BY <1>2, <2>1 DEF NodeRow, Sound, Listed
<1>5. refused \in InstanceRow /\ Passed(refused) = 1 .. q.snap.index
  BY <1>1, NodeInTurn DEF InstanceRow, Decisions, Passed
<1>6. next \in Request
  BY <1>4, <1>5 DEF Request, Places
<1>7. /\ next.inst = q.inst /\ next.k = q.k /\ next.op = "reject"
      /\ next.row = new /\ next.snap = refused /\ next.plan = q.plan /\ next.at = "node"
  BY <1>1 DEF Request
<1> HIDE DEF next, new, refused
<1>8. Flight(next)
  <2>1. AtNode(next)
    BY <1>1, <1>4, <1>5, <1>7, NodeInTurn DEF AtNode, Own
  <2> QED
    BY <1>1, <1>7, <2>1 DEF Flight
<1>9. object' \in ObjectStatuses \cup {"new"} /\ faults' \in 0 .. MaxFaults
  BY <1>3 DEF TypeOK
<1> QED
  BY <1>3, <1>6, <1>8, <1>9, Replace

(* delegate and add_sign only add candidates, and list each of them once.  *)
LEMMA InviteStep ==
    ASSUME IInv, NEW r \in Requests, Invite(r)
    PROVE  IInv'
<1> USE DEF IInv
<1>1. PICK q \in Request : /\ q = req[r] /\ q.op = "invite" /\ AtNodes(q) /\ MayGoOn(q)
                           /\ Planned(q.plan)
  BY DEF Invite, InFlight, Flight, TypeOK
<1>2. PICK old \in NodeRow : old = nodes[q.inst][q.k] /\ Sound(q.inst, q.k, old, {})
  BY <1>1, NodeInTurn
<1> DEFINE more == q.named \ old.candidates
           new == [old EXCEPT !.candidates = @ \cup q.named, !.listed = @ + Cardinality(more)]
           next == [q EXCEPT !.at = "node", !.by = "none", !.named = {}, !.row = new,
                             !.snap = NoInstance]
<1>3. /\ req' = [req EXCEPT ![r] = next]
      /\ UNCHANGED <<target, instance, nodes, asked, said, overruled, object, faults>>
  BY <1>1, <1>2 DEF Invite, data
<1>4. /\ old.candidates \in SUBSET Users /\ more \in SUBSET Users
      /\ old.candidates \cup q.named \in SUBSET Users
      /\ old.listed \in Nat /\ Cardinality(more) \in Nat
  <2>1. q.named \in SUBSET Users
    BY <1>1, NodeInTurn
  <2>2. old.candidates \in SUBSET Users /\ old.listed \in Nat
    BY DEF NodeRow
  <2> QED
    BY <2>1, <2>2, Finite
<1>5. new \in NodeRow
  <2>1. old.listed + Cardinality(more) \in Nat
    BY <1>4
  <2> HIDE DEF more
  <2> QED
    BY <1>4, <2>1 DEF NodeRow
<1>6. Listed(new)
  <2>1. IsFiniteSet(old.candidates) /\ IsFiniteSet(more)
        /\ Cardinality(old.candidates) \in Nat
    BY <1>4, Finite
  <2>2. old.candidates \cap more = {} /\ old.candidates \cup more = old.candidates \cup q.named
    OBVIOUS
  <2>3. Cardinality(old.candidates \cup q.named)
           = Cardinality(old.candidates) + Cardinality(more) - Cardinality({})
    BY <2>1, <2>2, FS_Union
  <2>4. Cardinality(old.candidates) <= old.listed
    BY <1>2 DEF Sound, Listed
  <2> HIDE DEF more
  <2>5. new.candidates = old.candidates \cup q.named
        /\ new.listed = old.listed + Cardinality(more)
    BY DEF NodeRow
  <2> QED
    BY <1>4, <2>1, <2>3, <2>4, <2>5, FS_EmptySet DEF Listed
<1>7. Sound(q.inst, q.k, new, {})
  BY <1>2, <1>6 DEF Sound, NodeRow
<1>8. next \in Request
  BY <1>5, Rows DEF Request, Places
<1>9. /\ next.inst = q.inst /\ next.k = q.k /\ next.op = "invite"
      /\ next.row = new /\ next.snap = NoInstance /\ next.plan = q.plan /\ next.at = "node"
  BY <1>1 DEF Request
<1>10. Passed(NoInstance) = {}
  BY Rows DEF Passed
<1> HIDE DEF next, new
<1>11. Flight(next)
  <2>1. AtNode(next)
    BY <1>1, <1>7, <1>9, <1>10, NodeInTurn DEF AtNode, Own
  <2> QED
    BY <1>1, <1>9, <2>1 DEF Flight
<1>12. object' \in ObjectStatuses \cup {"new"} /\ faults' \in 0 .. MaxFaults
  BY <1>3 DEF TypeOK
<1> QED
  BY <1>3, <1>8, <1>11, <1>12, Replace

-----------------------------------------------------------------------------
(* The views.                                                              *)

LEMMA ListsOk ==
    ASSUME NEW mode \in Modes, NEW us \in SUBSET Users, NEW twice \in Nat
    PROVE  /\ Lists(mode, us, twice) \in Asked /\ Listed(Lists(mode, us, twice))
           /\ <<Lists(mode, us, twice)>> \in Seq(Asked) /\ Planned(<<Lists(mode, us, twice)>>)
           /\ NodeIf(mode, us, twice) \in Seq(Asked) /\ Planned(NodeIf(mode, us, twice))
<1>1. Cardinality(us) \in Nat
  BY Finite
<1>2. Lists(mode, us, twice) \in Asked /\ Listed(Lists(mode, us, twice))
  BY <1>1 DEF Lists, Asked, Listed
<1>3. <<Lists(mode, us, twice)>> \in Seq(Asked) /\ Planned(<<Lists(mode, us, twice)>>)
  BY <1>2 DEF Planned
<1>4. <<>> \in Seq(Asked) /\ Planned(<<>>)
  BY DEF Planned
<1> QED
  BY <1>2, <1>3, <1>4 DEF NodeIf

LEMMA PlannedConcat ==
    ASSUME NEW p \in Seq(Asked), NEW s \in Seq(Asked), Planned(p), Planned(s)
    PROVE  p \o s \in Seq(Asked) /\ Planned(p \o s)
<1>1. p \o s \in Seq(Asked) /\ Len(p \o s) = Len(p) + Len(s)
  OBVIOUS
<1>2. ASSUME NEW n \in 1 .. Len(p \o s)
      PROVE  Listed((p \o s)[n])
  <2>1. CASE n <= Len(p)
    <3>1. (p \o s)[n] = p[n] /\ n \in 1 .. Len(p)
      BY <1>1, <2>1
    <3> QED
      BY <3>1 DEF Planned
  <2>2. CASE n > Len(p)
    <3>1. (p \o s)[n] = s[n - Len(p)] /\ n - Len(p) \in 1 .. Len(s)
      BY <1>1, <2>2
    <3> QED
      BY <3>1 DEF Planned
  <2> QED
    BY <1>1, <2>1, <2>2
<1> QED
  BY <1>1, <1>2 DEF Planned

(* Whatever start_approval works from, each entry of its lists counts at   *)
(* least once.                                                             *)
LEMMA PlanOk ==
    ASSUME target \in Targets, NEW o \in Overrides \cup {NoOverride}
    PROVE  Plan(o) \in Seq(Asked) /\ Planned(Plan(o))
<1>1. target \in Target
  BY ApprovalAssumption
<1>2. target.rule \in Seq(Asked) /\ target.custom \in SUBSET Users
  BY <1>1 DEF Target
<1>3. Planned(target.rule)
  <2> SUFFICES ASSUME NEW n \in 1 .. Len(target.rule)
               PROVE  Listed(target.rule[n])
    BY DEF Planned
  <2>1. target.rule[n] \in Asked /\ target.rule[n].listed = Cardinality(target.rule[n].candidates)
    BY <1>2, ApprovalAssumption
  <2> QED
    BY <2>1 DEF Listed, Asked
<1>4. AdminNodes \in Seq(Asked) /\ Planned(AdminNodes)
  BY ApprovalAssumption, ListsOk DEF AdminNodes, Modes
<1>5. o.any \in SUBSET Users /\ o.all \in SUBSET Users /\ o.twice \in Nat
  BY ApprovalAssumption DEF Override, NoOverride
<1>6. CustomNodes(o) \in Seq(Asked) /\ Planned(CustomNodes(o))
  <2> DEFINE any == IF o.any = {} /\ o.all = {} THEN target.custom ELSE o.any
             p == NodeIf("any", any, 0)
             s == NodeIf("all", o.all, o.twice)
  <2>1. any \in SUBSET Users
    BY <1>2, <1>5
  <2> HIDE DEF any
  <2>2. /\ p \in Seq(Asked) /\ Planned(p)
        /\ s \in Seq(Asked) /\ Planned(s)
    BY <1>5, <2>1, ListsOk DEF Modes
  <2>3. CustomNodes(o) = IF p \o s = <<>> THEN AdminNodes ELSE p \o s
    BY DEF CustomNodes, any
  <2> HIDE DEF p, s
  <2> QED
    BY <1>4, <2>2, <2>3, PlannedConcat
<1> QED
  BY <1>2, <1>3, <1>4, <1>6 DEF Plan

(* A request that a view has prepared.                                     *)
Prepared(q) == q \in Request /\ Flight(q)

LEMMA SubmissionOk ==
    ASSUME target \in Targets, NEW u \in Users, NEW o \in Overrides \cup {NoOverride},
           NEW writes \in Seq(ObjectStatuses)
    PROVE  Prepared(Submission(u, o, writes))
<1>1. Plan(o) \in Seq(Asked) /\ Planned(Plan(o))
  BY PlanOk
<1>2. CASE NeedsApproval
  <2> DEFINE q == [Idle EXCEPT !.at = IF writes = <<>> THEN "create" ELSE "view",
                               !.by = u, !.writes = writes, !.starts = TRUE, !.plan = Plan(o)]
  <2>1. q \in Request
    BY <1>1, Rows DEF Request, Places
  <2>2. /\ q.at \in {"view", "create"} /\ Planned(q.plan)
        /\ q.at = "view" => q.writes # <<>>
    BY <1>1, Rows DEF Request
  <2>3. Submission(u, o, writes) = q
    BY <1>2 DEF Submission
  <2> HIDE DEF q
  <2> QED
    BY <2>1, <2>2, <2>3, Resting DEF Prepared
<1>3. CASE ~NeedsApproval
  <2> DEFINE w == Append(writes, "enabled")
             q == [Idle EXCEPT !.at = "view", !.writes = w]
  <2>1. w \in Seq(ObjectStatuses) /\ w # <<>>
    BY DEF ObjectStatuses
  <2>2. Submission(u, o, writes) = q
    BY <1>3 DEF Submission
  <2> HIDE DEF w
  <2>3. q \in Request /\ q.at = "view" /\ q.writes = w /\ q.plan = <<>>
    BY <2>1, Rows DEF Request, Places
  <2> HIDE DEF q
  <2> QED
    BY <2>1, <2>2, <2>3, Resting DEF Prepared, Planned
<1> QED
  BY <1>2, <1>3

LEMMA ChangeOk ==
    ASSUME NEW s \in ObjectStatuses
    PROVE  Prepared(Change(s))
<1>1. <<s>> \in Seq(ObjectStatuses) /\ <<s>> # <<>>
  OBVIOUS
<1>2. /\ Change(s) \in Request /\ Change(s).at = "view" /\ Change(s).writes = <<s>>
      /\ Change(s).plan = <<>>
  BY <1>1, Rows DEF Change, Request, Places
<1>3. Planned(<<>>)
  BY DEF Planned
<1> QED
  BY <1>1, <1>2, <1>3, Resting DEF Prepared

LEMMA ServeStep ==
    ASSUME IInv, NEW r \in Requests, NEW q, Prepared(q), Serve(r, q)
    PROVE  IInv'
<1>1. /\ req' = [req EXCEPT ![r] = q]
      /\ UNCHANGED <<target, instance, nodes, asked, said, overruled, object, faults>>
  BY DEF Serve, data
<1>2. object' \in ObjectStatuses \cup {"new"} /\ faults' \in 0 .. MaxFaults
  BY <1>1 DEF IInv, TypeOK
<1> QED
  BY <1>1, <1>2, Replace DEF Prepared

LEMMA CreateObjectStep ==
    ASSUME IInv, NEW r \in Requests, NEW u \in Users, CreateObject(r, u)
    PROVE  IInv'
<1>1. target \in Targets /\ <<>> \in Seq(ObjectStatuses) /\ <<"pending">> \in Seq(ObjectStatuses)
  BY DEF IInv, TypeOK, ObjectStatuses
<1>2. /\ Prepared(Submission(u, NoOverride, <<>>))
      /\ Prepared(Submission(u, NoOverride, <<"pending">>))
      /\ Prepared(Idle)
  BY <1>1, SubmissionOk, Rows, IdleFlight DEF Prepared
<1>3. PICK q : Prepared(q) /\ req' = [req EXCEPT ![r] = q]
  BY <1>2 DEF CreateObject
<1>4. object' \in ObjectStatuses \cup {"new"} /\ faults' \in 0 .. MaxFaults
  BY DEF CreateObject, IInv, TypeOK, ObjectStatuses
<1> QED
  BY <1>3, <1>4, Replace DEF CreateObject, Prepared

LEMMA ScriptViewSteps ==
    ASSUME IInv, NEW r \in Requests, NEW u \in Users,
           ToggleScript(r, u) \/ Unarchive(r, u) \/ EditScript(r, u) \/ Rollback(r, u)
    PROVE  IInv'
<1> DEFINE sub(writes) == Submission(u, NoOverride, writes)
<1>1. target \in Targets /\ (object # "new" => object \in ObjectStatuses)
      /\ <<"pending">> \in Seq(ObjectStatuses)
  BY DEF IInv, TypeOK, ObjectStatuses
<1>2. Prepared(sub(<<"pending">>))
  BY <1>1, SubmissionOk
<1>3. \A s \in ObjectStatuses : Prepared(Change(s))
  BY ChangeOk
<1>4. Prepared(Enable(u))
  BY <1>2, <1>3 DEF Enable, ObjectStatuses
<1>5. ASSUME NEW s \in ObjectStatuses
      PROVE  Prepared(sub(<<s>>)) /\ Prepared(sub(<<s, s>>))
  <2>1. <<s>> \in Seq(ObjectStatuses) /\ <<s, s>> \in Seq(ObjectStatuses)
    OBVIOUS
  <2> QED
    BY <1>1, <2>1, SubmissionOk
<1> HIDE DEF sub
<1>6. CASE ToggleScript(r, u)
  <2>1. Prepared(Change("disabled"))
    BY <1>3 DEF ObjectStatuses
  <2> QED
    BY <1>4, <1>6, <2>1, ServeStep DEF ToggleScript
<1>7. CASE Unarchive(r, u)
  BY <1>4, <1>7, ServeStep DEF Unarchive
<1>8. CASE EditScript(r, u)
  <2>1. \E s \in ObjectStatuses : Serve(r, sub(<<s>>)) \/ Serve(r, sub(<<s, s>>))
    BY <1>8 DEF EditScript, sub
  <2> QED
    BY <1>5, <2>1, ServeStep
<1>9. CASE Rollback(r, u)
  <2>1. object \in ObjectStatuses /\ Serve(r, sub(<<object>>))
    BY <1>1, <1>9 DEF Rollback, sub
  <2> QED
    BY <1>5, <2>1, ServeStep
<1> QED
  BY <1>6, <1>7, <1>8, <1>9

LEMMA OverruleStep ==
    ASSUME IInv, NEW r \in Requests, NEW s \in ObjectStatuses, Overrule(r, s)
    PROVE  IInv'
<1>1. /\ req' = [req EXCEPT ![r] = Change(s)] /\ overruled' \in BOOLEAN
      /\ UNCHANGED <<target, object, instance, nodes, asked, said, faults>>
  BY DEF Overrule
<1>2. object' \in ObjectStatuses \cup {"new"} /\ faults' \in 0 .. MaxFaults
  BY <1>1 DEF IInv, TypeOK
<1> QED
  BY <1>1, <1>2, ChangeOk, ReplaceAny DEF Prepared

LEMMA PlainViewSteps ==
    ASSUME IInv, NEW r \in Requests,
           Archive(r) \/ ApproveSingle(r) \/ EditObject(r) \/ ToggleWorkflow(r)
    PROVE  IInv'
<1>1. \A s \in ObjectStatuses : Prepared(Change(s))
  BY ChangeOk
<1>2. CASE Archive(r)
  <2>1. Prepared(Change("archived"))
    BY <1>1 DEF ObjectStatuses
  <2> QED
    BY <1>2, <2>1, ServeStep DEF Archive
<1>3. CASE ApproveSingle(r) \/ EditObject(r)
  BY <1>3, OverruleStep DEF ApproveSingle, EditObject, ObjectStatuses
<1>4. CASE ToggleWorkflow(r)
  <2>1. Prepared(Change("enabled")) /\ Prepared(Change("disabled"))
    BY <1>1 DEF ObjectStatuses
  <2> QED
    BY <1>4, <2>1, ServeStep DEF ToggleWorkflow
<1> QED
  BY <1>2, <1>3, <1>4

LEMMA WorkflowViewSteps ==
    ASSUME IInv, NEW r \in Requests, NEW u \in Users, NEW o \in Overrides \cup {NoOverride},
           \/ EditWorkflow(r, u) \/ SubmitApprove(r, u)
           \/ CentreSubmit(r, u) \/ ExecuteAsks(r, u) \/ Publish(r, u, o)
    PROVE  IInv'
<1> DEFINE sub(list, writes) == Submission(u, list, writes)
<1>1. target \in Targets /\ (object # "new" => object \in ObjectStatuses)
      /\ <<"pending">> \in Seq(ObjectStatuses) /\ <<>> \in Seq(ObjectStatuses)
  BY DEF IInv, TypeOK, ObjectStatuses
<1>2. Prepared(sub(o, <<"pending">>)) /\ Prepared(sub(NoOverride, <<>>))
  BY <1>1, SubmissionOk
<1>3. Prepared(Change("enabled"))
  BY ChangeOk DEF ObjectStatuses
<1>4. ASSUME NEW s \in ObjectStatuses
      PROVE  Prepared(sub(NoOverride, <<s, "pending">>))
  <2>1. <<s, "pending">> \in Seq(ObjectStatuses)
    BY DEF ObjectStatuses
  <2> QED
    BY <1>1, <2>1, SubmissionOk
<1> HIDE DEF sub
<1>6. CASE EditWorkflow(r, u)
  <2>1. \E s \in ObjectStatuses : Serve(r, sub(NoOverride, <<s, "pending">>))
    BY <1>6 DEF EditWorkflow, sub
  <2> QED
    BY <1>4, <2>1, ServeStep
<1>7. CASE SubmitApprove(r, u)
  <2>1. PICK q \in Request : q = sub(NoOverride, <<>>) /\ Flight(q)
    BY <1>2 DEF Prepared
  <2> DEFINE twice == [q EXCEPT !.again = TRUE]
             after == [q EXCEPT !.writes = Append(@, "pending")]
  <2>2. Serve(r, IF NeedsApproval THEN twice ELSE after)
    BY <1>7, <2>1 DEF SubmitApprove, sub
  <2>3. q.at \in {"view", "create"} /\ (q.at = "create" => q.starts)
    BY <2>1, Rows DEF sub, Submission, Request
  <2>4. /\ twice \in Request /\ twice.at = q.at /\ twice.plan = q.plan /\ twice.writes = q.writes
    BY <2>1 DEF Request
  <2>5. Append(q.writes, "pending") \in Seq(ObjectStatuses) /\ Append(q.writes, "pending") # <<>>
    <3>1. q.writes \in Seq(ObjectStatuses) /\ "pending" \in ObjectStatuses
      BY <2>1 DEF Request, ObjectStatuses
    <3> QED
      BY <3>1
  <2>6. /\ after \in Request /\ after.at = q.at /\ after.plan = q.plan
        /\ after.writes = Append(q.writes, "pending")
    BY <2>1, <2>5 DEF Request
  <2> HIDE DEF twice, after
  <2>7. Planned(q.plan) /\ (q.at = "view" => q.writes # <<>>)
    BY <2>1 DEF Flight
  <2>8. Prepared(twice)
    BY <2>3, <2>4, <2>7, Resting DEF Prepared
  <2>9. Prepared(after)
    BY <2>3, <2>5, <2>6, <2>7, Resting DEF Prepared
  <2> QED
    BY <2>2, <2>8, <2>9, ServeStep
<1>8. CASE CentreSubmit(r, u)
  BY <1>2, <1>8, ServeStep DEF CentreSubmit, sub
<1>9. CASE ExecuteAsks(r, u)
  BY <1>2, <1>9, ServeStep DEF ExecuteAsks, sub
<1>10. CASE Publish(r, u, o)
  BY <1>2, <1>3, <1>10, ServeStep DEF Publish, sub
<1> QED
  BY <1>6, <1>7, <1>8, <1>9, <1>10

-----------------------------------------------------------------------------
(* The writes of a view and of start_approval.                             *)

LEMMA LongTail ==
    ASSUME NEW S, NEW s \in Seq(S), Len(s) > 1
    PROVE  Tail(s) # <<>>
<1>1. Tail(s) \in Seq(S) /\ Len(Tail(s)) = Len(s) - 1
  OBVIOUS
<1>2. Len(Tail(s)) # 0
  BY <1>1
<1> QED
  BY <1>1, <1>2, EmptySeq

LEMMA WriteObjectStep ==
    ASSUME IInv, NEW r \in Requests, WriteObject(r)
    PROVE  IInv'
<1>1. PICK q \in Request : /\ q = req[r] /\ q.at = "view" /\ q.writes # <<>> /\ Planned(q.plan)
  BY DEF WriteObject, IInv, TypeOK, InFlight, Flight
<1>2. q.writes \in Seq(ObjectStatuses)
  BY DEF Request
<1> DEFINE more == [q EXCEPT !.writes = Tail(@)]
           done == [q EXCEPT !.at = "create", !.writes = <<>>]
<1>3. /\ req' = [req EXCEPT ![r] = IF Len(q.writes) > 1 THEN more
                                   ELSE IF q.starts THEN done ELSE Idle]
      /\ UNCHANGED <<target, instance, nodes, asked, said, overruled, faults>>
      /\ object' = Head(q.writes)
  BY <1>1 DEF WriteObject
<1>4. object' \in ObjectStatuses \cup {"new"} /\ faults' \in 0 .. MaxFaults
  BY <1>1, <1>2, <1>3 DEF IInv, TypeOK
<1>5. ASSUME Len(q.writes) > 1
      PROVE  Prepared(more)
  <2>1. Tail(q.writes) \in Seq(ObjectStatuses) /\ Tail(q.writes) # <<>>
    BY <1>2, <1>5
  <2>2. /\ more \in Request /\ more.at = "view" /\ more.plan = q.plan
        /\ more.writes = Tail(q.writes)
    BY <1>1, <2>1 DEF Request
  <2> HIDE DEF more
  <2>3. more.writes # <<>> /\ Planned(more.plan)
    BY <1>1, <2>1, <2>2
  <2>4. Flight(more)
    BY <2>2, <2>3 DEF Flight
  <2> QED
    BY <2>2, <2>4 DEF Prepared
<1>6. Prepared(done)
  <2>1. <<>> \in Seq(ObjectStatuses)
    OBVIOUS
  <2>2. done \in Request /\ done.at = "create" /\ done.plan = q.plan
    BY <2>1 DEF Request, Places
  <2> HIDE DEF done
  <2> QED
    BY <1>1, <2>2, Resting DEF Prepared
<1>7. Prepared(Idle)
  BY Rows, IdleFlight DEF Prepared
<1> HIDE DEF more, done
<1>8. PICK next : Prepared(next) /\ req' = [req EXCEPT ![r] = next]
  BY <1>3, <1>5, <1>6, <1>7
<1> QED
  BY <1>3, <1>4, <1>8, Replace DEF Prepared

LEMMA WritePendingStep ==
    ASSUME IInv, NEW r \in Requests, WritePending(r)
    PROVE  IInv'
<1>1. PICK q \in Request : q = req[r] /\ q.at = "last" /\ Planned(q.plan)
  BY DEF WritePending, IInv, TypeOK, InFlight, Flight
<1> DEFINE once == [q EXCEPT !.again = FALSE]
<1>2. /\ req' = [req EXCEPT ![r] = IF q.again THEN once ELSE Idle]
      /\ UNCHANGED <<target, instance, nodes, asked, said, overruled, faults>>
      /\ object' = "pending"
  BY <1>1 DEF WritePending, IInv, TypeOK
<1>3. object' \in ObjectStatuses \cup {"new"} /\ faults' \in 0 .. MaxFaults
  BY <1>2 DEF IInv, TypeOK, ObjectStatuses
<1>4. once \in Request /\ once.at = "last" /\ once.plan = q.plan
  BY <1>1 DEF Request
<1> HIDE DEF once
<1>5. Prepared(once) /\ Prepared(Idle)
  BY <1>1, <1>4, Resting, Rows, IdleFlight DEF Prepared
<1> QED
  BY <1>2, <1>3, <1>5, Replace DEF Prepared

(* A new row has passed no node.                                           *)
LEMMA CreateInstanceStep ==
    ASSUME IInv, NEW r \in Requests, CreateInstance(r)
    PROVE  IInv'
<1> USE DEF IInv
<1>1. PICK q \in Request : q = req[r] /\ q.at = "create" /\ Planned(q.plan)
  BY DEF CreateInstance, TypeOK, InFlight, Flight
<1>2. PICK new \in Instances : new = CHOOSE i \in Instances : instance[i].status = "none"
  BY DEF CreateInstance
<1> DEFINE next == [q EXCEPT !.at = IF q.plan = <<>> THEN "last" ELSE "insert",
                             !.inst = new, !.starts = FALSE]
<1>3. /\ instance' = [instance EXCEPT ![new] = NewInstance(q.by)]
      /\ req' = [req EXCEPT ![r] = next]
      /\ UNCHANGED <<target, object, nodes, asked, said, overruled, faults>>
  BY <1>1, <1>2 DEF CreateInstance
<1>4. /\ NewInstance(q.by) \in InstanceRow /\ Passed(NewInstance(q.by)) = {}
  BY DEF NewInstance, InstanceRow, Request, Passed
<1>5. /\ next \in Request /\ next.inst = new /\ next.plan = q.plan
      /\ next.at = IF q.plan = <<>> THEN "last" ELSE "insert"
  <2>1. new \in 0 .. MaxInstances
    BY ApprovalAssumption DEF Instances
  <2> QED
    BY <2>1 DEF Request, Places
<1> HIDE DEF next
<1>6. TypeOK'
  BY <1>3, <1>4, <1>5 DEF TypeOK
<1>7. Grows
  BY <1>3, <1>6, GrowsIf
<1>8. NodeRows'
  BY <1>3 DEF NodeRows, Sound
<1>9. Mandate'
  <2>1. \A i \in Instances : \A k \in Passed(instance'[i]) : Mandated(i, k)
    BY <1>3, <1>4 DEF Mandate, TypeOK
  <2> QED
    BY <1>3, <2>1 DEF Mandate, Mandated, Passed
<1>10. Flight(next)'
  BY <1>1, <1>5 DEF Flight, Planned
<1>11. InFlight'
  BY <1>3, <1>5, <1>7, <1>10, OthersInFlight
<1> QED
  BY <1>6, <1>8, <1>9, <1>11

LEMMA InsertNodeStep ==
    ASSUME IInv, NEW r \in Requests, InsertNode(r)
    PROVE  IInv'
<1> USE DEF IInv
<1>1. PICK q \in Request : /\ q = req[r] /\ q.at = "insert" /\ Planned(q.plan)
                           /\ q.inst \in Instances /\ q.plan # <<>>
  BY DEF InsertNode, TypeOK, InFlight, Flight
<1>2. q.plan \in Seq(Asked)
  BY DEF Request
<1>3. PICK a \in Asked : a = Head(q.plan) /\ Listed(a)
  BY <1>1, <1>2 DEF Planned
<1>4. NewRow(a) \in NodeRow
  BY DEF NewRow, NodeRow, Asked
<1> DEFINE next == [q EXCEPT !.at = IF Len(q.plan) > 1 THEN "insert" ELSE "last",
                             !.plan = Tail(@)]
<1>5. /\ nodes' = [nodes EXCEPT ![q.inst] = Append(@, NewRow(a))]
      /\ asked' = [asked EXCEPT ![q.inst] = Append(@, a)]
      /\ req' = [req EXCEPT ![r] = next]
      /\ UNCHANGED <<target, object, instance, said, overruled, faults>>
  BY <1>1, <1>3 DEF InsertNode
<1>6. /\ Tail(q.plan) \in Seq(Asked) /\ Planned(Tail(q.plan))
      /\ Len(q.plan) > 1 => Tail(q.plan) # <<>>
  <2>1. Tail(q.plan) \in Seq(Asked) /\ Len(Tail(q.plan)) = Len(q.plan) - 1 /\ Len(q.plan) \in Nat
    BY <1>1, <1>2
  <2>2. \A n \in 1 .. Len(Tail(q.plan)) : Tail(q.plan)[n] = q.plan[n + 1] /\ n + 1 \in 1 .. Len(q.plan)
    BY <1>1, <1>2, <2>1
  <2>3. Planned(Tail(q.plan))
    BY <1>1, <2>2 DEF Planned
  <2>4. ASSUME Len(q.plan) > 1
        PROVE  Tail(q.plan) # <<>>
    BY <1>2, <2>4, LongTail
  <2> QED
    BY <2>1, <2>3, <2>4
<1>7. /\ next \in Request /\ next.inst = q.inst /\ next.plan = Tail(q.plan)
      /\ next.at = IF Len(q.plan) > 1 THEN "insert" ELSE "last"
  BY <1>6 DEF Request, Places
<1> HIDE DEF next
<1>8. TypeOK'
  BY <1>1, <1>4, <1>5, <1>7 DEF TypeOK
<1>9. Grows
  BY <1>1, <1>4, <1>5, <1>8, GrowsIf
<1>10. NodeRows'
  <2> SUFFICES ASSUME NEW i \in Instances
               PROVE  /\ Len(nodes'[i]) = Len(asked'[i])
                      /\ \A k \in 1 .. Len(nodes'[i]) : Sound(i, k, nodes[i][k], {})'
    BY DEF NodeRows
  <2>1. Len(nodes'[i]) = Len(asked'[i])
    BY <1>1, <1>5 DEF NodeRows, TypeOK
  <2>2. ASSUME NEW k \in 1 .. Len(nodes'[i])
        PROVE  Sound(i, k, nodes[i][k], {})'
    <3>1. CASE k \in 1 .. Len(nodes[i])
      <4>1. nodes'[i][k] = nodes[i][k] /\ asked'[i][k] = asked[i][k]
        BY <1>1, <1>4, <1>5, <3>1 DEF TypeOK, NodeRows
      <4>2. Sound(i, k, nodes[i][k], {})
        BY <3>1 DEF NodeRows
      <4> QED
        BY <1>5, <4>1, <4>2 DEF Sound
    <3>2. CASE k \notin 1 .. Len(nodes[i])
      <4>1. nodes'[i][k] = NewRow(a) /\ asked'[i][k] = a
        BY <1>1, <1>4, <1>5, <3>2 DEF TypeOK, NodeRows
      <4> QED
        BY <1>3, <4>1, FS_EmptySet DEF Sound, NewRow, Listed
    <3> QED
      BY <3>1, <3>2
  <2> QED
    BY <2>1, <2>2
<1>11. Mandate'
  BY <1>5, <1>9, StillMandated DEF Mandate, Passed
<1>12. Flight(next)'
  BY <1>1, <1>6, <1>7 DEF Flight, Planned
<1>13. InFlight'
  BY <1>5, <1>7, <1>9, <1>12, OthersInFlight
<1> QED
  BY <1>8, <1>10, <1>11, <1>13

-----------------------------------------------------------------------------
(* The theorems.                                                           *)

LEMMA Start == Init => IInv
<1> SUFFICES ASSUME Init
             PROVE  IInv
  OBVIOUS
<1>1. TypeOK
  <2>1. overruled \in BOOLEAN
    BY DEF Init
  <2>2. faults \in 0 .. MaxFaults
    BY ApprovalAssumption DEF Init
  <2> QED
    BY <2>1, <2>2, Rows DEF Init, TypeOK
<1>2. NodeRows
  BY DEF Init, NodeRows
<1>3. Mandate
  BY Rows DEF Init, Mandate, Passed
<1>4. InFlight
  BY IdleFlight DEF Init, InFlight
<1> QED
  BY <1>1, <1>2, <1>3, <1>4 DEF IInv

LEMMA EngineSteps ==
    ASSUME IInv, NEW r \in Requests, EngineStep(r)
    PROVE  IInv'
<1>1. CASE \E u \in Users, i \in Instances :
              \/ AskApprove(r, u, i) \/ AskReject(r, u, i)
              \/ \E v \in Users : AskDelegate(r, u, i, v)
              \/ \E vs \in SUBSET Users : AskAddSign(r, u, i, vs)
  <2>1. PICK u \in Users, i \in Instances, op \in {"approve", "reject", "invite"},
             named \in SUBSET Users : Arrive(r, op, u, named, i)
    BY <1>1 DEF AskApprove, AskReject, AskDelegate, AskAddSign
  <2> QED
    BY <2>1, ArriveStep
<1>2. CASE \E u \in Users, i \in Instances : AskCancel(r, u, i)
  BY <1>2, AskCancelStep
<1> QED
  BY <1>1, <1>2, RaiseStep, ApproveStep, RejectStep, InviteStep, SaveNodeStep,
     SaveInstanceStep, SaveObjectStep DEF EngineStep

LEMMA ViewSteps ==
    ASSUME IInv, NEW r \in Requests, ViewStep(r)
    PROVE  IInv'
<1>1. CASE \E u \in Users :
              \/ CreateObject(r, u)
              \/ ToggleScript(r, u) \/ Unarchive(r, u) \/ EditScript(r, u) \/ Rollback(r, u)
  BY <1>1, CreateObjectStep, ScriptViewSteps
<1>2. CASE \E u \in Users :
              \/ EditWorkflow(r, u) \/ SubmitApprove(r, u) \/ CentreSubmit(r, u)
              \/ ExecuteAsks(r, u)
  BY <1>2, WorkflowViewSteps
<1>3. CASE \E u \in Users : \E o \in Overrides \cup {NoOverride} : Publish(r, u, o)
  BY <1>3, WorkflowViewSteps
<1> QED
  BY <1>1, <1>2, <1>3, PlainViewSteps, WriteObjectStep, CreateInstanceStep, InsertNodeStep,
     WritePendingStep DEF ViewStep

(* Soundness of every version of a row, in the tables and in flight, is    *)
(* kept by every step.                                                     *)
THEOREM Invariance == Spec => []IInv
<1>1. ASSUME IInv, [Next]_vars
      PROVE  IInv'
  <2>1. CASE Next
    BY <1>1, <2>1, EngineSteps, ViewSteps, DieStep DEF Next
  <2>2. CASE UNCHANGED vars
    <3>1. UNCHANGED <<target, object, instance, nodes, req, faults, asked, said, overruled>>
      BY <2>2 DEF vars
    <3>2. TypeOK' /\ NodeRows' /\ Mandate'
      BY <1>1, <3>1 DEF IInv, TypeOK, NodeRows, Sound, Mandate, Mandated
    <3>3. InFlight'
      <4> SUFFICES ASSUME NEW x \in Requests
                   PROVE  Flight(req[x])'
        BY DEF InFlight
      <4>1. Flight(req[x])
        BY <1>1 DEF IInv, InFlight
      <4> QED
        BY <3>1, <4>1 DEF Flight, AtNodes, AtNode, Backed, Mandated, Sound
    <3> QED
      BY <3>2, <3>3 DEF IInv
  <2> QED
    BY <1>1, <2>1, <2>2
<1> QED
  BY <1>1, Start, PTL DEF Spec

(* Every row and every request keeps its type.                             *)
THEOREM TypeCorrect == Spec => []TypeOK
<1>1. IInv => TypeOK
  BY DEF IInv
<1> QED
  BY <1>1, Invariance, PTL

(* An instance passes a node, in script_approval_engine.approve and        *)
(* workflow_approval_engine.approve, only on the saved approval of someone *)
(* and, in mode "all", of everyone the node was created to ask; for any    *)
(* users, rules, approver lists and number of requests at once, and        *)
(* wherever requests die.                                                  *)
THEOREM MandateHolds == Spec => []Mandate
<1>1. IInv => Mandate
  BY DEF IInv
<1> QED
  BY <1>1, Invariance, PTL

=============================================================================
