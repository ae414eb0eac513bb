-------------------------- MODULE ApprovalDecision --------------------------
(***************************************************************************)
(* What an approval engine promises: an approval has stages, each with the *)
(* users it asks; users vote on a stage once those before it are complete; *)
(* it is decided once, and granted only when every stage is complete.      *)
(***************************************************************************)
EXTENDS Naturals, Sequences

CONSTANTS Users, Approvals

VARIABLES
    decision,   \* "none", "open", "granted", "refused" or "withdrawn"
    stages,     \* the stages of each approval: [all : BOOLEAN, asks : users]
    votes       \* the users in favour, stage by stage

vars == <<decision, stages, votes>>

Stage == [all : BOOLEAN, asks : SUBSET Users]

Init ==
    /\ decision = [a \in Approvals |-> "none"]
    /\ stages = [a \in Approvals |-> <<>>]
    /\ votes = [a \in Approvals |-> <<>>]

Complete(a, k) ==
    /\ votes[a][k] # {}
    /\ stages[a][k].all => stages[a][k].asks \subseteq votes[a][k]

(* The stages whose turn has come.                                         *)
Reached(a) ==
    {k \in 1 .. Len(stages[a]) : \A j \in 1 .. k - 1 : Complete(a, j)}

Ask(a) ==
    /\ decision[a] = "none"
    /\ decision' = [decision EXCEPT ![a] = "open"]
    /\ UNCHANGED <<stages, votes>>

(* Stages are laid down before anybody has voted.                          *)
AddStage(a, s) ==
    /\ decision[a] = "open"
    /\ \A k \in 1 .. Len(votes[a]) : votes[a][k] = {}
    /\ stages' = [stages EXCEPT ![a] = Append(@, s)]
    /\ votes' = [votes EXCEPT ![a] = Append(@, {})]
    /\ UNCHANGED decision

Invite(a, k, us) ==
    /\ decision[a] = "open" /\ k \in Reached(a)
    /\ stages' = [stages EXCEPT ![a][k].asks = @ \cup us]
    /\ UNCHANGED <<decision, votes>>

(* Nobody votes twice on a stage.                                          *)
Vote(a, k, u) ==
    /\ decision[a] = "open" /\ k \in Reached(a)
    /\ u \in stages[a][k].asks \ votes[a][k]
    /\ votes' = [votes EXCEPT ![a][k] = @ \cup {u}]
    /\ UNCHANGED <<decision, stages>>

Grant(a) ==
    /\ decision[a] = "open"
    /\ stages[a] # <<>>
    /\ \A k \in 1 .. Len(stages[a]) : Complete(a, k)
    /\ decision' = [decision EXCEPT ![a] = "granted"]
    /\ UNCHANGED <<stages, votes>>

Refuse(a) ==
    /\ decision[a] = "open"
    /\ \E k \in Reached(a) : stages[a][k].asks # {}
    /\ decision' = [decision EXCEPT ![a] = "refused"]
    /\ UNCHANGED <<stages, votes>>

Withdraw(a) ==
    /\ decision[a] = "open"
    /\ decision' = [decision EXCEPT ![a] = "withdrawn"]
    /\ UNCHANGED <<stages, votes>>

Next ==
    \E a \in Approvals :
        \/ Ask(a) \/ Grant(a) \/ Refuse(a) \/ Withdraw(a)
        \/ \E s \in Stage : AddStage(a, s)
        \/ \E k \in Reached(a) :
              \/ \E us \in SUBSET Users : Invite(a, k, us)
              \/ \E u \in Users : Vote(a, k, u)

Spec == Init /\ [][Next]_vars

=============================================================================
