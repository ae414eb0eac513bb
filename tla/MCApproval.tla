----------------------------- MODULE MCApproval -----------------------------
(***************************************************************************)
(* Scripts and workflows of Approval for TLC.                              *)
(***************************************************************************)
EXTENDS Approval, TLC

CONSTANTS u1, u2

Node(mode, users) == [mode |-> mode, candidates |-> users, listed |-> Cardinality(users)]

Unruled(kind) ==
    [kind |-> kind, matched |-> FALSE, rule |-> <<>>, public |-> FALSE, audit |-> FALSE,
     custom |-> {}]
Ruled(kind, rule) == [Unruled(kind) EXCEPT !.matched = TRUE, !.rule = rule]

TwoLevels == <<Node("any", {u1}), Node("all", {u1, u2})>>
OneLevel == <<Node("all", {u1, u2})>>

(* Requests are interchangeable.                                            *)
Servers == Permutations(Requests)

ApprovalTargets == {
    Unruled("script"),
    [Unruled("script") EXCEPT !.public = TRUE, !.audit = TRUE],
    [Ruled("script", OneLevel) EXCEPT !.public = TRUE],
    Ruled("script", TwoLevels),
    Ruled("script", <<>>),
    Ruled("workflow", <<Node("first", {u1, u2}), Node("all", {u1, u2})>>),
    [Unruled("workflow") EXCEPT !.audit = TRUE, !.custom = {u1}],
    Unruled("workflow")}

(* What clients send with publish: both lists, and one with an id twice.   *)
SentLists == {[given |-> TRUE, any |-> {u2}, all |-> {u1, u2}, twice |-> 0],
              [given |-> TRUE, any |-> {}, all |-> {u1}, twice |-> 1]}

RaceTargets == {Ruled("script", TwoLevels)}

=============================================================================
