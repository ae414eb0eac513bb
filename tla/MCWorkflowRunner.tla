-------------------------- MODULE MCWorkflowRunner --------------------------
(***************************************************************************)
(* Small DAGs and configurations of WorkflowRunner for TLC.                *)
(***************************************************************************)
EXTENDS WorkflowRunner, TLC

CONSTANTS s, a, b, c, e, h1, h2, noHost, daemon, caller

Edge(x, y, k) == [from |-> x, to |-> y, cond |-> k]
NoHosts(N) == [n \in N |-> {noHost}]
Unset(N) == [n \in N |-> "unset"]
Zero(N) == [n \in N |-> 0]
AnyOutcome(N) == [n \in N |-> {"async", "ok", "bad", "reject"}]
AsyncOnly(N) == [n \in N |-> {"async"}]

(* Branch: a on two hosts; b after its success, c after its failure.       *)
BranchNodes == {s, a, b, c, e}
BranchType == s :> "start" @@ a :> "unit" @@ b :> "unit" @@ c :> "unit" @@ e :> "end"
BranchEdges == {Edge(s, a, ""), Edge(a, b, "SUCCESS"), Edge(a, c, "FAILED"),
                Edge(b, e, ""), Edge(c, e, "")}
BranchHosts == [NoHosts(BranchNodes) EXCEPT ![a] = {h1, h2}]
BranchUnset == Unset(BranchNodes)
BranchZero == Zero(BranchNodes)
BranchAny == AnyOutcome(BranchNodes)

(* The same on one host.                                                   *)
OneHost == NoHosts(BranchNodes)
UserOutcomes == [n \in BranchNodes |-> IF n = a THEN {"async", "unreachable"} ELSE {"async", "reject"}]
FaultOutcomes == [n \in BranchNodes |-> IF n = a THEN {"async", "unreachable"} ELSE {"async", "raise"}]
OneHostAsync == AsyncOnly(BranchNodes)
RetryA == [BranchZero EXCEPT ![a] = 2]
ApprovalA == [BranchType EXCEPT ![a] = "approval"]

(* Two branches that do not wait for each other: b after a's success, e    *)
(* after c's failure.                                                      *)
ForkNodes == {s, a, b, c, e}
ForkType == s :> "start" @@ a :> "unit" @@ b :> "unit" @@ c :> "unit" @@ e :> "unit"
ForkEdges == {Edge(s, a, ""), Edge(s, c, ""), Edge(a, b, ""), Edge(c, e, "FAILED")}
ForkOutcomes == [n \in ForkNodes |-> IF n \in {a, c} THEN {"async"} ELSE IF n = b THEN {"ok", "raise"} ELSE {"ok"}]

(* A loop a of two items, and b after it.                                  *)
LoopNodes == {s, a, b, e}
LoopType == s :> "start" @@ a :> "loop" @@ b :> "unit" @@ e :> "end"
LoopEdges == {Edge(s, a, ""), Edge(a, b, ""), Edge(b, e, "")}
LoopHosts == NoHosts(LoopNodes)
LoopUnset == Unset(LoopNodes)
LoopZero == Zero(LoopNodes)
LoopTwo == [LoopZero EXCEPT ![a] = 2]
LoopOutcomes == [n \in LoopNodes |-> IF n = a THEN {"ok", "async", "bad"} ELSE {"async", "bad"}]

(* A loop and nothing after it.                                            *)
LastLoopNodes == {s, a, e}
LastLoopType == s :> "start" @@ a :> "loop" @@ e :> "end"
LastLoopEdges == {Edge(s, a, ""), Edge(a, e, "")}
LastLoopHosts == NoHosts(LastLoopNodes)
LastLoopUnset == Unset(LastLoopNodes)
LastLoopZero == Zero(LastLoopNodes)
LastLoopTwo == [LastLoopZero EXCEPT ![a] = 2]
LastLoopOutcomes == [n \in LastLoopNodes |-> {"ok", "async"}]

(* A chain: a on two hosts, then b.                                        *)
ChainNodes == {s, a, b, e}
ChainEdges == {Edge(s, a, ""), Edge(a, b, ""), Edge(b, e, "")}
ChainType == s :> "start" @@ a :> "unit" @@ b :> "unit" @@ e :> "end"
ChainHosts == [NoHosts(ChainNodes) EXCEPT ![a] = {h1, h2}]
ChainOutcomes == [n \in ChainNodes |-> {"async"}]
=============================================================================
