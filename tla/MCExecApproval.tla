--------------------------- MODULE MCExecApproval ---------------------------
(***************************************************************************)
(* Orders of ExecApproval for TLC.                                         *)
(***************************************************************************)
EXTENDS ExecApproval

CONSTANTS u1, u2

Asks(source, type, mode, users) ==
    [source |-> source, type |-> type, mode |-> mode, candidates |-> users, submitter |-> u1]

CommandOrder == Asks("row", "command", "any", {u1, u2})
CountersignOrder == Asks("bare", "script", "all", {u1, u2})
InvitingOrder == Asks("row", "command", "all", {u1})

ExecOrders == {CommandOrder, CountersignOrder, InvitingOrder,
               Asks("node", "script", "any", {u1}),
               Asks("node", "script", "all", {})}

InvitingOrders == {CountersignOrder, InvitingOrder}
CommandOrders == {CommandOrder}

=============================================================================
