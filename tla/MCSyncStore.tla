---------------------------- MODULE MCSyncStore ----------------------------
(* A small instance of SyncStore for TLC. *)
EXTENDS SyncStore

CONSTANTS phone, desktop, task, payload

MCDevice == {phone, desktop}
MCEntity == {task}
MCValue == {payload}

(* Creates, updates (also of the `deleted` column) and deletes with every  *)
(* version up to the bound, and one malformed operation.                   *)
MCSent ==
    {op \in Operation :
        /\ op.del => op.kind = "update" /\ op.base # op.ver
        /\ ~op.valid => op.kind = "create"}
=============================================================================
