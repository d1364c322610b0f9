----------------------------- MODULE StoreRules -----------------------------
(***************************************************************************)
(* The per-operation rules of the server's sync store                      *)
(* (apps/server/src/services/sync-store.ts): when a pushed operation is    *)
(* applied, which version the stored entity gets, what is written to       *)
(* sync_entities and to sync_feed, and what the client is told.            *)
(*                                                                         *)
(* An operation is a record with the fields ent, kind, base, ver, val, del *)
(* and valid.  The payload is opaque to the server, so val is any value;   *)
(* del is the payload's own `deleted` column.  valid stands for the        *)
(* verdict of validateOperation.                                           *)
(***************************************************************************)
EXTENDS Naturals, Sequences

CONSTANT NoRow        \* "the SELECT found no row" for an entity

MaxOf(a, b) == IF a >= b THEN a ELSE b

(* `deleted` is derived from the operation type or from the payload. *)
DeletedFlag(op) == op.kind = "delete" \/ op.del

-----------------------------------------------------------------------------
(* Mutated forms used to show that the checks notice these mistakes. *)

AcceptsOnlyKnown(row, op) == row = NoRow \/ op.base + 1 >= row.ver
VersionFromClient(row, op) == op.ver
-----------------------------------------------------------------------------

(* First push of an entity, or a fast-forward of the stored version.  *)
Accepts(row, op) == row = NoRow \/ op.base >= row.ver

(* Math.max(1, version) for a new entity, otherwise at least one more  *)
(* than the stored version.                                            *)
StoredVersion(row, op) ==
    IF row = NoRow THEN MaxOf(1, op.ver) ELSE MaxOf(op.ver, row.ver + 1)

(* base_version of the feed row: the client's for a new entity, the    *)
(* version it replaced otherwise.                                      *)
FeedBase(row, op) == IF row = NoRow THEN op.base ELSE row.ver

EntityRow(row, op, dev) ==
    [ver |-> StoredVersion(row, op), val |-> op.val,
     del |-> DeletedFlag(op), dev |-> dev]

FeedRow(row, op, dev) ==
    [ent |-> op.ent, ver |-> StoredVersion(row, op), base |-> FeedBase(row, op),
     val |-> op.val, del |-> DeletedFlag(op), dev |-> dev]

(* The ack of one operation against the row the SELECT returned. *)
AckStatus(row, op) ==
    IF ~op.valid THEN "rejected"
    ELSE IF Accepts(row, op) THEN "applied" ELSE "conflict"
=============================================================================
