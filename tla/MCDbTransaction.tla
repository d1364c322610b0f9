--------------------------- MODULE MCDbTransaction ---------------------------
(* Small instances of DbTransaction and of ByteSnapshot for TLC: a         *)
(* behaviour is one of one of them, the variables of the other stay put.   *)
EXTENDS DbTransaction, ByteSnapshot

CONSTANTS outer, inner, last, apart, Parts

VARIABLE part

(* inner and last are made by the fn of outer; apart is a call of its own. *)
ParentOf == [c \in Caller |-> IF c \in {inner, last} THEN outer ELSE c]

MCInit == part \in Parts /\ Init /\ SnapshotInit

MCNext ==
    /\ UNCHANGED part
    /\ \/ part = "transactions" /\ Next /\ UNCHANGED snapVars
       \/ part = "bytes" /\ SnapshotNext /\ UNCHANGED vars

MCSpec == MCInit /\ [][MCNext]_<<part, vars, snapVars>>

(* Transactions in the open database, and the copies made of it and put in *)
(* its place (driver.ts, db.rs).                                           *)
StorageIsSound == TransactionsAreSound /\ SnapshotsAreSound
=============================================================================
