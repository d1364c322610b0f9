---------------------------- MODULE ByteSnapshot ----------------------------
(***************************************************************************)
(* The snapshot and the restore of the database as bytes, in the four       *)
(* drivers: the Rust commands of the Windows shell and TauriSqlDriver,      *)
(* NodeSqlDriver, WasmSqlDriver and CapacitorSqlDriver, each with the file  *)
(* it owns, while the app goes on writing.                                  *)
(*                                                                         *)
(*   handle   what isOpen says                                             *)
(*   conn     there is a connection                                        *)
(*   file     the main file (with wasm: the image in IndexedDB)            *)
(*   over     the commits that are not in it: the WAL, with wasm the memory *)
(*   aside    the .pre-restore copy                                        *)
(*   txn      the transaction of the app, for JavaScript and for SQLite    *)
(*   shots    the snapshots taken, and whether one was behind its time      *)
(*   job      the restore that runs                                        *)
(*                                                                         *)
(* A content is the set of the rows committed; a transaction writes two.   *)
(***************************************************************************)
EXTENDS Integers, Sequences, FiniteSets

CONSTANTS
    Drivers,       \* of "tauri", "node", "wasm" and "capacitor"
    MaxTxns,       \* bound: transactions
    MaxSnapshots,  \* bound
    MaxRestores,   \* bound
    MaxFileFaults, \* bound: writes of a file that fail
    MaxKills       \* bound: processes that die

ASSUME SnapshotAssumption ==
    /\ Drivers \subseteq {"tauri", "node", "wasm", "capacitor"}
    /\ {MaxTxns, MaxSnapshots, MaxRestores, MaxFileFaults, MaxKills} \subseteq Nat

VARIABLES drv, handle, conn, file, over, aside, txn, ended, cut, shots, job, reached, restores, kills, fileFaults

snapVars == <<drv, handle, conn, file, over, aside, txn, ended, cut, shots, job, reached, restores, kills, fileFaults>>

Torn == [kind |-> "torn"]
Gone == [kind |-> "gone"]
RowFile(s) == [kind |-> "rows", rows |-> s]
Nothing == [kind |-> "none"]
NoTxn == [n |-> 0, step |-> 0, open |-> FALSE, rows |-> {}]
NoRestore == [pc |-> "idle"]

Content == IF over = Nothing THEN file ELSE over
Usable == handle /\ conn /\ Content.kind = "rows"

SnapshotInit ==
    /\ drv \in Drivers
    /\ handle = FALSE /\ conn = FALSE /\ file = Gone /\ over = Nothing /\ aside = Nothing
    /\ txn = NoTxn /\ ended = <<>> /\ cut = {} /\ shots = {} /\ job = NoRestore /\ reached = {{}}
    /\ restores = 0 /\ kills = 0 /\ fileFaults = 0

(* A file that is not there is made: an empty database. *)
OpenDb ==
    /\ ~handle /\ job = NoRestore
    /\ handle' = TRUE /\ conn' = TRUE
    /\ file' = IF file = Gone THEN RowFile({}) ELSE file
    /\ UNCHANGED <<drv, over, aside, txn, ended, cut, shots, job, reached, restores, kills, fileFaults>>

(* Closing the last connection writes the WAL back; wasm saves its image. *)
CloseDb ==
    /\ handle /\ conn /\ job = NoRestore /\ txn = NoTxn
    /\ handle' = FALSE /\ conn' = FALSE /\ file' = Content /\ over' = Nothing
    /\ UNCHANGED <<drv, aside, txn, ended, cut, shots, job, reached, restores, kills, fileFaults>>

BeginTxn ==
    /\ Usable /\ txn = NoTxn /\ Len(ended) < MaxTxns
    /\ drv = "wasm" => job = NoRestore
    /\ txn' = [n |-> Len(ended) + 1, step |-> 0, open |-> TRUE, rows |-> {}]
    /\ UNCHANGED <<drv, handle, conn, file, over, aside, ended, cut, shots, job, reached, restores, kills, fileFaults>>

(* A statement of the transaction.  On a connection that was replaced meanwhile *)
(* there is no transaction, and it is committed on its own.                      *)
WriteRow ==
    /\ txn.n > 0 /\ txn.step < 2 /\ Usable
    /\ LET row == <<txn.n, txn.step + 1>> IN
       IF txn.open THEN txn' = [txn EXCEPT !.step = @ + 1, !.rows = @ \union {row}] /\ UNCHANGED over
       ELSE txn' = [txn EXCEPT !.step = @ + 1] /\ over' = RowFile(Content.rows \union {row})
    /\ reached' = reached \union {IF over'.kind = "rows" THEN over'.rows ELSE Content.rows}
    /\ UNCHANGED <<drv, handle, conn, file, aside, ended, cut, shots, job, restores, kills, fileFaults>>

(* COMMIT; with wasm the image is saved with it. *)
CommitTxn ==
    /\ txn.step = 2 /\ txn.open /\ Usable
    /\ LET all == RowFile(Content.rows \union txn.rows) IN
       /\ IF drv = "wasm" THEN file' = all /\ over' = Nothing ELSE over' = all /\ UNCHANGED file
       /\ reached' = reached \union {all.rows}
    /\ ended' = Append(ended, "ok") /\ txn' = NoTxn
    /\ UNCHANGED <<drv, handle, conn, aside, cut, shots, job, restores, kills, fileFaults>>

(* The transaction fails: its COMMIT finds none open, or a statement no connection. *)
FailTxn ==
    /\ txn.n > 0
    /\ (txn.step = 2 /\ ~txn.open) \/ ~Usable
    /\ ended' = Append(ended, "failed") /\ txn' = NoTxn
    /\ UNCHANGED <<drv, handle, conn, file, over, aside, cut, shots, job, reached, restores, kills, fileFaults>>

(* Now and then SQLite itself writes the WAL back, outside of a transaction. *)
AutoCheckpoint ==
    /\ drv \in {"tauri", "node", "capacitor"} /\ Usable /\ over # Nothing /\ ~txn.open
    /\ file' = over /\ over' = Nothing
    /\ UNCHANGED <<drv, handle, conn, aside, txn, ended, cut, shots, job, reached, restores, kills, fileFaults>>

(* snapshotBytes.  In Rust a checkpoint that fails, as it does in a transaction, is *)
(* not looked at, and the main file is read; VACUUM INTO fails in a transaction, and *)
(* wasm is never found in one.  The plugin of Android has no snapshot.                *)
Serialize ==
    /\ Usable /\ job = NoRestore /\ Cardinality(shots) < MaxSnapshots
    /\ \/ /\ drv = "tauri"
          /\ IF txn.open THEN UNCHANGED <<file, over>> ELSE file' = Content /\ over' = Nothing
          /\ shots' = shots \union {[bytes |-> file'.rows, stale |-> file' # Content, during |-> txn.open]}
       \/ /\ drv \in {"node", "wasm"} /\ ~txn.open
          /\ shots' = shots \union {[bytes |-> Content.rows, stale |-> FALSE, during |-> FALSE]}
          /\ UNCHANGED <<file, over>>
    /\ UNCHANGED <<drv, handle, conn, aside, txn, ended, cut, job, reached, restores, kills, fileFaults>>

(* deserialize: the connection is closed first, and with it a transaction. *)
StartRestore ==
    /\ Usable /\ job = NoRestore /\ restores < MaxRestores /\ restores' = restores + 1
    /\ drv \in {"tauri", "node"} \/ (drv = "wasm" /\ txn = NoTxn)
    /\ \E s \in shots : job' = [pc |-> "write", bytes |-> s.bytes, before |-> Content.rows]
    /\ conn' = FALSE /\ handle' = (handle /\ drv # "node")
    /\ file' = Content /\ over' = Nothing
    /\ cut' = IF txn.open THEN cut \union {txn.n} ELSE cut
    /\ txn' = [txn EXCEPT !.open = FALSE, !.rows = {}]
    /\ reached' = reached \union {job'.bytes}
    /\ UNCHANGED <<drv, aside, ended, shots, kills, fileFaults>>

(* Rust writes the bytes in place. *)
WriteInPlace ==
    /\ job.pc = "write" /\ drv = "tauri"
    /\ file' = RowFile(job.bytes) /\ job' = [job EXCEPT !.pc = "reopen"]
    /\ UNCHANGED <<drv, handle, conn, over, aside, txn, ended, cut, shots, reached, restores, kills, fileFaults>>

(* Node writes a file next to it, moves the old one aside, then the new one in. *)
MoveAside ==
    /\ job.pc = "write" /\ drv = "node"
    /\ aside' = file /\ file' = Gone /\ job' = [job EXCEPT !.pc = "move"]
    /\ UNCHANGED <<drv, handle, conn, over, txn, ended, cut, shots, reached, restores, kills, fileFaults>>

MoveIn ==
    /\ job.pc = "move"
    /\ file' = RowFile(job.bytes) /\ job' = [job EXCEPT !.pc = "reopen"]
    /\ UNCHANGED <<drv, handle, conn, over, aside, txn, ended, cut, shots, reached, restores, kills, fileFaults>>

(* The image of wasm is replaced in memory and saved. *)
LoadImage ==
    /\ job.pc = "write" /\ drv = "wasm"
    /\ over' = RowFile(job.bytes) /\ job' = [job EXCEPT !.pc = "save"] /\ conn' = TRUE
    /\ UNCHANGED <<drv, handle, file, aside, txn, ended, cut, shots, reached, restores, kills, fileFaults>>

SaveImage ==
    /\ job.pc = "save"
    /\ file' = over /\ over' = Nothing /\ job' = NoRestore
    /\ UNCHANGED <<drv, handle, conn, aside, txn, ended, cut, shots, reached, restores, kills, fileFaults>>

Reopen ==
    /\ job.pc = "reopen"
    /\ handle' = TRUE /\ conn' = TRUE /\ job' = NoRestore
    /\ UNCHANGED <<drv, file, over, aside, txn, ended, cut, shots, reached, restores, kills, fileFaults>>

(* The disk is full: Rust has written a part of the file, Node only of its copy, *)
(* and wasm has the new image in memory.  The restore is over.                    *)
WriteFails ==
    /\ (job.pc = "write" /\ drv # "wasm") \/ job.pc = "save"
    /\ fileFaults < MaxFileFaults /\ fileFaults' = fileFaults + 1
    /\ file' = IF drv = "tauri" THEN Torn ELSE file
    /\ job' = NoRestore
    /\ UNCHANGED <<drv, handle, conn, over, aside, txn, ended, cut, shots, reached, restores, kills>>

(* The process dies, perhaps in the middle of the write.  The WAL survives it. *)
Kill ==
    /\ kills < MaxKills /\ kills' = kills + 1
    /\ file' \in {file} \union (IF job.pc = "write" /\ drv = "tauri" THEN {Torn} ELSE {})
    /\ over' = IF drv = "wasm" THEN Nothing ELSE over
    /\ handle' = FALSE /\ conn' = FALSE /\ txn' = NoTxn /\ job' = NoRestore
    /\ ended' = IF txn.n > 0 THEN Append(ended, "died") ELSE ended
    /\ UNCHANGED <<drv, aside, cut, shots, reached, restores, fileFaults>>

SnapshotNext ==
    \/ OpenDb \/ CloseDb \/ BeginTxn \/ WriteRow \/ CommitTxn \/ FailTxn \/ AutoCheckpoint \/ Serialize
    \/ StartRestore \/ WriteInPlace \/ MoveAside \/ MoveIn \/ LoadImage \/ SaveImage \/ Reopen \/ WriteFails \/ Kill

SnapshotSpec == SnapshotInit /\ [][SnapshotNext]_snapVars
-----------------------------------------------------------------------------
SnapshotTypeOK ==
    /\ file.kind \in {"gone", "torn", "rows"} /\ over.kind \in {"none", "rows"} /\ aside.kind \in {"none", "rows"}
    /\ handle \in BOOLEAN /\ conn \in BOOLEAN /\ txn.step \in 0..2

Half(rows, n) == Cardinality({r \in rows : r[1] = n}) = 1

(* A snapshot is a state the database was in, and of a driver that refuses to take *)
(* one in a transaction it is the state it was in then.                             *)
SnapshotsAreStates ==
    \A s \in shots : s.bytes \in reached /\ (s.stale => drv = "tauri" /\ s.during)

(* A transaction is in the database as a whole or not at all, unless a restore cut *)
(* it off; and then its caller was told that it failed.                             *)
HalvesWereCut ==
    Content.kind = "rows" =>
       \A n \in 1..MaxTxns :
           Half(Content.rows, n) => /\ n \in cut
                                    /\ n \in DOMAIN ended => ended[n] # "ok"

(* A restore that did not come to its end leaves what was there: in the file, with *)
(* Node perhaps only aside; wasm keeps one of the two images.  Rust may have torn   *)
(* the file, and then there is no other.                                            *)
RestoreKeepsOne ==
    /\ Content = Torn => drv = "tauri" /\ kills + fileFaults > 0
    /\ file = Gone /\ restores > 0 => drv = "node" /\ aside.kind = "rows"

(* What a commit has told its caller is there to stay, until a restore takes it back. *)
CommitsStay ==
    restores = 0 /\ Content.kind = "rows" =>
       \A n \in DOMAIN ended : ended[n] = "ok" => {<<n, 1>>, <<n, 2>>} \subseteq Content.rows

(* Snapshots and restores deal in whole states of the database. *)
SnapshotsAreSound ==
    SnapshotTypeOK /\ SnapshotsAreStates /\ HalvesWereCut /\ RestoreKeepsOne /\ CommitsStay

(* "Take a consistent byte-level backup" (backup.ts): of the moment it is taken. *)
SnapshotsAreCurrent == \A s \in shots : ~s.stale

(* "The driver swaps the file atomically (keeping a .pre-restore copy)" (backup.ts). *)
SwapIsAtomic ==
    /\ handle /\ conn /\ job = NoRestore
    /\ ended # <<>> /\ ended[1] = "ok" /\ \A s \in shots : s.bytes # {}
    => Content.kind = "rows" /\ Content.rows # {}

(* isOpen says whether there is a database to talk to. *)
OpenMeansOpen == handle /\ job = NoRestore => conn
=============================================================================
