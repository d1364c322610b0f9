--------------------------- MODULE DbTransaction ---------------------------
(***************************************************************************)
(* Database.transaction (packages/core/src/db/database.ts) over one        *)
(* connection, with the statements other code sends without a transaction  *)
(* and, for the WASM driver (db/drivers/wasm.ts), the image it saves after *)
(* a commit.                                                               *)
(*                                                                         *)
(*   depth, seq       the fields of Database                               *)
(*   image            the rows a SELECT on the connection returns          *)
(*   stack            the transaction and the savepoints open in SQLite,   *)
(*                    each with the rows it goes back to                   *)
(*   disk             the rows a new process would find                    *)
(*   dirty, saves,    the driver's flag, its calls of persistence.save     *)
(*   promise          that have not settled, and flushPromise              *)
(*   call             where every call of transaction() is                 *)
(*   told             what a call, or a plain write, returned              *)
(*                                                                         *)
(* A statement takes effect when it is sent; what follows its await is a   *)
(* step of its own, so with Overlap other code may run in between, as it   *)
(* does on the drivers that send each statement over a native bridge.      *)
(* Without Overlap a call runs from BEGIN to COMMIT before anything else,  *)
(* as on the WASM driver, whose statements finish within one task of the   *)
(* event loop; only the save to IndexedDB lets others in.                  *)
(***************************************************************************)
EXTENDS Integers, Sequences, SequencesExt

CONSTANTS
    Caller,      \* the calls of transaction()
    Parent,      \* per call, the call whose fn makes it, or the call itself
    Writer,      \* writes outside a transaction, each of one row
    Statements,  \* writes in the fn of a call
    Wasm,        \* the driver is WasmSqlDriver
    Overlap,     \* calls and writes that do not know of each other overlap
    Nobody,      \* flushPromise is null
    MaxThrows,   \* bound: functions that throw
    MaxFaults,   \* bound: saves that fail
    MaxCloses,   \* bound: closes of the database
    MaxCrashes   \* bound: processes that die

ASSUME TransactionAssumption ==
    /\ Parent \in [Caller -> Caller] /\ Caller \cap Writer = {}
    /\ Statements \in Nat /\ Wasm \in BOOLEAN /\ Overlap \in BOOLEAN

VARIABLES depth, seq, image, stack, disk, dirty, saves, promise, call, told, spent

vars == <<depth, seq, image, stack, disk, dirty, saves, promise, call, told, spent>>
driver == <<dirty, saves, promise>>

RowsOf(c) == {<<c, i>> : i \in 1..Statements}
Top(c) == Parent[c] = c
Running(c) == call[c].pc \notin {"idle", "done"}
Children(c) == {k \in Caller \ {c} : Parent[k] = c}

(* Nothing between BEGIN and the end of its COMMIT or ROLLBACK. *)
Between == \A c \in Caller : call[c].pc \in {"idle", "saving", "waiting", "done"}
MayInterleave == Overlap \/ Between

Idle == [pc |-> "idle", name |-> 0, written |-> 0, awaits |-> Nobody]

Init ==
    /\ depth = 0 /\ seq = 0
    /\ image = {} /\ stack = <<>> /\ disk = {}
    /\ dirty = FALSE /\ saves = <<>> /\ promise = Nobody
    /\ call = [c \in Caller |-> Idle]
    /\ told = [x \in Caller \cup Writer |-> "nothing"]
    /\ spent = [throws |-> 0, faults |-> 0, closes |-> 0, crashes |-> 0]

Goto(c, pc) == call' = [call EXCEPT ![c].pc = pc]
Return(c, answer) ==
    /\ Goto(c, "done")
    /\ told' = [told EXCEPT ![c] = answer]

-----------------------------------------------------------------------------
(* SQLite *)

(* The rows after a statement that leaves the frames st open and is seen   *)
(* as img.  Without an open frame they are committed, which the native     *)
(* drivers (WAL) make durable and the WASM driver leaves to flush.         *)
Execute(img, st) ==
    /\ image' = img
    /\ stack' = st
    /\ disk' = IF st = <<>> /\ ~Wasm THEN img ELSE disk
    /\ dirty' = Wasm

IsOpen(name) == \E i \in DOMAIN stack : stack[i].name = name
Frame(name) == CHOOSE i \in DOMAIN stack : stack[i].name = name
CommittedRows == IF stack = <<>> THEN image ELSE stack[1].before

-----------------------------------------------------------------------------
(* Database.transaction *)

(* Who may start: a nested call inside its parent's fn, any other between  *)
(* transactions, unless calls overlap.                                     *)
MayStart(c) ==
    /\ call[c].pc = "idle"
    /\ IF Top(c)
       THEN MayInterleave
       ELSE call[Parent[c]].pc = "body" /\ \A k \in Children(Parent[c]) : ~Running(k)

(* depth = 0: BEGIN IMMEDIATE, which throws inside a transaction. *)
BeginOuter(c) ==
    /\ MayStart(c)
    /\ depth = 0
    /\ IF stack = <<>>
       THEN /\ Execute(image, <<[name |-> 0, before |-> image]>>)
            /\ Goto(c, "begun")
            /\ UNCHANGED told
       ELSE /\ Return(c, "error")
            /\ UNCHANGED <<image, stack, disk, dirty>>
    /\ UNCHANGED <<depth, seq, saves, promise, spent>>

BeginSameName(c) ==
    /\ MayStart(c)
    /\ depth # 0
    /\ Execute(image, Append(stack, [name |-> seq + 1, before |-> image]))
    /\ call' = [call EXCEPT ![c].pc = "begun", ![c].name = seq + 1]
    /\ UNCHANGED <<depth, seq, saves, promise, told, spent>>

(* Any other depth: a savepoint of the transaction that is open. *)
BeginNested(c) ==
    /\ MayStart(c)
    /\ depth # 0
    /\ seq' = seq + 1
    /\ Execute(image, Append(stack, [name |-> seq + 1, before |-> image]))
    /\ call' = [call EXCEPT ![c].pc = "begun", ![c].name = seq + 1]
    /\ UNCHANGED <<depth, saves, promise, told, spent>>

Entered(c) ==
    /\ call[c].pc = "begun"
    /\ depth' = IF call[c].name = 0 THEN 1 ELSE depth + 1
    /\ Goto(c, "body")
    /\ UNCHANGED <<seq, image, stack, disk, driver, told, spent>>

InBody(c) == call[c].pc = "body" /\ \A k \in Children(c) : ~Running(k)

Write(c) ==
    /\ InBody(c)
    /\ call[c].written < Statements
    /\ call' = [call EXCEPT ![c].written = @ + 1]
    /\ Execute(image \cup {<<c, call[c].written + 1>>}, stack)
    /\ UNCHANGED <<depth, seq, saves, promise, told, spent>>

Throw(c) ==
    /\ InBody(c)
    /\ spent.throws < MaxThrows
    /\ spent' = [spent EXCEPT !.throws = @ + 1]
    /\ Goto(c, "catch")
    /\ UNCHANGED <<depth, seq, image, stack, disk, driver, told>>

(* The COMMIT of the outer call ends every savepoint that is still open. *)
Commit(c) ==
    /\ InBody(c)
    /\ call[c].written = Statements /\ call[c].name = 0
    /\ IF stack # <<>>
       THEN Execute(image, <<>>) /\ Goto(c, "committed")
       ELSE Goto(c, "catch") /\ UNCHANGED <<image, stack, disk, dirty>>
    /\ UNCHANGED <<depth, seq, saves, promise, told, spent>>

(* RELEASE ends the savepoint and those inside it. *)
Release(c) ==
    /\ InBody(c)
    /\ call[c].written = Statements /\ call[c].name # 0
    /\ IF IsOpen(call[c].name)
       THEN /\ Execute(image, SubSeq(stack, 1, Frame(call[c].name) - 1))
            /\ Goto(c, "released")
       ELSE Goto(c, "catch") /\ UNCHANGED <<image, stack, disk, dirty>>
    /\ UNCHANGED <<depth, seq, saves, promise, told, spent>>

Released(c) ==
    /\ call[c].pc = "released"
    /\ depth' = depth - 1
    /\ Return(c, "ok")
    /\ UNCHANGED <<seq, image, stack, disk, driver, spent>>

RollbackKeepsDepth(c) ==
    /\ call[c].pc = "catch" /\ call[c].name = 0
    /\ IF stack # <<>>
       THEN Execute(CommittedRows, <<>>)
       ELSE UNCHANGED <<image, stack, disk, dirty>>
    /\ Return(c, "error")
    /\ UNCHANGED <<depth, seq, saves, promise, spent>>

(* catch of the outer call: depth is reset, ROLLBACK undoes whatever the   *)
(* connection has open.                                                    *)
Rollback(c) ==
    /\ call[c].pc = "catch" /\ call[c].name = 0
    /\ depth' = 0
    /\ IF stack # <<>>
       THEN Execute(CommittedRows, <<>>)
       ELSE UNCHANGED <<image, stack, disk, dirty>>
    /\ Return(c, "error")
    /\ UNCHANGED <<seq, saves, promise, spent>>

UndoOnlyReleases(c) ==
    /\ call[c].pc = "catch" /\ call[c].name # 0
    /\ depth' = depth - 1
    /\ Goto(c, "drop")
    /\ UNCHANGED <<seq, image, stack, disk, driver, told, spent>>

(* catch of a nested call: ROLLBACK TO, and if that works RELEASE. *)
Undo(c) ==
    /\ call[c].pc = "catch" /\ call[c].name # 0
    /\ depth' = depth - 1
    /\ IF IsOpen(call[c].name)
       THEN LET i == Frame(call[c].name)
            IN  /\ Execute(stack[i].before, SubSeq(stack, 1, i))
                /\ Goto(c, "drop")
                /\ UNCHANGED told
       ELSE /\ Return(c, "error")
            /\ UNCHANGED <<image, stack, disk, dirty>>
    /\ UNCHANGED <<seq, saves, promise, spent>>

Drop(c) ==
    /\ call[c].pc = "drop"
    /\ IF IsOpen(call[c].name)
       THEN Execute(image, SubSeq(stack, 1, Frame(call[c].name) - 1))
       ELSE UNCHANGED <<image, stack, disk, dirty>>
    /\ Return(c, "error")
    /\ UNCHANGED <<depth, seq, saves, promise, spent>>

-----------------------------------------------------------------------------
(* WasmSqlDriver.flush *)

(* export() closes and reopens the database, which ends a transaction that *)
(* is open; the image handed to save holds what is committed.              *)
StartSave(c) ==
    /\ image' = CommittedRows /\ stack' = <<>>
    /\ dirty' = FALSE
    /\ saves' = Append(saves, [by |-> c, rows |-> CommittedRows])
    /\ promise' = c
    /\ Goto(c, "saving")

CommittedUnsaved(c) ==
    /\ call[c].pc = "committed"
    /\ depth' = 0
    /\ Return(c, "ok")
    /\ UNCHANGED <<seq, image, stack, disk, driver, spent>>

(* After the COMMIT: the depth is reset, persistAfterCommit calls flush,   *)
(* which first waits for a save that is under way.                         *)
Committed(c) ==
    /\ call[c].pc = "committed"
    /\ depth' = 0
    /\ IF ~dirty
       THEN Return(c, "ok") /\ UNCHANGED <<image, stack, driver>>
       ELSE IF promise = Nobody
       THEN StartSave(c) /\ UNCHANGED told
       ELSE /\ call' = [call EXCEPT ![c].pc = "waiting", ![c].awaits = promise]
            /\ UNCHANGED <<image, stack, driver, told>>
    /\ UNCHANGED <<seq, disk, spent>>

(* Those that waited for the same save do not wait for each other. *)
Waited(c) ==
    /\ call[c].pc = "waiting" /\ MayInterleave
    /\ \A i \in DOMAIN saves : saves[i].by # call[c].awaits
    /\ StartSave(c)
    /\ UNCHANGED <<depth, seq, disk, told, spent>>

(* IndexedDB finishes saves in the order they were asked for. *)
Saved ==
    /\ saves # <<>> /\ MayInterleave
    /\ disk' = Head(saves).rows
    /\ saves' = Tail(saves)
    /\ promise' = Nobody
    /\ Return(Head(saves).by, "ok")
    /\ UNCHANGED <<depth, seq, image, stack, dirty, spent>>

(* A save that fails throws in the flush that asked for it and in those    *)
(* that wait for it: their transactions take the catch.                    *)
SaveFails ==
    /\ saves # <<>> /\ MayInterleave
    /\ spent.faults < MaxFaults
    /\ spent' = [spent EXCEPT !.faults = @ + 1]
    /\ saves' = Tail(saves)
    /\ promise' = Nobody
    /\ LET by == Head(saves).by
           Throws(c) == c = by \/ (call[c].pc = "waiting" /\ call[c].awaits = by)
       IN call' = [c \in Caller |-> IF Throws(c) THEN [call[c] EXCEPT !.pc = "catch"]
                                                ELSE call[c]]
    /\ UNCHANGED <<depth, seq, image, stack, disk, dirty, told>>

-----------------------------------------------------------------------------
(* Everything else *)

(* A write of EntityRepo outside a transaction. *)
PlainWrite(w) ==
    /\ told[w] = "nothing" /\ MayInterleave
    /\ Execute(image \cup {<<w, 1>>}, stack)
    /\ told' = [told EXCEPT ![w] = "ok"]
    /\ UNCHANGED <<depth, seq, saves, promise, call, spent>>

CloseUnsaved ==
    /\ \A c \in Caller : ~Running(c)
    /\ spent.closes < MaxCloses
    /\ spent' = [spent EXCEPT !.closes = @ + 1]
    /\ image' = disk
    /\ dirty' = FALSE /\ depth' = 0 /\ seq' = 0 /\ stack' = <<>>
    /\ UNCHANGED <<disk, saves, promise, call, told>>

(* Database.close flushes what is dirty; the next start finds the disk. *)
Close ==
    /\ \A c \in Caller : ~Running(c)
    /\ spent.closes < MaxCloses
    /\ spent' = [spent EXCEPT !.closes = @ + 1]
    /\ disk' = IF dirty THEN image ELSE disk
    /\ image' = disk'
    /\ dirty' = FALSE /\ depth' = 0 /\ seq' = 0 /\ stack' = <<>>
    /\ UNCHANGED <<saves, promise, call, told>>

(* The process dies: calls under way get no answer, a save that was under  *)
(* way may have reached the disk.                                          *)
Crash ==
    /\ spent.crashes < MaxCrashes
    /\ spent' = [spent EXCEPT !.crashes = @ + 1]
    /\ \E rows \in {disk} \cup {saves[i].rows : i \in DOMAIN saves} :
           disk' = rows /\ image' = rows
    /\ depth' = 0 /\ seq' = 0 /\ stack' = <<>>
    /\ dirty' = FALSE /\ saves' = <<>> /\ promise' = Nobody
    /\ call' = [c \in Caller |-> IF Running(c) THEN [Idle EXCEPT !.pc = "done"] ELSE call[c]]
    /\ told' = [x \in DOMAIN told |-> IF x \in Caller /\ Running(x) THEN "lost" ELSE told[x]]

Next ==
    \/ \E c \in Caller :
           \/ BeginOuter(c) \/ BeginNested(c) \/ Entered(c) \/ Write(c) \/ Throw(c)
           \/ Commit(c) \/ Committed(c) \/ Waited(c) \/ Release(c) \/ Released(c)
           \/ Rollback(c) \/ Undo(c) \/ Drop(c)
    \/ \E w \in Writer : PlainWrite(w)
    \/ Saved \/ SaveFails \/ Close \/ Crash

Spec == Init /\ [][Next]_vars

-----------------------------------------------------------------------------
(* Properties *)

Rows == (Writer \X {1}) \cup UNION {RowsOf(c) : c \in Caller}

(* Every field holds what database.ts and wasm.ts put in it. *)
TypeOK ==
    /\ depth \in Int /\ seq \in Nat
    /\ image \subseteq Rows /\ disk \subseteq Rows
    /\ \A i \in DOMAIN stack : stack[i].name \in 0..seq /\ stack[i].before \subseteq Rows
    /\ dirty \in BOOLEAN /\ promise \in Caller \cup {Nobody}
    /\ \A i \in DOMAIN saves : saves[i].by \in Caller /\ saves[i].rows \subseteq Rows
    /\ \A c \in Caller :
           /\ call[c].pc \in {"idle", "begun", "body", "committed", "released", "catch",
                              "drop", "saving", "waiting", "done"}
           /\ call[c].written \in 0..Statements
    /\ told \in [Caller \cup Writer -> {"nothing", "ok", "error", "lost"}]

(* "after a committed transaction nothing can be lost": the rows of a      *)
(* transaction whose caller was told it succeeded, and of the nested ones  *)
(* that succeeded in it, are there for the next process, whatever failed,  *)
(* was saved or died since.                                                *)
CommittedIsDurable ==
    \A c \in Caller :
        Top(c) /\ told[c] = "ok" =>
            \A k \in Children(c) \cup {c} : told[k] = "ok" => RowsOf(k) \subseteq disk

(* The same once every call has come to its end, on a driver that commits  *)
(* to the disk itself: no transaction that was reported committed is       *)
(* undone by what another call does to the shared connection.              *)
CommittedIsKept ==
    Between => \A c \in Caller : Top(c) /\ told[c] = "ok" => RowsOf(c) \subseteq image

(* What a new process finds is whole transactions: all the rows of a call  *)
(* or none, and those of a nested call only with those of the call around  *)
(* it.                                                                     *)
AllOrNothing ==
    \A c \in Caller :
        /\ RowsOf(c) \subseteq disk \/ RowsOf(c) \cap disk = {}
        /\ RowsOf(c) \subseteq disk => RowsOf(Parent[c]) \subseteq disk

(* Between transactions the count the next call chooses BEGIN or SAVEPOINT *)
(* by is the number of frames SQLite has open: none.                       *)
DepthIsNesting == Between => depth = Len(stack)

(* A plain write is in no transaction and nothing saves it by itself; it   *)
(* still outlives every close, and every transaction that fails around it, *)
(* unless the process died or a save failed.                               *)
PlainWritesKept ==
    \A w \in Writer :
        told[w] = "ok" /\ spent.crashes = 0 /\ spent.faults = 0 => <<w, 1>> \in image

(* A transaction is all or nothing, nesting is counted right, and the      *)
(* statements outside of it are kept, with calls that overlap in the one   *)
(* connection (driver.ts, wasm.ts).                                        *)
TransactionsAreSound == TypeOK /\ DepthIsNesting /\ AllOrNothing /\ PlainWritesKept
=============================================================================
