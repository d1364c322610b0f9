---------------------------- MODULE BackupShelf ----------------------------
(***************************************************************************)
(* The backups of one device (packages/core/src/services/backup.ts): the   *)
(* rows of the table backups, which lie in the database they are copies    *)
(* of, and the files they name, which do not.                              *)
(*                                                                         *)
(*   content   the user's data, as the number of its last change           *)
(*   shelf     the rows of backups, the oldest first                       *)
(*   files     what the files hold: the database as it was, or an export   *)
(*   job       the createBackup that runs, for itself or for an import     *)
(*   newest    per day, the last row inserted since the table was replaced *)
(*   saved     the content before the last import, Never before one         *)
(*   settled   nothing was put on the shelf since the last rotation ended  *)
(*                                                                         *)
(* A week is Week days long and a month Month days.                        *)
(***************************************************************************)
EXTENDS Integers, Sequences, SequencesExt, FiniteSets, TLC

CONSTANTS
    Daily, Weekly, Monthly,   \* RETENTION
    Week, Month,
    Never,
    LastDay,                  \* bound: days
    MaxContent,               \* bound: changes of the user's data
    MaxShelved,               \* bound: backups and exports
    MaxReplaced,              \* bound: restores, imports and deletions of everything
    MaxShelfCrashes           \* bound: processes that die

VARIABLES content, shelf, files, job, today, shelved, newest, saved, settled, replaced, shelfCrashes

shelfVars == <<content, shelf, files, job, today, shelved, newest, saved, settled, replaced, shelfCrashes>>

NoJob == [pc |-> "idle"]
Idle == job.pc = "idle"
Image == [format |-> "sqlite", content |-> content, shelf |-> shelf]

(* The user's work, on the same day or on the next. *)
Change ==
    /\ content < MaxContent
    /\ content' = content + 1
    /\ UNCHANGED <<shelf, files, job, today, shelved, newest, saved, settled, replaced, shelfCrashes>>

NextDay ==
    /\ today < LastDay /\ Idle
    /\ today' = today + 1
    /\ UNCHANGED <<content, shelf, files, job, shelved, newest, saved, settled, replaced, shelfCrashes>>

-----------------------------------------------------------------------------
(* createBackup: the file is written, then its row, then rotate() runs.    *)

Begin(then) ==
    /\ Idle /\ shelved < MaxShelved
    /\ files' = [f \in DOMAIN files \union {shelved + 1} |-> IF f = shelved + 1 THEN Image ELSE files[f]]
    /\ job' = [pc |-> "insert", then |-> then]
    /\ shelved' = shelved + 1
    /\ UNCHANGED <<content, shelf, today, newest, saved, settled, replaced, shelfCrashes>>

Entry(id, format) == [id |-> id, format |-> format, day |-> today]

InsertRecord ==
    /\ job.pc = "insert"
    /\ shelf' = Append(shelf, Entry(shelved, "sqlite"))
    /\ newest' = [newest EXCEPT ![today] = shelved]
    /\ job' = [job EXCEPT !.pc = "list"]
    /\ settled' = FALSE
    /\ UNCHANGED <<content, files, today, shelved, saved, replaced, shelfCrashes>>

SameDay(day) == day
SameWeek(day) == day \div Week
SameMonth(day) == day \div Month

(* The newest of each of the limit most recent periods. *)
Latest(s, Period(_), limit) ==
    {s[i].id : i \in {i \in DOMAIN s :
       LET later == {Period(s[j].day) : j \in (i + 1)..Len(s)} IN
       Period(s[i].day) \notin later /\ Cardinality(later) < limit}}

(* Mutant: one row of each period, whichever comes first. *)
KeptOldest(s) ==
    {s[i].id : i \in {i \in DOMAIN s : \A j \in 1..(i - 1) : s[j].day # s[i].day}}

Kept(s) == Latest(s, SameDay, Daily) \union Latest(s, SameWeek, Weekly) \union Latest(s, SameMonth, Monthly)

Rotate ==
    /\ job.pc = "list"
    /\ job' = [job EXCEPT !.pc = "remove"] @@ [old |-> Reverse(SelectSeq(shelf, LAMBDA r : r.id \notin Kept(shelf)))]
    /\ UNCHANGED <<content, shelf, files, today, shelved, newest, saved, settled, replaced, shelfCrashes>>

(* remove(): the file, whether it is there or not, then the row. *)
RemoveFile ==
    /\ job.pc = "remove" /\ job.old # <<>>
    /\ files' = [f \in DOMAIN files \ {Head(job.old).id} |-> files[f]]
    /\ job' = [job EXCEPT !.pc = "delete"]
    /\ UNCHANGED <<content, shelf, today, shelved, newest, saved, settled, replaced, shelfCrashes>>

RemoveRow ==
    /\ job.pc = "delete"
    /\ shelf' = SelectSeq(shelf, LAMBDA r : r.id # Head(job.old).id)
    /\ job' = [job EXCEPT !.pc = "remove", !.old = Tail(@)]
    /\ UNCHANGED <<content, files, today, shelved, newest, saved, settled, replaced, shelfCrashes>>

Rotated ==
    /\ job.pc = "remove" /\ job.old = <<>>
    /\ settled' = TRUE
    /\ job' = IF job.then = "nothing" THEN NoJob ELSE [job EXCEPT !.pc = job.then]
    /\ UNCHANGED <<content, shelf, files, today, shelved, newest, saved, replaced, shelfCrashes>>

-----------------------------------------------------------------------------
(* The other callers of the storage and the table. *)

(* exportToFile: a row of the same table, and no rotation. *)
ExportToFile ==
    /\ Idle /\ shelved < MaxShelved
    /\ shelved' = shelved + 1
    /\ files' = [f \in DOMAIN files \union {shelved'} |->
                   IF f = shelved' THEN [format |-> "json", content |-> content, shelf |-> shelf] ELSE files[f]]
    /\ shelf' = Append(shelf, Entry(shelved', "json"))
    /\ newest' = [newest EXCEPT ![today] = shelved']
    /\ settled' = FALSE
    /\ UNCHANGED <<content, job, today, saved, replaced, shelfCrashes>>

(* The table is another one now: what the history knew of it no longer holds. *)
NewTable ==
    /\ newest' = [d \in 0..LastDay |-> Never]
    /\ settled' = FALSE
    /\ replaced' = replaced + 1

(* verify() finds the file and a database in it, or restore() refuses. *)
Restorable(r) == r.id \in DOMAIN files /\ files[r.id].format = "sqlite"

Restore ==
    /\ Idle /\ replaced < MaxReplaced
    /\ \E i \in DOMAIN shelf :
          /\ Restorable(shelf[i])
          /\ content' = files[shelf[i].id].content
          /\ shelf' = files[shelf[i].id].shelf
    /\ NewTable
    /\ UNCHANGED <<files, job, today, shelved, saved, shelfCrashes>>

Archives == {f \in DOMAIN files : replaced < MaxReplaced /\ files[f].format = "json"}

(* importArchive: createBackup, then the transaction. The archive is one  *)
(* this device exported, its table of backups included.                   *)
Import ==
    /\ job.pc \in {"merge", "replace"}
    /\ \E f \in Archives :
          /\ shelf' = IF job.pc = "replace" THEN files[f].shelf
                      ELSE shelf \o SelectSeq(files[f].shelf, LAMBDA r : r \notin ToSet(shelf))
          /\ content' = IF job.pc = "replace" THEN files[f].content ELSE content
    /\ saved' = content
    /\ NewTable
    /\ job' = NoJob
    /\ UNCHANGED <<files, today, shelved, shelfCrashes>>

(* deleteAllUserData, after the export it begins with. *)
DeleteAll ==
    /\ Idle /\ replaced < MaxReplaced
    /\ content' = 0 /\ shelf' = <<>>
    /\ NewTable
    /\ UNCHANGED <<files, job, today, shelved, saved, shelfCrashes>>

ShelfCrash ==
    /\ ~Idle /\ shelfCrashes < MaxShelfCrashes
    /\ job' = NoJob
    /\ shelfCrashes' = shelfCrashes + 1
    /\ UNCHANGED <<content, shelf, files, today, shelved, newest, saved, settled, replaced>>

-----------------------------------------------------------------------------
ShelfInit ==
    /\ content = 0 /\ shelf = <<>> /\ files = <<>> /\ job = NoJob
    /\ today = 0 /\ shelved = 0 /\ newest = [d \in 0..LastDay |-> Never]
    /\ saved = Never /\ settled = TRUE /\ replaced = 0 /\ shelfCrashes = 0

ShelfNext ==
    \/ Change \/ NextDay
    \/ Begin("nothing")
    \/ \E mode \in {"merge", "replace"} : Archives # {} /\ Begin(mode)
    \/ InsertRecord \/ Rotate \/ RemoveFile \/ RemoveRow \/ Rotated
    \/ ExportToFile \/ Restore \/ Import \/ DeleteAll \/ ShelfCrash

ShelfSpec == ShelfInit /\ [][ShelfNext]_shelfVars

-----------------------------------------------------------------------------
(* Of each of the last Daily days on which something was put on the shelf  *)
(* the last thing is there with its file, and a rotation leaves no more    *)
(* than the retention allows (the newest row is the latest of its day, its *)
(* week and its month), wherever a process died in between.                *)
Counted == {d \in 0..LastDay : newest[d] # Never}
Recent == {d \in Counted : Cardinality({e \in Counted : e > d}) < Daily}

NewestOfADayIsKept ==
    \A d \in Recent : newest[d] \in DOMAIN files /\ \E i \in DOMAIN shelf : shelf[i].id = newest[d]

ShelfIsBounded == settled => Len(shelf) <= Daily + Weekly + Monthly - 2

RotationIsFair == NewestOfADayIsKept /\ ShelfIsBounded

-----------------------------------------------------------------------------
(* What the documents and the screens say and the code does not do.        *)

(* "rotating: keep 7 daily": the rotation leaves a recent day something    *)
(* that can be restored, if it had it.                                     *)
ADayCanComeBack ==
    [][job.pc = "remove" /\ job'.pc = "delete" =>
         LET Old(i) == shelf[i].id \in {job.old[j].id : j \in DOMAIN job.old}
             RecentDay(d) == Cardinality({shelf[i].day : i \in DOMAIN shelf} \intersect (d + 1)..LastDay) < Daily IN
         \A i \in DOMAIN shelf :
           shelf[i].id = Head(job.old).id /\ Restorable(shelf[i]) /\ RecentDay(shelf[i].day) =>
             \E k \in DOMAIN shelf : shelf[k].day = shelf[i].day /\ Restorable(shelf[k]) /\ ~Old(k)]_shelfVars

(* "The previous state was saved in a backup", says the screen after an    *)
(* import: some row of the table holds it.                                 *)
PreviousStateIsSaved ==
    [][saved' # saved => \E i \in DOMAIN shelf' : shelf'[i].id \in DOMAIN files /\ files[shelf'[i].id].content = saved']_shelfVars

(* Every backup that is listed can be restored.                            *)
ListedCanBeRestored ==
    Idle /\ shelfCrashes = 0 => \A i \in DOMAIN shelf : shelf[i].format = "sqlite" => Restorable(shelf[i])
=============================================================================
