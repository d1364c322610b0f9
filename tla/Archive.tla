------------------------------ MODULE Archive ------------------------------
(***************************************************************************)
(* BackupService.exportArchive and importArchive (packages/core/src/       *)
(* services/backup.ts) over the rows of two devices, with the inserts and  *)
(* updates of EntityRepo (db/repo.ts) and the constraints of the schema.   *)
(*                                                                         *)
(*   rows     per device, its rows in the order they were inserted: what   *)
(*            a SELECT without ORDER BY returns them in                    *)
(*   archive  the last export                                              *)
(*   import   per device, the import that runs: its preview was made and   *)
(*            its backup taken, its transaction not yet begun              *)
(*   ended    per device, how its last import ended                        *)
(*                                                                         *)
(* A row has one reference and one natural key at most; text is the device *)
(* that wrote its contents. Constraints are checked at each statement.     *)
(***************************************************************************)
EXTENDS Integers, Sequences, SequencesExt, FiniteSets, TLC

CONSTANTS
    Device,
    Kinds,           \* the tables that hold rows
    Days,            \* natural keys
    None,            \* no reference, no key, no archive, no import
    MaxRows,         \* bound: rows services insert
    MaxEdits,        \* bound: updates of services
    MaxDeletes,      \* bound: rows marked as deleted
    MaxImports       \* bound: imports

VARIABLES rows, archive, import, ended, made, edits, deletes, imports

archiveVars == <<rows, archive, import, ended, made, edits, deletes, imports>>

-----------------------------------------------------------------------------
(***************************************************************************)
(* The client's tables, as far as the order in which rows may be written,  *)
(* deleted and pushed depends on them (packages/core/src/db/migrations/    *)
(* 0001_init.ts and db/repos.ts). A table is named by its entity type:     *)
(*                                                                         *)
(*   refs      the tables its rows refer to, and what deleting the row     *)
(*             referred to does to them                                    *)
(*   natural   some other columns than the primary key are UNIQUE          *)
(*   marked    it has version and deleted: rows are deleted by a mark      *)
(***************************************************************************)

Cascade(table) == [to |-> table, onDelete |-> "cascade"]
SetNull(table) == [to |-> table, onDelete |-> "null"]

Entity(refs, natural) == [refs |-> refs, natural |-> natural, marked |-> TRUE]
Record(refs, natural) == [refs |-> refs, natural |-> natural, marked |-> FALSE]

MetaTables ==
    [account |-> Entity({}, TRUE), session |-> Record({}, FALSE), device |-> Record({}, FALSE),
     setting |-> Entity({}, FALSE), app_state |-> Record({}, FALSE)]

UserModelTables ==
    [onboarding_session  |-> Entity({}, FALSE),
     onboarding_answer   |-> Record({Cascade("onboarding_session")}, TRUE),
     interview_question  |-> Entity({Cascade("onboarding_session")}, FALSE),
     profile_field       |-> Entity({}, TRUE),
     user_model_snapshot |-> Record({}, FALSE)]

GoalTables ==
    [goal              |-> Entity({SetNull("goal")}, FALSE),
     goal_relationship |-> Record({Cascade("goal")}, TRUE),
     goal_review       |-> Record({Cascade("goal")}, FALSE),
     strategy_item     |-> Entity({SetNull("goal")}, FALSE),
     strategy_change   |-> Record({}, FALSE)]

SkillTables ==
    [skill                  |-> Entity({SetNull("goal")}, TRUE),
     skill_assessment       |-> Record({Cascade("skill")}, FALSE),
     knowledge_node         |-> Entity({SetNull("knowledge_node")}, FALSE),
     knowledge_relationship |-> Record({Cascade("knowledge_node")}, TRUE),
     knowledge_node_link    |-> Record({Cascade("knowledge_node")}, TRUE)]

ProjectTables ==
    [project           |-> Entity({SetNull("goal")}, FALSE),
     project_milestone |-> Entity({Cascade("project")}, FALSE),
     project_skill     |-> Record({Cascade("project"), Cascade("skill")}, TRUE)]

LearningTables ==
    [learning_path     |-> Entity({SetNull("skill"), SetNull("goal")}, FALSE),
     learning_topic    |-> Entity({Cascade("learning_path")}, FALSE),
     learning_progress |-> Record({Cascade("learning_topic"), Cascade("learning_path")}, FALSE),
     learning_review   |-> Entity({Cascade("learning_topic")}, TRUE)]

TaskTables ==
    [task           |-> Entity({SetNull("goal"), SetNull("project"), SetNull("skill"),
                                SetNull("learning_topic")}, FALSE),
     task_history   |-> Record({Cascade("task")}, FALSE),
     calendar_event |-> Entity({}, FALSE)]

MemoryTables ==
    [memory        |-> Entity({SetNull("memory")}, FALSE),
     memory_source |-> Record({Cascade("memory")}, FALSE)]

ConversationTables ==
    [conversation |-> Entity({}, FALSE), message |-> Entity({Cascade("conversation")}, FALSE)]

NewsTables ==
    [news_source |-> Entity({}, TRUE), news_item |-> Entity({SetNull("news_source")}, TRUE)]

NotificationTables ==
    [notification |-> Entity({}, FALSE), notification_preference |-> Entity({}, FALSE)]

ReviewTables ==
    [progress_snapshot |-> Record({}, TRUE), daily_snapshot |-> Entity({}, TRUE),
     weekly_review |-> Entity({}, TRUE), monthly_review |-> Entity({}, TRUE),
     behavior_signal |-> Record({}, FALSE), personalization |-> Record({}, FALSE)]

AuditTables ==
    [sync_operation |-> Record({}, FALSE), sync_cursor |-> Record({}, FALSE),
     sync_conflict |-> Record({}, FALSE), change_log |-> Record({}, FALSE), backup |-> Record({}, FALSE)]

Tables ==
    MetaTables @@ UserModelTables @@ GoalTables @@ SkillTables @@ ProjectTables @@ LearningTables
      @@ TaskTables @@ MemoryTables @@ ConversationTables @@ NewsTables @@ NotificationTables
      @@ ReviewTables @@ AuditTables

SyncPriority ==
    [account |-> 10, setting |-> 5, onboarding_session |-> 9, interview_question |-> 9, profile_field |-> 9,
     goal |-> 8, strategy_item |-> 7, skill |-> 6, knowledge_node |-> 4, project |-> 7,
     project_milestone |-> 6, learning_path |-> 5, learning_topic |-> 5, learning_review |-> 5, task |-> 8,
     calendar_event |-> 8, memory |-> 6, conversation |-> 3, message |-> 3, news_source |-> 1,
     news_item |-> 1, notification |-> 4, notification_preference |-> 5, daily_snapshot |-> 2,
     weekly_review |-> 2, monthly_review |-> 2]

SyncedRepos ==
    <<"account", "setting", "profile_field", "onboarding_session", "interview_question",
      "goal", "strategy_item", "skill", "project", "project_milestone",
      "learning_path", "learning_topic", "learning_review", "task", "calendar_event",
      "memory", "conversation", "message", "news_source", "news_item",
      "notification", "notification_preference", "daily_snapshot", "weekly_review",
      "monthly_review", "knowledge_node">>

(* Mutant: the tasks come before the goals they serve. *)
AllReposTasksFirst == <<"task">> \o SelectSeq(SyncedRepos, LAMBDA table : table # "task")

AllRepos ==
    SyncedRepos \o
    <<"session", "device", "app_state", "onboarding_answer", "user_model_snapshot",
      "goal_relationship", "goal_review", "strategy_change", "skill_assessment",
      "knowledge_relationship", "knowledge_node_link", "project_skill", "learning_progress",
      "task_history", "memory_source", "progress_snapshot", "behavior_signal",
      "personalization", "sync_operation", "sync_cursor", "sync_conflict", "change_log", "backup">>

(* The tables a row of table may refer to. *)
Parents(table) == {r.to : r \in Tables[table].refs}

-----------------------------------------------------------------------------
Ids(s) == {s[i].id : i \in DOMAIN s}
Find(s, id) == CHOOSE i \in DOMAIN s : s[i].id = id
Row(s, id) == s[Find(s, id)]
Marked(r) == Tables[r.kind].marked
Owned(kind) == \E r \in Tables[kind].refs : r.onDelete = "cascade"

(* The constraints a statement that leaves r in s has to keep. *)
RefIsThere(s, r) == r.ref = None \/ r.ref \in Ids(s) \union {r.id}
KeyIsFree(s, r) == r.key = None \/ \A i \in DOMAIN s : (s[i].kind = r.kind /\ s[i].key = r.key) => s[i].id = r.id
Allowed(s, r) == RefIsThere(s, r) /\ KeyIsFree(s, r)

(* insert() reads its row back without those marked as deleted, and throws *)
(* when it finds none.                                                     *)
Inserts(s, r) == Allowed(s, r) /\ ~r.dead
Updated(s, r) == [s EXCEPT ![Find(s, r.id)] = r]

-----------------------------------------------------------------------------
(* What the services write. *)

Candidates(d, kind) == {rows[d][i].id : i \in {j \in DOMAIN rows[d] : rows[d][j].kind \in Parents(kind)}}

Create(d) ==
    /\ made < MaxRows
    /\ \E kind \in Kinds :
       \E ref \in Candidates(d, kind) \union {None}, key \in IF Tables[kind].natural THEN Days ELSE {None} :
          LET r == [id |-> made + 1, kind |-> kind, ref |-> ref, key |-> key, text |-> d,
                    ver |-> IF Tables[kind].marked THEN 1 ELSE 0, dead |-> FALSE] IN
          /\ Owned(kind) => ref # None
          /\ Allowed(rows[d], r)
          /\ rows' = [rows EXCEPT ![d] = Append(@, r)]
    /\ made' = made + 1
    /\ UNCHANGED <<archive, import, ended, edits, deletes, imports>>

Bumped(r, d) == [r EXCEPT !.text = d, !.ver = IF Marked(r) THEN @ + 1 ELSE @]

(* A goal gets another parent, a memory is superseded, a text changes. *)
Edit(d) ==
    /\ edits < MaxEdits
    /\ \E i \in DOMAIN rows[d] :
          /\ ~rows[d][i].dead
          /\ \E ref \in (Candidates(d, rows[d][i].kind) \ {rows[d][i].id}) \union {rows[d][i].ref} :
                rows' = [rows EXCEPT ![d][i] = [Bumped(@, d) EXCEPT !.ref = ref]]
    /\ edits' = edits + 1
    /\ UNCHANGED <<archive, import, ended, made, deletes, imports>>

SoftDelete(d) ==
    /\ deletes < MaxDeletes
    /\ \E i \in DOMAIN rows[d] :
          /\ Marked(rows[d][i]) /\ ~rows[d][i].dead
          /\ rows' = [rows EXCEPT ![d][i] = [Bumped(@, d) EXCEPT !.dead = TRUE]]
    /\ deletes' = deletes + 1
    /\ UNCHANGED <<archive, import, ended, made, edits, imports>>

-----------------------------------------------------------------------------
(* exportArchive: table after table, those marked as deleted included. *)

Exported(s) == FlattenSeq([p \in DOMAIN AllRepos |-> SelectSeq(s, LAMBDA r : r.kind = AllRepos[p])])

Export(d) ==
    /\ archive' = Exported(rows[d])
    /\ archive' # archive
    /\ UNCHANGED <<rows, import, ended, made, edits, deletes, imports>>

(* previewImport, by id. *)
Preview(s, file) ==
    [id \in Ids(file) |->
       IF id \notin Ids(s) THEN "create" ELSE IF Row(file, id).ver > Row(s, id).ver THEN "update" ELSE "skip"]

StartImport(d) ==
    /\ archive # None /\ import[d] = None /\ imports < MaxImports
    /\ \E mode \in {"merge", "replace"} :
          import' = [import EXCEPT ![d] = [mode |-> mode, preview |-> Preview(rows[d], archive), file |-> archive]]
    /\ imports' = imports + 1
    /\ UNCHANGED <<rows, archive, ended, made, edits, deletes>>

(* One row of the loop in the import's transaction. *)
Written(so, r) == [ok |-> TRUE, rows |-> IF r.id \in Ids(so.rows) THEN Updated(so.rows, r) ELSE Append(so.rows, r)]
Failed(so) == [so EXCEPT !.ok = FALSE]

(* Mutant: a merge writes every row of the archive. *)
WriteEveryRow(so, r, mode) ==
    IF ~so.ok THEN so
    ELSE IF Allowed(so.rows, r) THEN Written(so, r) ELSE Failed(so)

WriteRow(so, r, mode) ==
    IF ~so.ok THEN so
    ELSE IF r.id \notin Ids(so.rows) \/ mode = "replace"
    THEN IF Inserts(so.rows, r) /\ r.id \notin Ids(so.rows) THEN Written(so, r) ELSE Failed(so)
    ELSE IF r.ver < Row(so.rows, r.id).ver THEN so
    ELSE IF Allowed(so.rows, r) THEN Written(so, r) ELSE Failed(so)

Imported(s, file, mode) ==
    FoldLeft(LAMBDA so, r : WriteRow(so, r, mode),
             [ok |-> TRUE, rows |-> IF mode = "replace" THEN <<>> ELSE s], file)

(* The transaction of importArchive; nothing of it stays when a row fails. *)
RunImport(d) ==
    /\ import[d] # None
    /\ LET job == import[d]
           out == Imported(rows[d], job.file, job.mode) IN
       /\ rows' = [rows EXCEPT ![d] = IF out.ok THEN out.rows ELSE @]
       /\ ended' = [ended EXCEPT ![d] = IF out.ok THEN "applied" ELSE "rejected"]
    /\ import' = [import EXCEPT ![d] = None]
    /\ UNCHANGED <<archive, made, edits, deletes, imports>>

-----------------------------------------------------------------------------
(* Both devices are new, or sync brought them one goal. *)
Goal == [id |-> 1, kind |-> "goal", ref |-> None, key |-> None, text |-> None, ver |-> 1, dead |-> FALSE]

ArchiveInit ==
    /\ \E synced \in SUBSET {Goal} : rows = [d \in Device |-> SetToSeq(synced)]
    /\ archive = None
    /\ import = [d \in Device |-> None] /\ ended = [d \in Device |-> None]
    /\ made = 1 /\ edits = 0 /\ deletes = 0 /\ imports = 0

ArchiveNext ==
    \E d \in Device : Create(d) \/ Edit(d) \/ SoftDelete(d) \/ Export(d) \/ StartImport(d) \/ RunImport(d)

ArchiveSpec == ArchiveInit /\ [][ArchiveNext]_archiveVars

-----------------------------------------------------------------------------
Finishes(d) == import[d] # None /\ import'[d] = None

(* An import leaves exactly the rows it should: what the archive holds in  *)
(* place of everything, or of each row the version that is the higher; or, *)
(* when it fails, every row it found.                                      *)
Newer(s, file, id) ==
    IF id \notin Ids(file) THEN Row(s, id)
    ELSE IF id \notin Ids(s) \/ Row(file, id).ver >= Row(s, id).ver THEN Row(file, id) ELSE Row(s, id)

Expected(s, file, mode) ==
    IF mode = "replace" THEN ToSet(file) ELSE {Newer(s, file, id) : id \in Ids(s) \union Ids(file)}

ImportIsExact ==
    [][\A d \in Device : Finishes(d) =>
         ToSet(rows'[d]) = IF ended'[d] = "applied" THEN Expected(rows[d], import[d].file, import[d].mode)
                           ELSE ToSet(rows[d])]_archiveVars

(* An import in place of everything fails only on a row marked as deleted  *)
(* or on one that refers to a later row of its own table: the tables are   *)
(* written in an order in which no other reference points ahead.           *)
PointsAhead(file, i) == \E j \in DOMAIN file : j > i /\ file[i].ref = file[j].id /\ file[i].kind = file[j].kind

RejectedForAReason ==
    [][\A d \in Device : Finishes(d) /\ import[d].mode = "replace" /\ ended'[d] = "rejected" =>
         \E i \in DOMAIN import[d].file : import[d].file[i].dead \/ PointsAhead(import[d].file, i)]_archiveVars

-----------------------------------------------------------------------------
(* What the documents, tests and comments say and the code does not do.    *)

(* "Export my data: portable archive": what a device exported it can import *)
(* again in place of everything.                                           *)
AnExportComesBack == [][\A d \in Device : Finishes(d) /\ import[d].mode = "replace" => ended'[d] = "applied"]_archiveVars

(* "merge (default) keeps the newer version of each row": a row the preview *)
(* counts as skipped stays as it was.                                      *)
SkippedIsKept ==
    [][\A d \in Device : Finishes(d) /\ import[d].mode = "merge" =>
         \A id \in Ids(rows[d]) \intersect Ids(import[d].file) :
           import[d].preview[id] = "skip" => Row(rows'[d], id) = Row(rows[d], id)]_archiveVars

(* The archive of another device can be merged.                            *)
AnArchiveCanBeMerged == [][\A d \in Device : Finishes(d) /\ import[d].mode = "merge" => ended'[d] = "applied"]_archiveVars

(* An import applies all of an archive that it may and says what it left   *)
(* out, and rejects an archive for a reason only.                          *)
ImportIsHonest == ImportIsExact /\ RejectedForAReason
=============================================================================
