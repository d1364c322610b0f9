------------------------------- MODULE MCData -------------------------------
(***************************************************************************)
(* What keeps the user's data on a device, one part in each behaviour: the *)
(* archives, the backups beside the database, the copy on the server, the  *)
(* settings, and the start of the app.                                     *)
(***************************************************************************)
EXTENDS Archive, BackupShelf, CloudBackup, SettingsCache, Launch

CONSTANTS Parts, d1, d2, c1, c2
VARIABLE part

(* Archives hold rows of three tables; a task refers to a goal, a snapshot *)
(* is the only one of its day.                                             *)
MCKinds == {"goal", "task", "daily_snapshot"}
(* What the tables may hold at the start: a path, its topic, a review and  *)
(* a task of the topic.                                                    *)
MCKeys == [c \in Cell |-> CASE c = "path" -> {} [] c = "topic" -> {"path"}
                            [] OTHER -> {"topic"}]
MCDataSymmetry == Permutations({d1, d2}) \union Permutations({c1, c2})

MCInit ==
    /\ part \in Parts
    /\ ArchiveInit /\ (part # "archive" => rows = [d \in Device |-> <<>>])
    /\ ShelfInit /\ CloudInit
    /\ SettingInit /\ (part # "settings" => setting = [d \in Client |-> Absent])
    /\ LaunchInit /\ (part # "launch" => NewDatabase /\ ~checked.damaged)

MCNext ==
    \/ part = "archive"  /\ ArchiveNext /\ UNCHANGED <<shelfVars, cloudVars, settingVars, launchVars, part>>
    \/ part = "shelf"    /\ ShelfNext   /\ UNCHANGED <<archiveVars, cloudVars, settingVars, launchVars, part>>
    \/ part = "cloud"    /\ CloudNext   /\ UNCHANGED <<archiveVars, shelfVars, settingVars, launchVars, part>>
    \/ part = "settings" /\ SettingNext /\ UNCHANGED <<archiveVars, shelfVars, cloudVars, launchVars, part>>
    \/ part = "launch"   /\ LaunchNext  /\ UNCHANGED <<archiveVars, shelfVars, cloudVars, settingVars, part>>

dataVars == <<archiveVars, shelfVars, cloudVars, settingVars, launchVars, part>>
MCSpec == MCInit /\ [][MCNext]_dataVars
=============================================================================
