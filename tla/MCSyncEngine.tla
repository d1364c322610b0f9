---------------------------- MODULE MCSyncEngine ----------------------------
(* Small instances of SyncEngine for TLC. *)
EXTENDS SyncEngine

CONSTANTS phone, desktop, task, project, title, notes

BothDevices == {phone, desktop}
OneDevice == {phone}
OneTask == {task}
TaskAndProject == {task, project}
TwoFields == {title, notes}

NoParent == [e \in Entity |-> e]
TaskInProject == [e \in Entity |-> project]

(* Tasks go before projects (repos.ts: 8 and 7). *)
Priorities == [e \in Entity |-> IF e = task THEN 8 ELSE 7]

(* Every field has one device the user edits it on. *)
OwnField == {<<phone, e, title>> : e \in Entity} \cup {<<desktop, e, notes>> : e \in Entity}
(* Both edit the task, the phone the project. *)
FewFields == {<<phone, task, title>>, <<desktop, task, notes>>, <<phone, project, title>>}
PhoneEdits == {<<phone, e, f>> : e \in Entity, f \in Field}
AnyField == Device \X Entity \X Field
AnyDelete == Device \X Entity
PhoneDelete == {phone} \X Entity

AtRest == {"idle"}
WhileWaiting == {"idle", "push", "pull"}
Always == {"idle", "push", "answer", "pull", "apply", "decided", "requeue"}
AllChoices == {"local", "remote", "merged"}
=============================================================================
