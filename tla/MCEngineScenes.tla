--------------------------- MODULE MCEngineScenes ---------------------------
(***************************************************************************)
(* Instances of SyncEngine for TLC, each with the devices, edits and faults *)
(* its property needs; a behaviour stays in the scene it begins with.       *)
(***************************************************************************)
EXTENDS Integers

CONSTANTS phone, desktop, task, title, notes, NoRow, NoBase, NoConflict

VARIABLES row, queue, base, conf, cursor, eng, srv, feed, spent, said, scene

Entity == {task}
Field == {title, notes}
Status == title
Completing == {}
Parent == [e \in Entity |-> e]
Priority == [e \in Entity |-> 8]
MAX_ATTEMPTS == 6
PageLimit == 9

Both == {phone, desktop}
AnyField == Both \X Entity \X Field
Always == {"idle", "push", "answer", "pull", "apply", "decided", "requeue"}

(* One device that edits at any moment, with a lost message and a crash. *)
Alone == INSTANCE SyncEngine WITH
    Device <- {phone}, Critical <- {}, Editor <- {phone} \X Entity \X Field, Deleter <- {}, Choice <- {},
    EditWindow <- Always, OneAtATime <- FALSE, MaxTorn <- 0,
    MaxEdits <- 4, MaxFaults <- 1, MaxCrashes <- 1, MaxChoices <- 0

(* Two devices that edit the same fields, a cycle at a time, no faults. *)
Pair == INSTANCE SyncEngine WITH
    Device <- Both, Critical <- {}, Editor <- AnyField, Deleter <- {}, Choice <- {},
    EditWindow <- {"idle"}, OneAtATime <- TRUE, MaxTorn <- 0,
    MaxEdits <- 5, MaxFaults <- 0, MaxCrashes <- 0, MaxChoices <- 0

(* A critical entity, edited and deleted on two devices. *)
Goal == INSTANCE SyncEngine WITH
    Device <- Both, Critical <- Entity, Editor <- AnyField, Deleter <- Both \X Entity, Choice <- {},
    EditWindow <- {"idle"}, OneAtATime <- TRUE, MaxTorn <- 0,
    MaxEdits <- 4, MaxFaults <- 0, MaxCrashes <- 0, MaxChoices <- 0

(* Every action but the lost messages. *)
All == INSTANCE SyncEngine WITH
    Device <- Both, Critical <- Entity, Editor <- {<<phone, task, title>>, <<desktop, task, notes>>},
    Deleter <- {phone} \X Entity, Choice <- {"local", "remote", "merged"},
    EditWindow <- {"idle"}, OneAtATime <- TRUE, MaxTorn <- 1,
    MaxEdits <- 3, MaxFaults <- 0, MaxCrashes <- 1, MaxChoices <- 1

Init ==
    \/ scene = "alone" /\ Alone!Init
    \/ scene = "pair" /\ Pair!Init
    \/ scene = "goal" /\ Goal!Init
    \/ scene = "all" /\ All!Init

Next ==
    /\ \/ scene = "alone" /\ Alone!Next
       \/ scene = "pair" /\ Pair!Next
       \/ scene = "goal" /\ Goal!Next
       \/ scene = "all" /\ All!Next
    /\ UNCHANGED scene

Spec == Init /\ [][Next]_<<row, queue, base, conf, cursor, eng, srv, feed, spent, said, scene>>
-----------------------------------------------------------------------------
(* What one device edits reaches the server or a conflict, whatever gets lost. *)
NothingLost == scene = "alone" => Alone!NothingLost

(* A row with unsent changes has an operation in the queue. *)
PendingIsQueued == scene = "alone" => Alone!PendingIsQueued

(* Two devices with nothing left to do hold the same rows as the server. *)
Converged == scene = "pair" => Pair!Converged

(* An operation that waits for the user has its conflict open, until the user     *)
(* decides (SyncEngine.recordConflict).                                            *)
ConflictIsAsked == scene = "goal" => Goal!ConflictIsAsked

(* No operation is stuck in flight, whatever crashes, resets and lost answers came *)
(* between (SyncEngine.push, resetInFlight).                                         *)
NothingIsStuck ==
    /\ scene = "all" => All!InFlightIsSound
    /\ scene = "alone" => Alone!InFlightIsSound

(* An edit is on the server, in the queue or put before the user: none is dropped *)
(* by a merge, a retry or a decision, or left in flight for good.                   *)
EditsAreKept == NothingLost /\ PendingIsQueued /\ ConflictIsAsked /\ NothingIsStuck
=============================================================================
