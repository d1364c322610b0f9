---------------------------- MODULE CloudBackup ----------------------------
(***************************************************************************)
(* The cloud copy of a user: one row on the server (apps/server/src/       *)
(* services/cloud-backup.ts, routes/backup.ts), encrypted by the device    *)
(* that uploads it with the key its secure storage holds (apps/web/src/    *)
(* cloud-backup.ts).                                                       *)
(*                                                                         *)
(*   data      per device, its data, as the number of its last change      *)
(*   key       per device, the key its secure storage holds                *)
(*   slot      the row: who encrypted what with which key, and whether the *)
(*             bytes still have the checksum stored beside them            *)
(*   busy      per device, the one request its screen waits for            *)
(*   got       per device, how its last download ended                     *)
(***************************************************************************)
EXTENDS Naturals

CONSTANTS
    Phone,            \* the devices of the user
    Nothing,          \* no key, no row, no request, no download yet
    MaxSaves,         \* bound: changes of the data
    MaxRequests,      \* bound: requests of the screens
    MaxWipes          \* bound: secure storages that are cleared

ASSUME CloudAssumption == Nothing \notin Nat

VARIABLES data, key, slot, busy, got, keys, saves, requests, wipes

cloudVars == <<data, key, slot, busy, got, keys, saves, requests, wipes>>

(* Both devices may have got the same data by sync. *)
Save(d) ==
    /\ saves < MaxSaves
    /\ saves' = saves + 1
    /\ data' = [data EXCEPT ![d] = saves']
    /\ UNCHANGED <<key, slot, busy, got, keys, requests, wipes>>

Wipe(d) ==
    /\ wipes < MaxWipes /\ key[d] # Nothing
    /\ key' = [key EXCEPT ![d] = Nothing]
    /\ wipes' = wipes + 1
    /\ UNCHANGED <<data, slot, busy, got, keys, saves, requests>>

(* Mutant: every upload has a key of its own. *)
FreshKey(d) == [key EXCEPT ![d] = keys + 1]

(* ensureKey: the key the storage holds, or a new one that is stored. *)
EnsureKey(d) == [key EXCEPT ![d] = IF @ = Nothing THEN keys + 1 ELSE @]

UseKey(d) ==
    /\ key' = EnsureKey(d)
    /\ keys' = keys + (IF key'[d] = key[d] THEN 0 ELSE 1)

Ask(d, request) ==
    /\ busy[d] = Nothing /\ requests < MaxRequests
    /\ busy' = [busy EXCEPT ![d] = request]
    /\ requests' = requests + 1

-----------------------------------------------------------------------------
(* uploadCloudBackup: export, encrypt, send. *)
Upload(d) ==
    /\ UseKey(d)
    /\ Ask(d, [type |-> "upload", by |-> d, key |-> key'[d], data |-> data[d], intact |-> TRUE])
    /\ UNCHANGED <<data, slot, got, saves, wipes>>

(* CloudBackupStore.upload: the row is replaced, whatever it held, unless  *)
(* the transfer changed the bytes.                                         *)
Store(d) ==
    /\ busy[d] # Nothing /\ busy[d].type = "upload"
    /\ slot' \in {busy[d], slot}
    /\ busy' = [busy EXCEPT ![d] = Nothing]
    /\ UNCHANGED <<data, key, got, keys, saves, requests, wipes>>

(* deleteCloudBackup *)
Delete(d) ==
    /\ slot # Nothing
    /\ Ask(d, Nothing)
    /\ slot' = Nothing
    /\ UNCHANGED <<data, key, got, keys, saves, wipes>>

(* The bytes of the row change on the server's disk. *)
Rot ==
    /\ slot # Nothing /\ slot.intact
    /\ slot' = [slot EXCEPT !.intact = FALSE]
    /\ UNCHANGED <<data, key, busy, got, keys, saves, requests, wipes>>

(* GET /v1/backup/latest?blob=1 reads the row twice: latestMeta, then *)
(* latestBlob, which checks the checksum of what it read.             *)
ReadMeta(d) ==
    /\ slot # Nothing
    /\ Ask(d, [type |-> "download"])
    /\ UNCHANGED <<data, key, slot, got, keys, saves, wipes>>

(* downloadCloudBackup with the answer: the key of this device opens the blob, or not. *)
Opened(d) ==
    IF slot = Nothing THEN [result |-> "absent"]
    ELSE IF ~slot.intact THEN [result |-> "corrupted"]
    ELSE IF key'[d] # slot.key THEN [result |-> "unreadable", slot |-> slot]
    ELSE [result |-> "read", data |-> slot.data]

ReadBlob(d) ==
    /\ busy[d] # Nothing /\ busy[d].type = "download"
    /\ IF slot # Nothing /\ slot.intact THEN UseKey(d) ELSE UNCHANGED <<key, keys>>
    /\ got' = [got EXCEPT ![d] = Opened(d)]
    /\ busy' = [busy EXCEPT ![d] = Nothing]
    /\ UNCHANGED <<data, slot, saves, requests, wipes>>

-----------------------------------------------------------------------------
CloudInit ==
    /\ data = [d \in Phone |-> 0] /\ key = [d \in Phone |-> Nothing] /\ slot = Nothing
    /\ busy = [d \in Phone |-> Nothing] /\ got = [d \in Phone |-> Nothing]
    /\ keys = 0 /\ saves = 0 /\ requests = 0 /\ wipes = 0

CloudNext ==
    \/ \E d \in Phone : Save(d) \/ Wipe(d) \/ Upload(d) \/ Store(d) \/ Delete(d) \/ ReadMeta(d) \/ ReadBlob(d)
    \/ Rot

CloudSpec == CloudInit /\ [][CloudNext]_cloudVars

-----------------------------------------------------------------------------
(* The device that made the copy can read it as long as its storage was    *)
(* not cleared, also when it uploads, downloads and another device uploads *)
(* and deletes in between; and what a device reads somebody had.           *)
CopyIsReadable ==
    /\ slot # Nothing /\ wipes = 0 => key[slot.by] = slot.key
    /\ \A d \in Phone : got[d] # Nothing /\ got[d].result = "unreadable" /\ wipes = 0 => got[d].slot.by # d
    /\ \A d \in Phone : got[d] # Nothing /\ got[d].result = "read" => got[d].data <= saves

-----------------------------------------------------------------------------
(* What the screen and the documents say and the code does not do. *)

(* "If the storage is cleared the cloud copy cannot be restored", and only *)
(* then: the button to download and import is there on every device.       *)
UnreadableOnlyAfterAWipe == \A d \in Phone : got[d] # Nothing /\ got[d].result = "unreadable" => wipes > 0

(* "One latest backup per user": the copy is never replaced by an older one. *)
LatestIsKept == [][slot # Nothing /\ slot' # Nothing => slot'.data >= slot.data]_cloudVars
=============================================================================
