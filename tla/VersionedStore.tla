--------------------------- MODULE VersionedStore ---------------------------
(***************************************************************************)
(* What the server's sync store promises its clients, with everything      *)
(* about requests, transactions and the feed left out: a map from entities *)
(* to versioned rows that changes in atomic commits, and in a commit every *)
(* entity either keeps its row or gets one with a greater version.  A row  *)
(* never disappears (a deletion is a row with del = TRUE).                 *)
(***************************************************************************)
EXTENDS Naturals

CONSTANTS Entity, NoRow

VARIABLE store

(* new may replace old in a commit. *)
Supersedes(new, old) ==
    /\ new # NoRow
    /\ old # NoRow => new.ver > old.ver

Init == store = [e \in Entity |-> NoRow]

Commit ==
    \A e \in Entity : store'[e] = store[e] \/ Supersedes(store'[e], store[e])

Spec == Init /\ [][Commit]_store
=============================================================================
