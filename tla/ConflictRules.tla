---------------------------- MODULE ConflictRules ----------------------------
(***************************************************************************)
(* The pure part of conflict handling in packages/core/src/services/       *)
(* sync.ts: what changed on each side since the base, and what             *)
(* resolveWithRemote decides.                                              *)
(*                                                                         *)
(* The content of a row is a function val from Field to the number of the  *)
(* edit that wrote the field (0 for the value it was created with), so two *)
(* sides agree on a field exactly when they hold the same number.  del is  *)
(* the `deleted` column; version, timestamps and sync_state are            *)
(* bookkeeping and take no part in a merge.                                *)
(***************************************************************************)
EXTENDS Naturals, TLAPS

CONSTANTS
    Field,        \* the columns that are not bookkeeping
    Status,       \* the field called `status`
    Completing,   \* edits that write done, completed, achieved or cancelled
    NoBase        \* findBase returned null

(* changedFields: without a base every field counts as changed. *)
Changed(base, val) == {f \in Field : base = NoBase \/ base[f] # val[f]}

Overlap3(base, mine, theirs) == Changed(base, mine) \cap Changed(base, theirs)

-----------------------------------------------------------------------------
(* Field-disjoint changes: everything the remote side changed is taken,    *)
(* the rest stays.                                                         *)
DisjointMerge(base, mine, theirs) ==
    [f \in Field |-> IF f \in Changed(base, theirs) THEN theirs[f] ELSE mine[f]]

(* One side completed the status and the other did not. *)
CompletionClash(base, mine, theirs) ==
    /\ Status \in Overlap3(base, mine, theirs)
    /\ (mine[Status] \in Completing) # (theirs[Status] \in Completing)

(* The same field changed on both sides.  On a completion clash a side     *)
(* wins a field by completing it, otherwise the newer edit wins all of     *)
(* them; newer is the comparison of the two updated_at columns.  What only *)
(* the remote side changed is NOT taken here.                              *)
OverlapMerge(base, mine, theirs, newer) ==
    [f \in Field |->
        IF /\ f \in Overlap3(base, mine, theirs)
           /\ IF CompletionClash(base, mine, theirs)
              THEN mine[f] \notin Completing
              ELSE newer = "remote"
        THEN theirs[f] ELSE mine[f]]

(* resolveWithRemote for an entity that exists locally.                    *)
(*   do      "remote": take the remote row;  "merge": write and queue a    *)
(*           merged row;  "park": keep a conflict row;  "parkDelete": the  *)
(*           same without touching sync_state                              *)
(*   merged  counts towards the extra push at the end of the cycle         *)
(*   ask     needsUser                                                     *)
Resolve(mine, theirs, base, critical, newer) ==
    LET decide(do, val, merged, ask) ==
            [do |-> do, val |-> val, merged |-> merged, ask |-> ask]
    IN  IF mine.del # theirs.del
        THEN IF critical THEN decide("parkDelete", mine.val, FALSE, TRUE)
                         ELSE decide("remote", theirs.val, FALSE, FALSE)
        ELSE IF base # NoBase /\ Overlap3(base, mine.val, theirs.val) = {}
        THEN decide("merge", DisjointMerge(base, mine.val, theirs.val), TRUE, FALSE)
        ELSE IF critical \/ base = NoBase
        THEN decide("park", mine.val, FALSE, critical)
        ELSE decide("merge", OverlapMerge(base, mine.val, theirs.val, newer),
                    CompletionClash(base, mine.val, theirs.val), FALSE)

-----------------------------------------------------------------------------
(* What the merge gives for every base and every pair of edits. *)

Contents == [Field -> Nat]

(* A field that only one side changed keeps that side's value, and a field *)
(* nobody changed keeps the base's: a field-disjoint merge loses nothing   *)
(* (sync.ts, "both sides are kept").                                       *)
THEOREM DisjointMergeKeepsBoth ==
    ASSUME NEW base \in Contents, NEW mine \in Contents, NEW theirs \in Contents,
           base # NoBase, Overlap3(base, mine, theirs) = {}
    PROVE  /\ \A f \in Changed(base, mine) : DisjointMerge(base, mine, theirs)[f] = mine[f]
           /\ \A f \in Changed(base, theirs) : DisjointMerge(base, mine, theirs)[f] = theirs[f]
           /\ \A f \in Field \ (Changed(base, mine) \cup Changed(base, theirs)) :
                 DisjointMerge(base, mine, theirs)[f] = base[f]
  <1>1. \A f \in Changed(base, mine) : f \notin Changed(base, theirs)
    BY DEF Overlap3
  <1>2. Changed(base, mine) \subseteq Field /\ Changed(base, theirs) \subseteq Field
    BY DEF Changed
  <1>3. \A f \in Field \ Changed(base, mine) : mine[f] = base[f]
    BY DEF Changed
  <1> QED
    BY <1>1, <1>2, <1>3 DEF DisjointMerge

(* Two devices that merge each other's field-disjoint edits over the same  *)
(* base get the same content, whichever of them does it.                   *)
THEOREM DisjointMergeCommutes ==
    ASSUME NEW base \in Contents, NEW mine \in Contents, NEW theirs \in Contents,
           base # NoBase, Overlap3(base, mine, theirs) = {}
    PROVE  DisjointMerge(base, mine, theirs) = DisjointMerge(base, theirs, mine)
  <1>1. ASSUME NEW f \in Field
        PROVE  (IF f \in Changed(base, theirs) THEN theirs[f] ELSE mine[f])
                 = (IF f \in Changed(base, mine) THEN mine[f] ELSE theirs[f])
    <2>1. ~(f \in Changed(base, mine) /\ f \in Changed(base, theirs))
      BY DEF Overlap3
    <2>2. f \notin Changed(base, mine) => mine[f] = base[f]
      BY DEF Changed
    <2>3. f \notin Changed(base, theirs) => theirs[f] = base[f]
      BY DEF Changed
    <2> QED
      BY <2>1, <2>2, <2>3
  <1> QED
    BY <1>1 DEF DisjointMerge

(* The decision about a conflict over a critical entity is never to merge  *)
(* or to take the remote side, except for field-disjoint edits.            *)
THEOREM CriticalIsParked ==
    ASSUME NEW mine, NEW theirs, NEW base, NEW newer,
           Overlap3(base, mine.val, theirs.val) # {} \/ mine.del # theirs.del
    PROVE  Resolve(mine, theirs, base, TRUE, newer).do \in {"park", "parkDelete"}
  <1>1. CASE mine.del # theirs.del
    BY <1>1 DEF Resolve
  <1>2. CASE mine.del = theirs.del
    BY <1>2 DEF Resolve
  <1> QED
    BY <1>1, <1>2
=============================================================================
