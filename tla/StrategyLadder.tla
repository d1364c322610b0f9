--------------------------- MODULE StrategyLadder ---------------------------
(***************************************************************************)
(* StrategyService: the directions of a user by horizon, built from the     *)
(* goals and edited one by one, and the history of every change of them.    *)
(*                                                                         *)
(* A row and its line in strategy_changes are two statements and no         *)
(* transaction holds them; statements run in the order they are issued.     *)
(* Of a row the title, the goal and the status are kept: these are what is  *)
(* told.  The horizons of the model are those fed by one kind of goal.      *)
(***************************************************************************)
EXTENDS Integers, Sequences, SequencesExt, FiniteSets

CONSTANTS
    Direction,      \* the ids of items, given in order
    LifeGoal,       \* the goals
    LadderTitle,    \* the titles of goals and of items
    Horizons,       \* HORIZONS, as a sequence
    AtMost,         \* how many goals a horizon takes
    MaxDirections,  \* bound: what the user does to goals and items
    LadderCrashes   \* bound

ASSUME LadderAssumption == Direction \subseteq Nat /\ {AtMost, MaxDirections, LadderCrashes} \subseteq Nat

VARIABLES
    ladder,     \* the rows of strategy_items
    changes,    \* what strategy_changes says of each item in the end
    toRecord,   \* the rows whose line in the history is still to be written
    lifeGoals,  \* the goals: whether active, and the title
    building,   \* buildFromGoals, as far as it is
    undisturbed,\* nobody else wrote since it began
    directed, ladderCrashes

ladderVars == <<ladder, changes, toRecord, lifeGoals, building, undisturbed, directed, ladderCrashes>>

NotMade == [status |-> "none"]
NotBuilding == [step |-> "idle"]
ActiveOn(h) == {i \in Direction : ladder[i].status = "active" /\ ladder[i].horizon = h}
Titles(items) == {ladder[i].title : i \in items}
Steered == {g \in LifeGoal : lifeGoals[g].status = "active"}

LadderInit ==
    /\ ladder = [i \in Direction |-> NotMade] /\ changes = [i \in Direction |-> NotMade] /\ toRecord = <<>>
    /\ lifeGoals \in [LifeGoal -> [status : {"active"}, title : LadderTitle]]
    /\ building = NotBuilding /\ undisturbed = FALSE /\ directed = 0 /\ ladderCrashes = 0

(* Write a row; its change is recorded by the next statement of the same caller. *)
WriteDirection(i, row) == ladder' = [ladder EXCEPT ![i] = row] /\ toRecord' = Append(toRecord, <<i, row>>)
AddItem(i, h, title, g) ==
    /\ ladder[i] = NotMade /\ \A k \in Direction : k < i => ladder[k] # NotMade
    /\ WriteDirection(i, [status |-> "active", horizon |-> h, title |-> title, goal |-> g])

Record ==
    /\ toRecord # <<>>
    /\ changes' = [changes EXCEPT ![Head(toRecord)[1]] = Head(toRecord)[2]]
    /\ toRecord' = Tail(toRecord)
    /\ UNCHANGED <<ladder, lifeGoals, building, undisturbed, directed, ladderCrashes>>

(* The goals are read once, for all of the horizons. *)
BuildFromGoals ==
    /\ building = NotBuilding /\ directed < MaxDirections /\ directed' = directed + 1
    /\ \E goals \in {SetToSeq(s) : s \in {s \in SUBSET Steered : Cardinality(s) <= AtMost
                                                     /\ (Cardinality(s) < AtMost => s = Steered)}} :
         building' = [step |-> "horizon", todo |-> Horizons, goals |-> [k \in DOMAIN goals |-> <<goals[k], lifeGoals[goals[k]].title>>]]
    /\ undisturbed' = TRUE
    /\ UNCHANGED <<ladder, changes, toRecord, lifeGoals, ladderCrashes>>

(* A horizon without goals is left as it is. *)
SkipHorizon ==
    /\ building.step = "horizon" /\ building.todo # <<>> /\ building.goals = <<>>
    /\ building' = [building EXCEPT !.todo = Tail(@)]
    /\ UNCHANGED <<ladder, changes, toRecord, lifeGoals, undisturbed, directed, ladderCrashes>>

(* setHorizon: the items are read, those with a title that is not wanted are *)
(* dropped one by one, the others are kept, and what is missing is added.     *)
SetHorizon ==
    /\ building.step = "horizon" /\ building.todo # <<>> /\ building.goals # <<>>
    /\ LET existing == ActiveOn(Head(building.todo))
           wanted == {g[2] : g \in Range(building.goals)}
       IN building' = [step |-> "drop", todo |-> building.todo, goals |-> building.goals, rest |-> building.goals,
                       existing |-> existing, titles |-> Titles(existing),
                       unwanted |-> {i \in existing : ladder[i].title \notin wanted}]
    /\ UNCHANGED <<ladder, changes, toRecord, lifeGoals, undisturbed, directed, ladderCrashes>>

Drop ==
    /\ building.step = "drop" /\ toRecord = <<>>
    /\ \E i \in building.unwanted :
         /\ WriteDirection(i, [ladder[i] EXCEPT !.status = "dropped"])
         /\ building' = [building EXCEPT !.unwanted = @ \ {i}]
    /\ UNCHANGED <<changes, lifeGoals, undisturbed, directed, ladderCrashes>>

AddNext ==
    /\ building.step = "drop" /\ building.unwanted = {} /\ toRecord = <<>> /\ building.rest # <<>>
    /\ LET g == Head(building.rest) IN
       IF g[2] \in building.titles THEN UNCHANGED <<ladder, toRecord>>
       ELSE \E i \in Direction : AddItem(i, Head(building.todo), g[2], g[1])
    /\ building' = [building EXCEPT !.rest = Tail(@)]
    /\ UNCHANGED <<changes, lifeGoals, undisturbed, directed, ladderCrashes>>

HorizonIsSet ==
    /\ building.step = "drop" /\ building.unwanted = {} /\ building.rest = <<>> /\ toRecord = <<>>
    /\ building' = [step |-> "horizon", todo |-> Tail(building.todo), goals |-> building.goals]
    /\ UNCHANGED <<ladder, changes, toRecord, lifeGoals, undisturbed, directed, ladderCrashes>>

BuildIsOver ==
    /\ building.step = "horizon" /\ building.todo = <<>>
    /\ building' = NotBuilding
    /\ UNCHANGED <<ladder, changes, toRecord, lifeGoals, undisturbed, directed, ladderCrashes>>

(* The user's own edits, one at a time: an item is finished or dropped, renamed, or made. *)
UpdateItem ==
    /\ Len(toRecord) <= 1
    /\ directed < MaxDirections /\ directed' = directed + 1 /\ undisturbed' = FALSE
    /\ \E i \in Direction :
         \/ \E s \in {"done", "dropped"} : ladder[i].status = "active" /\ WriteDirection(i, [ladder[i] EXCEPT !.status = s])
         \/ \E t \in LadderTitle : ladder[i].status = "active" /\ ladder[i].title # t /\ WriteDirection(i, [ladder[i] EXCEPT !.title = t])
         \/ \E t \in LadderTitle : AddItem(i, Head(Horizons), t, "none")
    /\ UNCHANGED <<changes, lifeGoals, building, ladderCrashes>>

(* A goal is archived, or a new one is made under its title. *)
ChangeGoal ==
    /\ directed < MaxDirections /\ directed' = directed + 1 /\ undisturbed' = FALSE
    /\ \E g \in LifeGoal :
         \/ lifeGoals[g].status = "active" /\ lifeGoals' = [lifeGoals EXCEPT ![g].status = "archived"]
         \/ \E t \in LadderTitle : lifeGoals[g].title # t /\ lifeGoals' = [lifeGoals EXCEPT ![g].title = t]
    /\ UNCHANGED <<ladder, changes, toRecord, building, ladderCrashes>>

(* The app is closed: what was to be recorded is not. *)
CrashInBuild ==
    /\ ladderCrashes < LadderCrashes /\ ladderCrashes' = ladderCrashes + 1
    /\ building' = NotBuilding /\ toRecord' = <<>> /\ undisturbed' = FALSE
    /\ UNCHANGED <<ladder, changes, lifeGoals, directed>>

LadderNext ==
    \/ Record \/ BuildFromGoals \/ SkipHorizon \/ SetHorizon \/ Drop \/ AddNext \/ HorizonIsSet \/ BuildIsOver
    \/ UpdateItem \/ ChangeGoal \/ CrashInBuild

LadderSpec == LadderInit /\ [][LadderNext]_ladderVars
-----------------------------------------------------------------------------
LadderTypeOK ==
    /\ \A i \in Direction :
         ladder[i] # NotMade => ladder[i].status \in {"active", "done", "dropped"} /\ ladder[i].title \in LadderTitle
    /\ {r[1] : r \in Range(toRecord)} \subseteq Direction

(* "Nothing is overwritten silently" (strategy.ts): what the history says of an *)
(* item is what the item is, but for what is being written and for one change    *)
(* each time the app was closed in between.                                       *)
OnRecord ==
    LET silent == {i \in Direction : ladder[i] # changes[i]} \ {r[1] : r \in Range(toRecord)}
    IN Cardinality(silent) <= 2 * ladderCrashes /\ (ladderCrashes = 0 => silent = {})

(* When a build is through and nobody wrote meanwhile, every horizon shows the *)
(* goals it was built from and nothing else: closed over a crash and a repeat.  *)
LadderShowsTheGoals ==
    building.step = "horizon" /\ building.todo = <<>> /\ undisturbed /\ building.goals # <<>> =>
       \A h \in Range(Horizons) : Titles(ActiveOn(h)) = {g[2] : g \in Range(building.goals)}

(* Every active goal hangs on the ladder it was built into (docs/07, 6). *)
EveryGoalIsOnTheLadder ==
    building.step = "horizon" /\ building.todo = <<>> /\ undisturbed =>
       \A g \in Range(building.goals) : \E i \in Direction : ladder[i].status = "active" /\ ladder[i].goal = g[1]

(* A ladder that was just built shows no goal that is closed. *)
ClosedGoalsLeave ==
    building.step = "horizon" /\ building.todo = <<>> /\ undisturbed =>
       \A i \in Direction : ladder[i].status = "active" /\ ladder[i].goal # "none" => ladder[i].goal \in Steered

(* The strategy and its history agree, and the ladder is what the goals say. *)
StrategyIsOnRecord == LadderTypeOK /\ OnRecord /\ LadderShowsTheGoals
=============================================================================
