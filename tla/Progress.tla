------------------------------ MODULE Progress ------------------------------
(***************************************************************************)
(* ProgressService, SnapshotService and WeeklyReviewService                *)
(* (packages/core/src/services/progress.ts) on the devices of one account: *)
(* the metrics of a day and of a week and the streak, computed from the    *)
(* tasks as they are now; the snapshot of a day that is over, taken by the *)
(* recovery at launch and by the button of the Progress screen; the review *)
(* of a week; and the snapshots that sync carries to the other device.     *)
(*                                                                         *)
(*   work       per device and task, its scheduled day and its status      *)
(*   studied    per device, the days with study minutes                    *)
(*   daily      per device and day, its row of daily_snapshots, or NoRow *)
(*   shared     what the server has of these rows, in its order            *)
(***************************************************************************)
EXTENDS Integers, Sequences, FiniteSets

CONSTANTS
    Owner,            \* the devices
    UserDevice,             \* those the user works and reviews on
    Work,             \* the tasks
    NoRow,
    WeekLength, LastDate,
    LastTaking,       \* bound: the last day in behaviours that take snapshots
    StreakLimit,      \* the days streak() looks back
    MaxWorkOps, MaxTakings, MaxProgressCrashes

VARIABLES date, work, studied, daily, weekly, snapshotFlag, reviewFlag, taking, reviewing,
          shared, pulled, progressOps

progressVars == <<date, work, studied, daily, weekly, snapshotFlag, reviewFlag, taking, reviewing,
                  shared, pulled, progressOps>>
sharedVars == <<shared, pulled>>

Dates == 0..LastDate
WeekOf(day) == day - (day % WeekLength)
BestOf(s) == CHOOSE n \in s : \A m \in s : m <= n

-----------------------------------------------------------------------------
(* dayMetrics(): what of a day's tasks is done, and what was studied. *)

OnDay(d, day) == {i \in Work : work[d][i].day = day}
CompletedOn(d, day) == {i \in OnDay(d, day) : work[d][i].status = "done"}
DayMetrics(d, day) ==
    [planned   |-> Cardinality(OnDay(d, day)),
     completed |-> Cardinality(CompletedOn(d, day)),
     study     |-> day \in studied[d]]

ActiveDay(d, day) == DayMetrics(d, day).completed > 0 \/ DayMetrics(d, day).study

(* weekMetrics(): the sums over its days. *)
WeekMetrics(d, week) ==
    LET days == (week..(week + WeekLength - 1)) \intersect Dates
    IN  [planned |-> Cardinality(UNION {OnDay(d, day) : day \in days}),
         completed |-> Cardinality(UNION {CompletedOn(d, day) : day \in days}),
         active |-> Cardinality({day \in days : ActiveDay(d, day)})]

(* streak(): back from today; today may still be in progress. *)
StreakFrom(d) ==
    LET Run[i \in 0..StreakLimit] ==
            IF i = StreakLimit \/ i > date THEN 0
            ELSE IF ActiveDay(d, date - i) THEN 1 + Run[i + 1]
            ELSE IF i = 0 THEN Run[1] ELSE 0
    IN  Run[0]

(* One that takes an unfinished today for the end of the streak. *)
StrictStreak(d) ==
    LET Run[i \in 0..StreakLimit] ==
            IF i = StreakLimit \/ i > date THEN 0
            ELSE IF ActiveDay(d, date - i) THEN 1 + Run[i + 1] ELSE 0
    IN  Run[0]
Streak(d) == StreakFrom(d)

-----------------------------------------------------------------------------
(* What the user does meanwhile (TaskLife, LearningPath). *)

WorkOp == progressOps.work < MaxWorkOps /\ progressOps' = [progressOps EXCEPT !.work = @ + 1]
RestOfWork == UNCHANGED <<date, daily, weekly, snapshotFlag, reviewFlag, taking, reviewing, sharedVars>>

FinishWork(d, i) ==
    /\ work[d][i].status = "planned" /\ WorkOp
    /\ work' = [work EXCEPT ![d][i].status = "done"]
    /\ UNCHANGED studied /\ RestOfWork

Reopen(d, i) ==
    /\ work[d][i].status = "done" /\ WorkOp
    /\ work' = [work EXCEPT ![d][i].status = "planned"]
    /\ UNCHANGED studied /\ RestOfWork

(* To another day, today or later. *)
Reschedule(d, i) ==
    /\ work[d][i].status = "planned" /\ WorkOp
    /\ \E day \in date..LastDate : day # work[d][i].day /\ work' = [work EXCEPT ![d][i].day = day]
    /\ UNCHANGED studied /\ RestOfWork

Study(d) ==
    /\ date \notin studied[d]
    /\ studied' = [studied EXCEPT ![d] = @ \union {date}]
    /\ UNCHANGED <<work, progressOps>> /\ RestOfWork

-----------------------------------------------------------------------------
(* ensureUpToDate(): the three days before today, the latest first.  The   *)
(* days before the first one of the model are passed over.                 *)

RestOfTaking == UNCHANGED <<date, work, studied, weekly, reviewFlag, reviewing>>
NotTaking == [back |-> 0, day |-> 0, metrics |-> NoRow, began |-> 0]

EnsureUpToDate(d) ==
    /\ taking[d].back = 0 /\ snapshotFlag[d] # date /\ progressOps.takings < MaxTakings
    /\ taking' = [taking EXCEPT ![d] = [NotTaking EXCEPT !.back = 1, !.began = date]]
    /\ progressOps' = [progressOps EXCEPT !.takings = @ + 1]
    /\ UNCHANGED <<daily, snapshotFlag, sharedVars>> /\ RestOfTaking

(* Counted from today on. *)
DayFromToday(back) == date - back + 1
DayBack(back) == date - back

Lacking(d, back) == DayBack(back) >= 0 /\ daily[d][DayBack(back)] = NoRow

Measure(d) ==
    /\ taking[d].back \in 1..3 /\ taking[d].metrics = NoRow
    /\ \E next \in taking[d].back..4 :
           /\ \A back \in taking[d].back..(next - 1) : ~Lacking(d, back)
           /\ IF next = 4 THEN taking' = [taking EXCEPT ![d].back = 4]
              ELSE /\ Lacking(d, next)
                   /\ taking' = [taking EXCEPT ![d] = [@ EXCEPT !.back = next, !.day = DayBack(next),
                                                              !.metrics = DayMetrics(d, DayBack(next))]]
    /\ UNCHANGED <<daily, snapshotFlag, sharedVars, progressOps>> /\ RestOfTaking

(* create(): by now a row of that day may have come from the other device. *)
Freeze(d) ==
    /\ taking[d].metrics # NoRow
    /\ LET row == daily[d][taking[d].day]
           frozen == [id |-> IF row = NoRow THEN d ELSE row.id,
                      metrics |-> taking[d].metrics, taken |-> date, dirty |-> TRUE]
       IN  daily' = [daily EXCEPT ![d][taking[d].day] = frozen]
    /\ taking' = [taking EXCEPT ![d].back = @ + 1, ![d].metrics = NoRow]
    /\ UNCHANGED <<snapshotFlag, sharedVars, progressOps>> /\ RestOfTaking

(* The flag is the day on which the call began. *)
FlagDay(d) ==
    /\ taking[d].back = 4
    /\ snapshotFlag' = [snapshotFlag EXCEPT ![d] = taking[d].began]
    /\ taking' = [taking EXCEPT ![d] = NotTaking]
    /\ UNCHANGED <<daily, sharedVars, progressOps>> /\ RestOfTaking

-----------------------------------------------------------------------------
(* WeeklyReviewService.create() for the week it is: what it counts, the    *)
(* words of the model, then the row; a new one after the flag.             *)

RestOfReview == UNCHANGED <<date, work, studied, daily, snapshotFlag, taking, sharedVars, progressOps>>
NotReviewing == [pc |-> "none", week |-> 0, metrics |-> NoRow]

Analyze(d) ==
    /\ reviewing[d].pc = "none"
    /\ LET week == WeekOf(date) IN
       reviewing' = [reviewing EXCEPT ![d] = [pc |-> "narrative", week |-> week, metrics |-> WeekMetrics(d, week)]]
    /\ UNCHANGED <<weekly, reviewFlag>> /\ RestOfReview

UpdateReview(d) ==
    /\ reviewing[d].pc = "narrative" /\ weekly[d][reviewing[d].week] # NoRow
    /\ weekly' = [weekly EXCEPT ![d][reviewing[d].week] = reviewing[d].metrics]
    /\ reviewing' = [reviewing EXCEPT ![d] = NotReviewing]
    /\ UNCHANGED reviewFlag /\ RestOfReview

FlagReview(d) ==
    /\ reviewing[d].pc = "narrative" /\ weekly[d][reviewing[d].week] = NoRow
    /\ reviewFlag' = [reviewFlag EXCEPT ![d] = reviewing[d].week]
    /\ reviewing' = [reviewing EXCEPT ![d].pc = "insert"]
    /\ UNCHANGED weekly /\ RestOfReview

InsertReview(d) ==
    /\ reviewing[d].pc = "insert"
    /\ weekly' = [weekly EXCEPT ![d][reviewing[d].week] = reviewing[d].metrics]
    /\ reviewing' = [reviewing EXCEPT ![d] = NotReviewing]
    /\ UNCHANGED reviewFlag /\ RestOfReview

-----------------------------------------------------------------------------
(* Sync of the snapshots.  The id of a row is new on every device, and     *)
(* daily_snapshots has one row per day.                                    *)

RestOfSync == UNCHANGED <<date, work, studied, weekly, snapshotFlag, reviewFlag, taking, reviewing, progressOps>>

Unpushed(d) == SelectSeq([n \in 1..(LastDate + 1) |-> n - 1],
                         LAMBDA day : daily[d][day] # NoRow /\ daily[d][day].dirty)

PushDays(d) ==
    /\ Unpushed(d) # <<>>
    /\ shared' = shared \o [n \in DOMAIN Unpushed(d) |->
                               LET day == Unpushed(d)[n]
                               IN  [id |-> daily[d][day].id, day |-> day, from |-> d,
                                    metrics |-> daily[d][day].metrics, taken |-> daily[d][day].taken]]
    /\ daily' = [daily EXCEPT ![d] = [day \in Dates |->
                    IF @[day] = NoRow THEN NoRow ELSE [@[day] EXCEPT !.dirty = FALSE]]]
    /\ UNCHANGED pulled /\ RestOfSync

(* A row it has is written, unless it was changed here (ConflictRules); the *)
(* insert of another row for that day fails, and the pull goes on.          *)
PullDay(d) ==
    /\ pulled[d] < Len(shared)
    /\ LET e == shared[pulled[d] + 1]
           row == daily[d][e.day]
           known == row # NoRow
           written == /\ e.from # d
                      /\ known => row.id = e.id /\ ~row.dirty
       IN  daily' = [daily EXCEPT ![d][e.day] =
                        IF written THEN [id |-> e.id, metrics |-> e.metrics, taken |-> e.taken, dirty |-> FALSE] ELSE @]
    /\ pulled' = [pulled EXCEPT ![d] = @ + 1]
    /\ UNCHANGED shared /\ RestOfSync

-----------------------------------------------------------------------------
Midnight(last) ==
    /\ date < last
    /\ date' = date + 1
    /\ UNCHANGED <<work, studied, daily, weekly, snapshotFlag, reviewFlag, taking, reviewing, sharedVars, progressOps>>

(* The app goes away; the writes that were made are there. *)
ProgressCrash(d) ==
    /\ progressOps.crashes < MaxProgressCrashes
    /\ taking[d].back > 0 \/ reviewing[d].pc # "none"
    /\ taking' = [taking EXCEPT ![d] = NotTaking]
    /\ reviewing' = [reviewing EXCEPT ![d] = NotReviewing]
    /\ progressOps' = [progressOps EXCEPT !.crashes = @ + 1]
    /\ UNCHANGED <<date, work, studied, daily, weekly, snapshotFlag, reviewFlag, sharedVars>>

ProgressInit ==
    /\ date = 0
    /\ work = [d \in Owner |-> [i \in Work |-> [day |-> 0, status |-> "planned"]]]
    /\ studied = [d \in Owner |-> {}]
    /\ daily = [d \in Owner |-> [day \in Dates |-> NoRow]]
    /\ weekly = [d \in Owner |-> [day \in Dates |-> NoRow]]
    /\ snapshotFlag = [d \in Owner |-> -1] /\ reviewFlag = [d \in Owner |-> -1]
    /\ taking = [d \in Owner |-> NotTaking] /\ reviewing = [d \in Owner |-> NotReviewing]
    /\ shared = <<>> /\ pulled = [d \in Owner |-> 0]
    /\ progressOps = [work |-> 0, takings |-> 0, crashes |-> 0]

UserActs == \E d \in UserDevice, i \in Work : FinishWork(d, i) \/ Reopen(d, i) \/ Reschedule(d, i)

SnapshotNext ==
    \/ \E d \in Owner :
           \/ EnsureUpToDate(d) \/ Measure(d) \/ Freeze(d) \/ FlagDay(d)
           \/ PushDays(d) \/ PullDay(d) \/ ProgressCrash(d)
    \/ UserActs \/ Midnight(LastTaking)

ReviewNext ==
    \/ \E d \in UserDevice :
           \/ Analyze(d) \/ UpdateReview(d) \/ FlagReview(d) \/ InsertReview(d)
           \/ Study(d) \/ ProgressCrash(d)
    \/ UserActs \/ Midnight(LastDate)

ProgressNext == SnapshotNext \/ ReviewNext
ProgressSpec == ProgressInit /\ [][ProgressNext]_progressVars

-----------------------------------------------------------------------------
(* The streak is the longest run of active days that ends today or, while  *)
(* nothing was done today, yesterday: an unfinished today does not end it  *)
(* (streak()).                                                             *)
StreakIsTheRun ==
    \A d \in Owner :
        LET last == IF ActiveDay(d, date) THEN date ELSE date - 1
            runs == {n \in 0..(last + 1) : \A day \in (last - n + 1)..last : ActiveDay(d, day)}
        IN  Streak(d) = BestOf(runs)

(* docs/02 "freeze the day's state": no snapshot, here or from the other   *)
(* device, was taken before its day was over, whatever midnight comes      *)
(* between (ensureUpToDate).                                               *)
NoDayIsFrozenEarly ==
    \A d \in Owner, day \in Dates : daily[d][day] # NoRow => daily[d][day].taken > day

(* A week whose review is there is not asked about again, whatever was     *)
(* interrupted (WeeklyReviewService.create, the trigger of mentor.ts).     *)
ReviewIsRemembered ==
    \A d \in Owner : weekly[d][WeekOf(date)] # NoRow => reviewFlag[d] = WeekOf(date)

DaysAreToldTruly == StreakIsTheRun /\ NoDayIsFrozenEarly /\ ReviewIsRemembered

(* docs/02: records "can be created offline and still merge                 *)
(* deterministically": once all has been exchanged, the devices have the   *)
(* same snapshots.                                                         *)
SnapshotsAgree ==
    (\A d \in Owner : pulled[d] = Len(shared) /\ \A day \in Dates : daily[d][day] # NoRow => ~daily[d][day].dirty)
        => \A d, e \in Owner, day \in Dates :
               daily[d][day] # NoRow /\ daily[e][day] # NoRow => daily[d][day].metrics = daily[e][day].metrics

(* docs/02: a snapshot freezes the day.  What is in it does not change.    *)
FrozenStaysFrozen ==
    [][\A d \in Owner, day \in Dates :
           daily[d][day] # NoRow => daily'[d][day].metrics = daily[d][day].metrics]_progressVars

(* The week a flag says was reviewed has a review.                         *)
FlagMeansReview == \A d \in Owner : reviewFlag[d] >= 0 => weekly[d][reviewFlag[d]] # NoRow \/ reviewing[d].pc # "none"

=============================================================================
