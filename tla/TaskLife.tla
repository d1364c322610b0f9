------------------------------ MODULE TaskLife ------------------------------
(***************************************************************************)
(* The life of the tasks: the operations of TaskService, each a row written *)
(* first and its history second, and the planner's writes to the same rows  *)
(* (PlannerService.persist and rebuildRemainingDay), which run in a          *)
(* transaction that other awaits may fall into.                             *)
(*                                                                         *)
(* Days are numbers; the time of day is left out: whether a slot begins     *)
(* later than now is a free choice.                                         *)
(***************************************************************************)
EXTENDS Integers, FiniteSets

CONSTANTS
    Task,       \* the ids there are, the ones not yet created included
    Attributes, \* what a task may be created as
    LastDay,    \* bound: the days that pass
    MaxCount,   \* bound: postponements of one task
    MaxOps,     \* bound: operations of the user
    MaxPlans,   \* bound: plans begun
    Overlap,    \* whether the user acts while a plan is being written
    Crashes     \* bound: how often the app is closed in the middle

TaskKinds == [strict : BOOLEAN, daily : BOOLEAN, route : {"none", "project"}]

ASSUME TaskAssumption ==
    /\ {LastDay, MaxCount, MaxOps, MaxPlans, Crashes} \subseteq Nat /\ Overlap \in BOOLEAN
    /\ MaxCount > 0 /\ Attributes \subseteq TaskKinds

NoDay == -1
NoTask == "none"
Absent == [status |-> "absent"]

VARIABLES
    task,    \* the rows: status, day, slot, completed_at, postponed_count, last_done_at, what it is
    today,
    user,    \* the operation in progress, with the row as it was read
    planner, \* the plan being written
    saved,   \* what a rollback of the open transaction restores
    planned, \* the history rows the planner wrote: their id is the task and the day
    history, \* per task: the postponements recorded, and those of an open task without a reason
    lastPlan,\* the day of the plan kept in app_state, if any
    ops, plans, crashes

taskVars == <<task, today, user, planner, saved, planned, history, lastPlan, ops, plans, crashes>>

Exists(t) == task[t].status # "absent"
Closed(r) == r.status \in {"done", "cancelled"}
IsOpen(t) == Exists(t) /\ ~Closed(task[t])
Fresh(attributes, day) ==
    [status |-> IF day = NoDay THEN "todo" ELSE "scheduled", day |-> day, slot |-> "none",
     completed |-> FALSE, count |-> 0, last |-> NoDay, as |-> attributes]

IdleUser == [op |-> "idle"]
IdlePlanner == [step |-> "idle"]
InTransaction == planner.step \in {"release", "persist", "write"}
Database == [task |-> task, planned |-> planned, history |-> history]

(* One task is there already; one that is not strict may have been put off once, *)
(* without a reason.                                                               *)
TaskInit ==
    /\ \E t \in Task, a \in Attributes, d \in {NoDay, 0}, n \in 0..1 :
          /\ n = 1 => ~a.strict /\ d = 0
          /\ task = [u \in Task |-> IF u = t THEN [Fresh(a, d) EXCEPT !.count = n] ELSE Absent]
          /\ history = [u \in Task |-> [postponed |-> IF u = t THEN n ELSE 0, unexplained |-> IF u = t THEN n ELSE 0]]
    /\ today = 0 /\ user = IdleUser /\ planner = IdlePlanner /\ saved = {}
    /\ planned = {} /\ lastPlan = NoDay /\ ops = 0 /\ plans = 0 /\ crashes = 0

(* Mutant: one postponement more goes by unasked. *)
IsProtectedLater(r) == ~Closed(r) /\ (r.as.strict \/ r.count > 2)

(* Does this task deserve a "why?" before it disappears? *)
IsProtected(r) == ~Closed(r) /\ (r.as.strict \/ r.count >= 2)

(* Mutant: a postponement is counted twice. *)
WrittenTwice(u, cur) ==
    IF u.op = "postpone" THEN [cur EXCEPT !.status = "postponed", !.count = u.was.count + 2, !.slot = "none", !.day = today + 1]
    ELSE [cur EXCEPT !.status = "todo"]

(* The columns an operation writes, computed from the row as it was read, into *)
(* the row as it is now.                                                        *)
Written(u, cur) ==
    LET was == u.was IN
    CASE u.op = "start"    -> [cur EXCEPT !.status = "in_progress"]
      [] u.op = "complete" ->
           IF was.as.daily
             THEN [cur EXCEPT !.status = "todo", !.day = today + 1, !.slot = "none", !.completed = TRUE, !.last = today]
             ELSE [cur EXCEPT !.status = "done", !.completed = TRUE, !.last = today]
      [] u.op = "reopen"   -> [cur EXCEPT !.status = "todo", !.completed = FALSE]
      [] u.op = "cancel"   -> [cur EXCEPT !.status = "cancelled"]
      [] u.op = "postpone" ->
           [cur EXCEPT !.status = "postponed", !.count = was.count + 1, !.slot = "none",
                       !.day = (IF was.day = NoDay THEN today ELSE was.day) + 1]
      [] u.op = "reschedule" ->
           [cur EXCEPT !.day = u.to, !.slot = "user", !.status = IF Closed(was) THEN was.status ELSE "scheduled"]

UserMayAct == user = IdleUser /\ ops < MaxOps /\ (Overlap \/ planner = IdlePlanner)

(* A task is created by the user or the mentor, for a day or for the backlog. *)
Create ==
    /\ UserMayAct /\ ops' = ops + 1
    /\ \E t \in Task, a \in Attributes, d \in {NoDay, today} :
          ~Exists(t) /\ task' = [task EXCEPT ![t] = Fresh(a, d)]
    /\ UNCHANGED <<today, user, planner, saved, planned, history, lastPlan, plans, crashes>>

(* The row is read.  To cancel or to postpone a protected task without a reason  *)
(* changes nothing: the question comes back instead.  Procrastination needs an   *)
(* id for the minimal version (bound).                                            *)
Read(op, t, reason, to) ==
    /\ UserMayAct /\ Exists(t)
    /\ op \in {"cancel", "postpone"} => ~(IsProtected(task[t]) /\ reason = "none")
    /\ op = "postpone" => task[t].count < MaxCount
    /\ reason = "procrastination" => op = "postpone" /\ \E n \in Task : ~Exists(n)
    /\ reason # "none" => op \in {"cancel", "postpone"}
    /\ op = "reschedule" <=> to # NoDay
    /\ user' = [op |-> op, task |-> t, was |-> task[t], reason |-> reason, to |-> to, step |-> "write"]
    /\ ops' = ops + 1
    /\ UNCHANGED <<task, today, planner, saved, planned, history, lastPlan, plans, crashes>>

(* A row that a rollback has taken back since is not there to be written.       *)
WriteRow ==
    /\ user.op # "idle" /\ user.step = "write"
    /\ task' = IF Exists(user.task) THEN [task EXCEPT ![user.task] = Written(user, task[user.task])] ELSE task
    /\ user' = [user EXCEPT !.step = "record"]
    /\ UNCHANGED <<today, planner, saved, planned, history, lastPlan, ops, plans, crashes>>

(* The history row follows, unless its task is gone; after procrastination a     *)
(* minimal version of the task is created for today.                              *)
RecordHistory ==
    /\ user.op # "idle" /\ user.step = "record"
    /\ LET t == user.task
           postponed == user.op = "postpone"
           unexplained == postponed /\ user.reason = "none" /\ ~Closed(user.was)
           One(b) == IF b THEN 1 ELSE 0
       IN /\ history' = IF ~Exists(t) THEN history
                         ELSE [history EXCEPT ![t] = [postponed |-> @.postponed + One(postponed),
                                                      unexplained |-> @.unexplained + One(unexplained)]]
          /\ IF Exists(t) /\ user.reason = "procrastination"
               THEN \E n \in Task : ~Exists(n) /\ task' = [task EXCEPT ![n] = Fresh([user.was.as EXCEPT !.daily = FALSE], today)]
               ELSE UNCHANGED task
    /\ user' = IdleUser
    /\ UNCHANGED <<today, planner, saved, planned, lastPlan, ops, plans, crashes>>

-----------------------------------------------------------------------------
(* Tasks::listForDay, overdue, backlog and the project tasks: what a plan for  *)
(* today may contain.                                                          *)
IsCandidate(t) ==
    /\ IsOpen(t)
    /\ \/ task[t].day = today
       \/ task[t].as.daily /\ task[t].last # today
       \/ task[t].as.route = "project" /\ task[t].status \in {"todo", "in_progress", "postponed"}
       \/ task[t].day = NoDay /\ task[t].status \in {"todo", "postponed"}

(* The dashboard builds today's plan; the Today screen and the plan_day tool write *)
(* it a second time; "rebuild" releases the later slots first.                     *)
Begin(caller) ==
    /\ planner = IdlePlanner /\ plans < MaxPlans /\ plans' = plans + 1 /\ (Overlap \/ user = IdleUser)
    /\ IF caller = "rebuild"
         THEN /\ planner' = [step |-> "release", caller |-> caller, plan |-> {},
                             todo |-> {t \in Task : task[t].status \in {"scheduled", "postponed", "todo"} /\ task[t].day = today}]
              /\ saved' = Database
         ELSE planner' = [step |-> "build", caller |-> caller, plan |-> {}, todo |-> {}] /\ UNCHANGED saved
    /\ UNCHANGED <<task, today, user, planned, history, lastPlan, ops, crashes>>

(* A task of the list read before the transaction gives up its slot, if it begins *)
(* later than now; the row is not read again.                                      *)
Release ==
    /\ planner.step = "release"
    /\ \/ \E t \in planner.todo :
            /\ \/ task' = [task EXCEPT ![t].slot = "none", ![t].status = "todo"]
               \/ UNCHANGED task
            /\ planner' = [planner EXCEPT !.todo = @ \ {t}]
       \/ planner.todo = {} /\ planner' = [planner EXCEPT !.step = "build"] /\ UNCHANGED task
    /\ saved' = IF planner.todo = {} THEN {} ELSE saved
    /\ UNCHANGED <<today, user, planned, history, lastPlan, ops, plans, crashes>>

(* The candidates that found a place make the plan (module DayPlanner). *)
Build ==
    /\ planner.step = "build"
    /\ \E plan \in SUBSET {t \in Task : IsCandidate(t)} :
          planner' = [planner EXCEPT !.step = "persist", !.plan = plan, !.todo = plan]
    /\ saved' = Database
    /\ UNCHANGED <<task, today, user, planned, history, lastPlan, ops, plans, crashes>>

(* A task that is done or cancelled by now is passed over. *)
PassesOver(r) == r.status = "absent" \/ Closed(r)

PersistRead ==
    /\ planner.step = "persist"
    /\ \E t \in planner.todo :
          planner' = IF PassesOver(task[t])
                       THEN [planner EXCEPT !.todo = @ \ {t}]
                       ELSE [step |-> "write", caller |-> planner.caller, plan |-> planner.plan, todo |-> planner.todo, task |-> t]
    /\ UNCHANGED <<task, today, user, saved, planned, history, lastPlan, ops, plans, crashes>>

(* Mutant: the history is taken back and the row is not. *)
RollBackHistory == planned' = saved.planned /\ history' = saved.history /\ planner' = IdlePlanner /\ saved' = {} /\ UNCHANGED task

RollBack ==
    /\ task' = saved.task /\ planned' = saved.planned /\ history' = saved.history
    /\ planner' = IdlePlanner /\ saved' = {}

(* The row is scheduled and its history row inserted; the id of that row is the  *)
(* task and the day, so a second plan of the day fails and takes all of itself    *)
(* back.                                                                          *)
PersistWrite ==
    /\ planner.step = "write"
    /\ LET t == planner.task IN
       IF <<t, today>> \in planned
         THEN RollBack
         ELSE /\ task' = [task EXCEPT ![t].day = today, ![t].slot = "planner", ![t].status = "scheduled"]
              /\ planned' = planned \union {<<t, today>>}
              /\ planner' = [step |-> "persist", caller |-> planner.caller, plan |-> planner.plan, todo |-> planner.todo \ {t}]
              /\ UNCHANGED <<history, saved>>
    /\ UNCHANGED <<today, user, lastPlan, ops, plans, crashes>>

(* app_state is updated, which changes nothing while it has no row: the fallback  *)
(* that would insert one waits for an error that does not come.                    *)
KeepPlan == lastPlan' = IF lastPlan = NoDay THEN NoDay ELSE today

PersistEnd ==
    /\ planner.step = "persist" /\ planner.todo = {}
    /\ KeepPlan
    /\ planner' = IF planner.caller = "load" THEN IdlePlanner
                  ELSE [planner EXCEPT !.caller = "load", !.todo = planner.plan]
    /\ saved' = IF planner.caller = "load" THEN {} ELSE Database
    /\ UNCHANGED <<task, today, user, planned, history, ops, plans, crashes>>

-----------------------------------------------------------------------------
(* The app is closed: the open transaction is undone, the operation in progress  *)
(* stops where it is.                                                             *)
Close ==
    /\ crashes < Crashes /\ crashes' = crashes + 1
    /\ user # IdleUser \/ planner # IdlePlanner
    /\ user' = IdleUser
    /\ IF InTransaction THEN RollBack ELSE planner' = IdlePlanner /\ UNCHANGED <<task, planned, history, saved>>
    /\ UNCHANGED <<today, lastPlan, ops, plans>>

NextDay ==
    /\ today < LastDay /\ user = IdleUser /\ planner = IdlePlanner
    /\ today' = today + 1
    /\ UNCHANGED <<task, user, planner, saved, planned, history, lastPlan, ops, plans, crashes>>

UserNext ==
    \/ Create \/ WriteRow \/ RecordHistory
    \/ \E t \in Task : \/ Read("start", t, "none", NoDay)
                       \/ Read("complete", t, "none", NoDay)
                       \/ Read("reopen", t, "none", NoDay)
                       \/ \E r \in {"none", "fatigue"} : Read("cancel", t, r, NoDay)
                       \/ \E r \in {"none", "fatigue", "procrastination"} : Read("postpone", t, r, NoDay)
                       \/ Read("reschedule", t, "none", today + 1)

PlannerWrites == Release \/ PersistRead \/ PersistWrite \/ PersistEnd
TaskPlannerNext == (\E c \in {"load", "twice", "rebuild"} : Begin(c)) \/ Build \/ PlannerWrites
TaskNext == UserNext \/ TaskPlannerNext \/ Close \/ NextDay
TaskSpec == TaskInit /\ [][TaskNext]_taskVars
-----------------------------------------------------------------------------
Statuses == {"absent", "todo", "scheduled", "in_progress", "postponed", "done", "cancelled"}

TaskTypeOK ==
    /\ \A t \in Task : /\ task[t].status \in Statuses
                       /\ Exists(t) => task[t].count \in 0..MaxCount /\ task[t].slot \in {"none", "user", "planner"}
    /\ planned \subseteq Task \X (0..LastDay)
    /\ planner.step \in {"idle", "release", "build", "persist", "write"}

(* An open task is put off without a reason twice at most, whatever happens to it *)
(* in between, and a strict one never (TaskService.postpone, "strict mode aware"). *)
UnexplainedAtMostTwice ==
    \A t \in Task : Exists(t) => history[t].unexplained <= (IF task[t].as.strict THEN 0 ELSE 2)

(* A slot the planner gave has the history row that says so, after failed plans   *)
(* and after the app was closed in the middle of one as well.                      *)
PlannedIsOnRecord ==
    \A t \in Task : Exists(t) /\ task[t].slot = "planner" => <<t, task[t].day>> \in planned

-----------------------------------------------------------------------------
(* "Completed work is never touched" (planner.ts).  It is when it is completed     *)
(* while the plan is being written.                                                *)
FinishedStaysFinished ==
    [][\A t \in Task : planner # IdlePlanner /\ user' = user /\ task[t].status = "done" => task'[t].status = "done"]_taskVars

(* The day can be planned again after a change (docs/07, adaptive rescheduling).   *)
(* The id of the history row is taken the second time.                             *)
PlanCanBeRebuilt == planner.step = "write" => <<planner.task, today>> \notin planned

(* The plan the user was shown is the one the mentor and the Today screen find     *)
(* (PlannerService.lastPlan).  It is never stored.                                 *)
PlanIsRemembered ==
    [][planner.step = "persist" /\ planner.todo = {} /\ planner'.step = "idle" => lastPlan' = today]_taskVars

(* A recurring task that was done today is not planned for today again             *)
(* (TaskService.listForDay passes over it; the project's open tasks do not).       *)
DoneForToday ==
    \A t \in Task : Exists(t) /\ task[t].as.daily /\ task[t].last = today =>
       ~(task[t].slot = "planner" /\ task[t].day = today /\ <<t, today>> \in planned /\ task[t].status = "scheduled"
         /\ planner = IdlePlanner)

(* A task in progress is "offered to the user, not silently reset" (docs/04).      *)
InProgressIsKept ==
    [][\A t \in Task : task[t].status = "in_progress" /\ user' = user => task'[t].status = "in_progress"]_taskVars

(* An unfinished task is asked about again: every open task is for a later day, or *)
(* some plan of today may contain it.  One that was scheduled for yesterday is in   *)
(* no list.                                                                         *)
UnfinishedComesBack == \A t \in Task : IsOpen(t) => task[t].day > today \/ IsCandidate(t)

(* In strict mode a task is never put off without a reason and an open one *)
(* twice at most, and each task of a plan is on record.  With the planner   *)
(* and the user at work at the same time a rollback takes back the count of *)
(* a postponement whose history row comes after it: then the first part     *)
(* fails (Overlap).                                                         *)
TasksAreOnRecord == TaskTypeOK /\ UnexplainedAtMostTwice /\ PlannedIsOnRecord
=============================================================================
