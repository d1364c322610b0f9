------------------------------- MODULE MCDay --------------------------------
(***************************************************************************)
(* The plan of a day, the life of the tasks and the calendar, one of them   *)
(* in each behaviour.                                                      *)
(***************************************************************************)
EXTENDS DayPlanner, TaskLife, Calendar, TLC

CONSTANT Parts  \* of "planner", "tasks" and "calendar"
VARIABLE part

CONSTANTS a1, a2, e1, e2, e3

Span(a, b) == [start |-> a, end |-> b]
MCBlocks == {Span(3, 5), Span(8, 12), Span(4, 10), Span(16, 18), Span(0, 4), Span(6, 24)}

MCTask == {a1, a2}
As(strict, daily, route) == [strict |-> strict, daily |-> daily, route |-> route]
MCAttributes == {As(TRUE, FALSE, "none"), As(FALSE, TRUE, "project")}

MCEvent == {e1, e2, e3}
MCHours == {<<2, 3>>, <<3, 6>>, <<5, 8>>, <<6, 3>>}

MCSymmetry == Permutations(MCTask) \union Permutations(MCEvent)

dayVars == <<plannerVars, taskVars, calendarVars, part>>
NoTasks ==
    /\ task = [t \in Task |-> Absent] /\ today = LastDay /\ user = IdleUser /\ planner = IdlePlanner /\ saved = {}
    /\ planned = {} /\ lastPlan = NoDay /\ ops = MaxOps /\ plans = MaxPlans /\ crashes = Crashes
    /\ history = [t \in Task |-> [postponed |-> 0, unexplained |-> 0]]

MCInit ==
    /\ part \in Parts
    /\ PlannerInit /\ (stage = "off" <=> part # "planner")
    /\ IF part = "tasks" THEN TaskInit ELSE NoTasks
    /\ CalendarInit

MCNext ==
    \/ part = "planner" /\ PlannerNext /\ UNCHANGED <<taskVars, calendarVars, part>>
    \/ part = "tasks" /\ TaskNext /\ UNCHANGED <<plannerVars, calendarVars, part>>
    \/ part = "calendar" /\ CalendarNext /\ UNCHANGED <<plannerVars, taskVars, part>>

MCSpec == MCInit /\ [][MCNext]_dayVars

(* What a day is planned from and what it is planned to: the calendar and the *)
(* plan (Calendar!CalendarIsSound, DayPlanner!PlanIsSound).                    *)
DayIsSound == PlanIsSound /\ CalendarIsSound
=============================================================================
