-------------------------- MODULE NotificationGate --------------------------
(***************************************************************************)
(* The gate of services/notifications.ts that every notification of a      *)
(* device passes, and the scheduler of the operating system behind it.     *)
(* Several calls of create() run at once on a device (the poll, the day    *)
(* plan, the mentor): each is a flow, split at the awaits between which     *)
(* another call can act.  Time is counted in hours of a day that has        *)
(* HoursPerDay of them.                                                     *)
(***************************************************************************)
EXTENDS Naturals, Sequences, FiniteSets

CONSTANTS
    Device,
    Flow,                  \* calls of create() that may run at once on a device
    PlanKey,               \* dedupe keys of scheduleFromPlan
    UrgentPlan,            \* those of them whose importance is at least 0.85
    DailyBudget,           \* settings.notifications.daily_budget
    QuietStart, QuietEnd,  \* the quiet hours, QuietStart > QuietEnd wraps midnight
    HoursPerDay,
    DEDUPE_WINDOW_HOURS,
    PersistentScheduler,   \* devices whose scheduled notifications survive a restart
    Lead,                  \* how far ahead a plan asks for a reminder, in hours
    MaxHour, MaxReminders, MaxReloads, MaxSwitches, MaxCancels

ASSUME GateAssumption ==
    /\ HoursPerDay \in Nat \ {0} /\ MaxHour \in Nat
    /\ QuietStart \in 0..HoursPerDay - 1 /\ QuietEnd \in 0..HoursPerDay - 1
    /\ DailyBudget \in Nat /\ DEDUPE_WINDOW_HOURS \in Nat
    /\ UrgentPlan \subseteq PlanKey /\ PersistentScheduler \subseteq Device

VARIABLES
    now,       \* the clock
    enabled,   \* whether the user has notifications switched on, per device
    inbox,     \* the rows of the table notifications, per device
    flow,      \* the calls under way
    os,        \* the rows the operating system has a timer for
    shown,     \* what it has shown, and when
    spent      \* how often the user has interfered with a device

gateVars == <<now, enabled, inbox, flow, os, shown, spent>>

Day(h) == h \div HoursPerDay
HourOfDay(h) == h % HoursPerDay

Never == MaxHour + HoursPerDay + 1

(* A call of create(): its dedupe key, whether it is urgent, the time it asks for. *)
Request == [key: PlanKey \cup Nat, urgent: BOOLEAN, asked: 0..Never]

Resting == [pc |-> "idle", req |-> [key |-> 0, urgent |-> FALSE, asked |-> Never], at |-> 0,
            row |-> 0, batch |-> <<>>]

isQuietAt(h) ==
    IF QuietStart <= QuietEnd
    THEN HourOfDay(h) >= QuietStart /\ HourOfDay(h) < QuietEnd
    ELSE HourOfDay(h) >= QuietStart \/ HourOfDay(h) < QuietEnd

(* With the wrong day added. *)
nextAfterQuietLate(h) == (Day(h) + 2) * HoursPerDay + QuietEnd + HoursPerDay

nextAfterQuiet(h) ==
    LET candidate == Day(h) * HoursPerDay + QuietEnd
    IN  IF candidate <= h THEN candidate + HoursPerDay ELSE candidate

(* With the time that was asked for taken as it is. *)
ScheduledAtAsAsked(q) ==
    IF q.asked # Never THEN IF q.asked < now THEN now ELSE q.asked
    ELSE IF isQuietAt(now) /\ ~q.urgent THEN nextAfterQuiet(now) ELSE now

(* When the notification of a request is due: moved out of the quiet hours      *)
(* unless it is urgent, and now if the time it asked for is over.              *)
ScheduledAt(q) ==
    LET asked == IF q.asked = Never THEN now ELSE q.asked
        moved == IF isQuietAt(asked) /\ ~q.urgent THEN nextAfterQuiet(asked) ELSE asked
    IN  IF q.asked # Never /\ moved < now THEN now ELSE moved

(* With the rows of the same reminder only. *)
DuplicatesNow(d, key, since) ==
    {i \in DOMAIN inbox[d] : inbox[d][i].key = key /\ inbox[d][i].at > now}

Duplicates(d, key, since) ==
    {i \in DOMAIN inbox[d] : /\ inbox[d][i].key = key
                             /\ ~inbox[d][i].cancelled
                             /\ inbox[d][i].created + since >= now}

(* By the day of the call. *)
budgetUsedByCreation(d, day) ==
    Cardinality({i \in DOMAIN inbox[d] : Day(inbox[d][i].created) = day /\ ~inbox[d][i].cancelled})

budgetUsed(d, day) == Cardinality({i \in DOMAIN inbox[d] : inbox[d][i].day = day /\ ~inbox[d][i].cancelled})

Refused(d, q) ==
    \/ ~enabled[d]
    \/ Duplicates(d, q.key, DEDUPE_WINDOW_HOURS) # {}
    \/ budgetUsed(d, Day(ScheduledAt(q))) >= DailyBudget /\ ~q.urgent

-----------------------------------------------------------------------------

GateInit ==
    /\ now = 0
    /\ enabled = [d \in Device |-> TRUE]
    /\ inbox = [d \in Device |-> <<>>]
    /\ flow = [d \in Device |-> [f \in Flow |-> Resting]]
    /\ os = [d \in Device |-> {}]
    /\ shown = [d \in Device |-> {}]
    /\ spent = [d \in Device |-> [reminders |-> 0, reloads |-> 0, switches |-> 0, cancels |-> 0, fetches |-> 0]]

(* What a call goes on with once the gate has dealt with its notification. *)
After(c) == IF c.batch = <<>> THEN Resting ELSE [Resting EXCEPT !.pc = "ack", !.batch = c.batch]

(* create() up to its INSERT: every preference, the duplicate and the budget are *)
(* read, and the call either gives up or goes on with what it read.              *)
create(d, f, q) ==
    /\ LET c == [flow[d][f] EXCEPT !.req = q, !.at = ScheduledAt(q)]
       IN  flow' = [flow EXCEPT ![d][f] = IF Refused(d, q) THEN After(c) ELSE [c EXCEPT !.pc = "insert"]]
    /\ UNCHANGED <<now, enabled, inbox, os, shown>>

Insert(d, f) ==
    LET c == flow[d][f]
    IN  /\ c.pc = "insert"
        /\ inbox' = [inbox EXCEPT ![d] = Append(@, [key |-> c.req.key, urgent |-> c.req.urgent, at |-> c.at,
                                                    day |-> Day(c.at), created |-> now, cancelled |-> FALSE])]
        /\ flow' = [flow EXCEPT ![d][f].pc = "schedule", ![d][f].row = Len(inbox'[d])]
        /\ UNCHANGED <<now, enabled, os, shown, spent>>

(* pushToDevice: the scheduler is asked after the permission was, with the row as it was inserted. *)
pushToDevice(d, f) ==
    LET c == flow[d][f]
    IN  /\ c.pc = "schedule"
        /\ os' = [os EXCEPT ![d] = IF c.at >= now THEN @ \cup {c.row} ELSE @]
        /\ flow' = [flow EXCEPT ![d][f] = After(c)]
        /\ UNCHANGED <<now, enabled, inbox, shown, spent>>

(* The user opens the day: scheduleFromPlan asks for a reminder. *)
scheduleFromPlan(d, f) ==
    /\ flow[d][f].pc = "idle"
    /\ spent[d].reminders < MaxReminders
    /\ spent' = [spent EXCEPT ![d].reminders = @ + 1]
    /\ \E k \in PlanKey, asked \in 0..MaxHour :
         /\ asked <= now + Lead
         /\ create(d, f, [key |-> k, urgent |-> k \in UrgentPlan, asked |-> asked])

cancel(d, i) ==
    /\ i \in DOMAIN inbox[d] /\ ~inbox[d][i].cancelled
    /\ spent[d].cancels < MaxCancels
    /\ spent' = [spent EXCEPT ![d].cancels = @ + 1]
    /\ inbox' = [inbox EXCEPT ![d][i].cancelled = TRUE]
    /\ os' = [os EXCEPT ![d] = @ \ {i}]
    /\ UNCHANGED <<now, enabled, flow, shown>>

setPreference(d) ==
    /\ spent[d].switches < MaxSwitches
    /\ spent' = [spent EXCEPT ![d].switches = @ + 1]
    /\ enabled' = [enabled EXCEPT ![d] = ~@]
    /\ UNCHANGED <<now, inbox, flow, os, shown>>

(* A timer of the operating system goes off. *)
Fire(d, i) ==
    /\ i \in os[d] /\ inbox[d][i].at <= now
    /\ shown' = [shown EXCEPT ![d] = @ \cup {[row |-> i, at |-> now]}]
    /\ os' = [os EXCEPT ![d] = @ \ {i}]
    /\ UNCHANGED <<now, enabled, inbox, flow, spent>>

(* The application is closed and opened again.  A browser's timers die with it, *)
(* and nothing schedules the rows of the table again.                           *)
Reload(d) ==
    /\ spent[d].reloads < MaxReloads
    /\ spent' = [spent EXCEPT ![d].reloads = @ + 1]
    /\ flow' = [flow EXCEPT ![d] = [f \in Flow |-> Resting]]
    /\ os' = [os EXCEPT ![d] = IF d \in PersistentScheduler THEN @ ELSE {}]
    /\ UNCHANGED <<now, enabled, inbox, shown>>

(* Timers go off on time. *)
Tick ==
    /\ now < MaxHour
    /\ \A d \in Device : \A i \in os[d] : inbox[d][i].at > now
    /\ now' = now + 1
    /\ UNCHANGED <<enabled, inbox, flow, os, shown, spent>>

GateNext ==
    \/ Tick
    \/ \E d \in Device :
         \/ setPreference(d)
         \/ Reload(d)
         \/ \E f \in Flow : scheduleFromPlan(d, f) \/ Insert(d, f) \/ pushToDevice(d, f)
         \/ \E i \in DOMAIN inbox[d] : cancel(d, i) \/ Fire(d, i)

-----------------------------------------------------------------------------

Row == [key: PlanKey \cup Nat, urgent: BOOLEAN, at: 0..Never, day: Nat, created: 0..MaxHour, cancelled: BOOLEAN]

GateTypeOK ==
    /\ now \in 0..MaxHour
    /\ enabled \in [Device -> BOOLEAN]
    /\ \A d \in Device : inbox[d] \in Seq(Row) /\ os[d] \subseteq DOMAIN inbox[d]
    /\ \A d \in Device, f \in Flow : flow[d][f].pc \in {"idle", "item", "insert", "schedule", "ack"}

(* The daily budget: of the notifications that are not urgent a day gets no     *)
(* more than the budget, and one for every further call that runs at the same    *)
(* time, because the budget is read before the row is inserted                   *)
(* (notifications.ts 86-94).                                                     *)
BudgetKept ==
    \A d \in Device : \A day \in {inbox[d][i].day : i \in DOMAIN inbox[d]} :
      Cardinality({i \in DOMAIN inbox[d] :
                     inbox[d][i].day = day /\ ~inbox[d][i].urgent /\ ~inbox[d][i].cancelled})
        <= DailyBudget + Cardinality(Flow) - 1

(* A notification that is not urgent is shown in quiet hours only if the time it *)
(* was asked for was over already (notifications.ts 65-73).                      *)
QuietUnlessLate ==
    \A d \in Device : \A s \in shown[d] :
      LET row == inbox[d][s.row]
      IN  isQuietAt(s.at) /\ ~row.urgent => row.created = s.at

(* "Every notification passes a gate: enabled? quiet hours?" (notifications.ts 40). *)
QuietKept ==
    \A d \in Device : \A s \in shown[d] : isQuietAt(s.at) => inbox[d][s.row].urgent

(* "The app re-schedules on load" (adapter.ts 85): what is due later has a timer. *)
UpcomingHasTimer ==
    \A d \in Device : \A i \in DOMAIN inbox[d] :
      inbox[d][i].at > now /\ ~inbox[d][i].cancelled /\ (\A f \in Flow : flow[d][f].row # i) => i \in os[d]
=============================================================================
