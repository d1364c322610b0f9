----------------------------- MODULE PushOutbox -----------------------------
(***************************************************************************)
(* The server's outbox of notifications (services/push.ts), the devices it *)
(* pushes to and that poll it (web/src/push.ts, shells/fcm.ts), for one     *)
(* user.  What a device is given passes its NotificationGate.               *)
(*                                                                         *)
(* The server's database answers at once (node:sqlite), so a handler is     *)
(* interrupted only where it waits for a push service.                      *)
(***************************************************************************)
EXTENDS NotificationGate

CONSTANTS
    Fcm,             \* the devices reached over FCM, the others over Web Push
    News,            \* the items of an urgent news poll, in their order
    Message,         \* the dedupe keys of the other notifications
    newsDailyCap,
    MaxNotes, MaxFetches, MaxPolls, MaxLoops, MaxLost, MaxRestarts, MaxSubs, MaxThrows

(* A device runs so many calls at once, at least one. *)
ASSUME OutboxAssumption ==
    /\ IsFiniteSet(Flow) /\ Flow # {}
    /\ Fcm \subseteq Device
    /\ News \in Seq({News[i] : i \in DOMAIN News})
    /\ newsDailyCap \in Nat /\ MaxNotes \in Nat

VARIABLES
    note,        \* the table notifications of the server
    sub,         \* the devices push_subscriptions has a row for
    alive,       \* the devices whose push endpoint or token works
    delivery,    \* the calls of deliver() under way, by note
    air,         \* what a push service has accepted and not yet handed over
    popped,      \* what a push service has made a device show: <<note, device>>
    loop,        \* the calls of notifyUrgentNews under way
    lost,        \* how many notes there were and which faults are used up
    given        \* notes a device's gate has decided about: <<note, device>>

serverVars == <<note, sub, alive, delivery, air, popped, loop, lost, given>>
vars == <<gateVars, serverVars>>

NoDelivery == [pc |-> "none", todo |-> {}, to |-> {}, answer |-> "", delivered |-> FALSE]
NoLoop == [begun |-> FALSE, left |-> <<>>, day |-> 0, waits |-> 0]
Ended == [NoLoop EXCEPT !.begun = TRUE]
Loops == 1..MaxLoops

UrgentNote(i) == note[i].news

(* The dedupe window of the server is a day, and so is what news lives. *)
Expired(i) == note[i].expires <= now
(* With the rows that are still in the queue only. *)
SameKeyQueued(k) == {i \in DOMAIN note : note[i].key = k /\ ~note[i].delivered}

SameKey(k) == {i \in DOMAIN note : note[i].key = k /\ note[i].created + HoursPerDay >= now}

Init ==
    /\ GateInit
    /\ note = <<>> /\ sub = {} /\ alive = Device
    /\ delivery = [i \in 1..MaxNotes |-> NoDelivery]
    /\ air = {} /\ popped = {} /\ given = {}
    /\ loop = [l \in Loops |-> NoLoop]
    /\ lost = [notes |-> 0, requests |-> 0, restarts |-> 0, subs |-> 0, polls |-> 0, throws |-> 0]

(* The state after notify(): nothing if the key is a duplicate, otherwise the   *)
(* row and, if somebody is subscribed, the first step of deliver().             *)
Stored(k, news) == [key |-> k, news |-> news, created |-> now,
                    expires |-> IF news THEN now + HoursPerDay ELSE Never,
                    delivered |-> FALSE, push |-> "none"]

Notify(k, news) ==
    IF SameKey(k) # {}
    THEN UNCHANGED <<note, delivery, lost>>
    ELSE /\ lost.notes < MaxNotes
         /\ lost' = [lost EXCEPT !.notes = @ + 1]
         /\ note' = Append(note, Stored(k, news))
         /\ delivery' = IF sub = {} THEN delivery
                        ELSE [delivery EXCEPT ![Len(note) + 1] =
                                [NoDelivery EXCEPT !.pc = "next", !.todo = sub]]

(* A notification from a route or another service. *)
notify(k) ==
    /\ k \in Message
    /\ Notify(k, FALSE)
    /\ UNCHANGED <<gateVars, sub, alive, air, popped, loop, given>>

(* notifyUrgentNews: the day is taken once; then item after item the day's rows  *)
(* are counted and the item is notified, and its delivery awaited.               *)
notifyUrgentNews(l) ==
    /\ ~loop[l].begun
    /\ loop' = [loop EXCEPT ![l] = [begun |-> TRUE, left |-> News, day |-> Day(now), waits |-> 0]]
    /\ UNCHANGED <<gateVars, note, sub, alive, delivery, air, popped, lost, given>>

newsOf(day) == Cardinality({i \in DOMAIN note : note[i].news /\ Day(note[i].created) = day})

(* With the cap looked at when there is no item left. *)
NewsItemUncapped(l) ==
    /\ loop[l].left # <<>>
    /\ loop[l].waits # 0 => delivery[loop[l].waits].pc = "none"
    /\ Notify(Head(loop[l].left), TRUE)
    /\ loop' = [loop EXCEPT ![l].left = Tail(@), ![l].waits = 0]
    /\ UNCHANGED <<gateVars, sub, alive, air, popped, given>>

NewsItem(l) ==
    /\ loop[l].left # <<>>
    /\ loop[l].waits # 0 => delivery[loop[l].waits].pc = "none"
    /\ IF newsOf(loop[l].day) >= newsDailyCap
       THEN loop' = [loop EXCEPT ![l] = Ended] /\ UNCHANGED <<note, delivery, lost>>
       ELSE /\ Notify(Head(loop[l].left), TRUE)
            /\ loop' = [loop EXCEPT ![l] =
                          [loop[l] EXCEPT !.left = Tail(@), !.waits = IF note' = note THEN 0 ELSE Len(note')]]
    /\ UNCHANGED <<gateVars, sub, alive, air, popped, given>>

-----------------------------------------------------------------------------
(* deliver(): subscription after subscription. *)

(* The request goes out; the push service takes the message, refuses it, or knows *)
(* that the endpoint is gone; or the request or its answer is lost on the way.    *)
Send(i, d) ==
    /\ delivery[i].pc = "next" /\ d \in delivery[i].todo
    /\ \E answer \in {"ok", "gone", "fail"} :
         /\ answer = "ok" => d \in alive
         /\ answer = "gone" <=> d \notin alive
         /\ \/ air' = (IF answer = "ok" THEN air \cup {<<i, d>>} ELSE air) /\ answer # "fail" /\ UNCHANGED lost
            \/ answer = "fail" /\ lost.requests < MaxLost /\ lost' = [lost EXCEPT !.requests = @ + 1]
               /\ air' \in {air, air \cup {<<i, d>>}}
         /\ delivery' = [delivery EXCEPT ![i].pc = "wait", ![i].todo = @ \ {d}, ![i].to = {d}, ![i].answer = answer]
    /\ UNCHANGED <<gateVars, note, sub, alive, popped, loop, given>>

(* With every message marked that FCM took. *)
AnsweredMarksAll(i) ==
    LET c == delivery[i]
    IN  /\ c.pc = "wait"
        /\ sub' = IF c.answer = "gone" THEN sub \ c.to ELSE sub
        /\ note' = IF c.answer = "ok" /\ c.to \subseteq Fcm THEN [note EXCEPT ![i].delivered = TRUE] ELSE note
        /\ delivery' = [delivery EXCEPT ![i].pc = "next", ![i].to = {}, ![i].answer = "",
                                        ![i].delivered = @ \/ c.answer = "ok"]
        /\ UNCHANGED <<gateVars, alive, air, popped, loop, lost, given>>

(* The answer is handled.  An urgent message that FCM took counts as delivered. *)
Answered(i) ==
    LET c == delivery[i]
    IN  /\ c.pc = "wait"
        /\ sub' = IF c.answer = "gone" THEN sub \ c.to ELSE sub
        /\ note' = IF c.answer = "ok" /\ c.to \subseteq Fcm /\ UrgentNote(i)
                   THEN [note EXCEPT ![i].delivered = TRUE] ELSE note
        /\ delivery' = [delivery EXCEPT ![i].pc = "next", ![i].to = {}, ![i].answer = "",
                                        ![i].delivered = @ \/ c.answer = "ok"]
        /\ UNCHANGED <<gateVars, alive, air, popped, loop, lost, given>>

Delivered(i) ==
    /\ delivery[i].pc = "next" /\ delivery[i].todo = {}
    /\ note' = [note EXCEPT ![i].push = IF delivery[i].delivered THEN "sent" ELSE "failed"]
    /\ delivery' = [delivery EXCEPT ![i] = NoDelivery]
    /\ UNCHANGED <<gateVars, sub, alive, air, popped, loop, lost, given>>

(* The message reaches the device.  A service worker shows it; of FCM's the system *)
(* shows the urgent ones, the others only wake the application up.                *)
Arrive(i, d) ==
    /\ <<i, d>> \in air
    /\ air' = air \ {<<i, d>>}
    /\ popped' = IF d \in Fcm /\ ~UrgentNote(i) THEN popped ELSE popped \cup {<<i, d>>}
    /\ UNCHANGED <<gateVars, note, sub, alive, delivery, loop, lost, given>>

(* The server stops and starts: what it was delivering is over. *)
ServerRestart ==
    /\ lost.restarts < MaxRestarts
    /\ lost' = [lost EXCEPT !.restarts = @ + 1]
    /\ delivery' = [i \in 1..MaxNotes |-> NoDelivery]
    /\ loop' = [l \in Loops |-> IF loop[l].begun THEN Ended ELSE NoLoop]
    /\ UNCHANGED <<gateVars, note, sub, alive, air, popped, given>>

-----------------------------------------------------------------------------
(* The devices. *)

(* enablePush and initFcm: a working endpoint is registered. *)
addSubscription(d) ==
    /\ lost.subs < MaxSubs
    /\ lost' = [lost EXCEPT !.subs = @ + 1]
    /\ sub' = sub \cup {d}
    /\ alive' = alive \cup {d}
    /\ UNCHANGED <<gateVars, note, delivery, air, popped, loop, given>>

(* disablePush: the endpoint is given up, then the server is told, if it can be. *)
disablePush(d) ==
    /\ d \in alive /\ d \notin Fcm
    /\ lost.subs < MaxSubs
    /\ lost' = [lost EXCEPT !.subs = @ + 1]
    /\ alive' = alive \ {d}
    /\ sub' \in {sub, sub \ {d}}
    /\ UNCHANGED <<gateVars, note, delivery, air, popped, loop, given>>

(* A token or a subscription expires. *)
EndpointDies(d) ==
    /\ d \in alive
    /\ lost.subs < MaxSubs
    /\ lost' = [lost EXCEPT !.subs = @ + 1]
    /\ alive' = alive \ {d}
    /\ UNCHANGED <<gateVars, note, sub, delivery, air, popped, loop, given>>

(* Without what was pushed to somebody. *)
pendingUnsent == {i \in DOMAIN note : ~note[i].delivered /\ ~Expired(i) /\ note[i].push = "none"}

pending == {i \in DOMAIN note : ~note[i].delivered /\ ~Expired(i)}

InOrder(S) == {s \in [1..Cardinality(S) -> S] : \A i, j \in DOMAIN s : i < j => s[i] < s[j]}

(* pollPendingNotifications: on every focus, every minute, on every FCM arrival, *)
(* whether another poll is under way or not.                                    *)
PollFetch(d, f) ==
    /\ flow[d][f].pc = "idle" /\ pending # {}
    /\ spent[d].fetches < MaxFetches
    /\ spent' = [spent EXCEPT ![d].fetches = @ + 1]
    /\ \E batch \in InOrder(pending) : flow' = [flow EXCEPT ![d][f].pc = "item", ![d][f].batch = batch]
    /\ UNCHANGED <<now, enabled, inbox, os, shown, serverVars>>

(* The next of them goes to the gate, whose failure is swallowed. *)
PollItem(d, f) ==
    LET i == Head(flow[d][f].batch)
    IN  /\ flow[d][f].pc = "item"
        /\ \/ /\ create(d, f, [key |-> i, urgent |-> UrgentNote(i), asked |-> Never])
              /\ given' = given \cup {<<i, d>>}
              /\ UNCHANGED <<spent, lost>>
           \/ /\ lost.throws < MaxThrows
              /\ lost' = [lost EXCEPT !.throws = @ + 1]
              /\ flow' = [flow EXCEPT ![d][f].pc = "ack"]
              /\ UNCHANGED <<now, enabled, inbox, os, shown, spent, given>>
        /\ UNCHANGED <<note, sub, alive, delivery, air, popped, loop>>

(* The server is told; if it cannot be, the notification stays in the queue. *)
markDelivered(d, f) ==
    LET i == Head(flow[d][f].batch)
        rest == Tail(flow[d][f].batch)
    IN  /\ flow[d][f].pc = "ack"
        /\ \/ note' = [note EXCEPT ![i].delivered = TRUE] /\ UNCHANGED lost
           \/ lost.polls < MaxPolls /\ lost' = [lost EXCEPT !.polls = @ + 1] /\ UNCHANGED note
        /\ flow' = [flow EXCEPT ![d][f] = IF rest = <<>> THEN Resting
                                          ELSE [Resting EXCEPT !.pc = "item", !.batch = rest]]
        /\ UNCHANGED <<now, enabled, inbox, os, shown, spent, sub, alive, delivery, air, popped, loop, given>>

Server ==
    \/ \E k \in Message : notify(k)
    \/ \E l \in Loops : notifyUrgentNews(l) \/ NewsItem(l)
    \/ \E i \in DOMAIN note : Answered(i) \/ Delivered(i) \/ \E d \in Device : Send(i, d) \/ Arrive(i, d)
    \/ ServerRestart

Client(d) ==
    \/ addSubscription(d) \/ disablePush(d) \/ EndpointDies(d)
    \/ \E f \in Flow : PollFetch(d, f) \/ PollItem(d, f) \/ markDelivered(d, f)

Next ==
    \/ GateNext /\ UNCHANGED serverVars
    \/ Server
    \/ \E d \in Device : Client(d)

Spec == Init /\ [][Next]_vars

(* A device that runs finishes its calls and polls every minute. *)
Progress(d) == \E f \in Flow :
    \/ PollFetch(d, f) \/ PollItem(d, f) \/ markDelivered(d, f)
    \/ (Insert(d, f) \/ pushToDevice(d, f)) /\ UNCHANGED serverVars

Fairness == \A d \in Device : WF_vars(Progress(d))
FairSpec == Spec /\ Fairness

-----------------------------------------------------------------------------

Note == [key: Message \cup {News[i] : i \in DOMAIN News}, news: BOOLEAN, created: 0..MaxHour,
         expires: 0..Never, delivered: BOOLEAN, push: {"none", "sent", "failed"}]

TypeOK ==
    /\ GateTypeOK
    /\ note \in Seq(Note) /\ Len(note) <= MaxNotes
    /\ sub \subseteq Device /\ alive \subseteq Device
    /\ \A i \in DOMAIN delivery : /\ delivery[i].todo \subseteq Device
                                  /\ delivery[i].pc \in {"none", "next", "wait"}
    /\ \A p \in air \cup popped \cup given : p[1] \in DOMAIN note /\ p[2] \in Device

(* What the queue no longer offers was put in front of somebody: a gate has      *)
(* decided about it or a push service has it, as long as no gate fails            *)
(* (push.ts 175-181, push.ts of the web application 170-173).                      *)
NothingVanishes ==
    \A i \in DOMAIN note :
      note[i].delivered /\ lost.throws = 0 => \E d \in Device : <<i, d>> \in given \cup air \cup popped

(* One row per dedupe key and day (push.ts 137-143). *)
OncePerWindow ==
    \A i, j \in DOMAIN note :
      i < j /\ note[i].key = note[j].key => note[j].created > note[i].created + HoursPerDay

(* However often a notification is fetched again, a device has no more rows of it *)
(* in a dedupe window than it had calls running at once: one call, one row        *)
(* (push.ts of the web application 160-173, notifications.ts 79-84).               *)
PolledRows(d, i) == {j \in DOMAIN inbox[d] : inbox[d][j].key = i /\ ~inbox[d][j].cancelled}

PolledOnce ==
    \A d \in Device, i \in DOMAIN note : \A first \in PolledRows(d, i) :
      Cardinality({j \in PolledRows(d, i) :
                     inbox[d][j].created \in inbox[d][first].created..inbox[d][first].created + DEDUPE_WINDOW_HOURS})
        <= Cardinality(Flow)

(* A notification is shown once on a device (push.ts of the web application 167). *)
ShownOnce == \A d \in Device, i \in DOMAIN note : Cardinality(PolledRows(d, i)) <= 1

(* What a gate failed to take is offered again (push.ts 16-18).                   *)
FailureIsOfferedAgain ==
    \A i \in DOMAIN note : note[i].delivered => \E d \in Device : <<i, d>> \in given \cup air \cup popped

(* The cap of a day holds for the news that a call which began on that day has    *)
(* stored, however many calls there are (push.ts 313-331).                        *)
CapWithinDay ==
    (\A l \in Loops : loop[l].left = <<>> \/ loop[l].day = Day(now)) /\ now < HoursPerDay
        => newsOf(0) <= newsDailyCap

(* "A hard per-user per-day cap" (push.ts 310). *)
HardDailyCap == \A day \in 0..Day(MaxHour) : newsOf(day) <= newsDailyCap

(* "A notification survives a closed app, a dead network at push time" (push.ts   *)
(* 17-18): what a subscribed device was not given is still offered to it.          *)
EveryDeviceIsReached ==
    \A i \in DOMAIN note, d \in sub :
      note[i].delivered /\ delivery[i].pc = "none" => <<i, d>> \in given \cup air \cup popped

(* A visible FCM message is not shown a second time by polling (push.ts 175-178). *)
FcmShownOnce ==
    \A p \in popped : p[2] \in Fcm => \A i \in DOMAIN inbox[p[2]] : inbox[p[2]][i].key # p[1]

(* What is in the queue of a user who opens one of his devices again is taken    *)
(* from it or expires, whatever requests were lost before (push.ts 16-18).         *)
EventuallyTaken ==
    \A i \in 1..MaxNotes :
      (i \in DOMAIN note /\ \E d \in Device : spent[d].fetches < MaxFetches)
        ~> (i \in DOMAIN note /\ (note[i].delivered \/ Expired(i)))

(* Neither the device nor the server interrupts more often, or at other    *)
(* hours, than it was told to: the budget of a day, the cap of a day and   *)
(* the quiet hours hold together (notifications.ts 79-150, push.ts 125-160).*)
WithinBudget == TypeOK /\ BudgetKept /\ CapWithinDay /\ QuietUnlessLate

(* A notification is not repeated within its window, and one that is       *)
(* polled shows once and does not vanish before it is delivered or expires.*)
NoticesArrive == OncePerWindow /\ PolledOnce /\ NothingVanishes
=============================================================================
