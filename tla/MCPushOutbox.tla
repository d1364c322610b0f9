---------------------------- MODULE MCPushOutbox ----------------------------
(***************************************************************************)
(* The behaviours are looked at from four sides, chosen at the start: each *)
(* begins with the interference the other sides study used up.             *)
(***************************************************************************)
EXTENDS PushOutbox

CONSTANTS web, phone, f1, f2, p1, n1, n2, m1

MCDevice == {web, phone}
MCFcm == {phone}
MCPersistent == {phone}
MCFlow == {f1, f2}
MCNews == <<n1, n2>>

Quiet == [reminders |-> MaxReminders, reloads |-> MaxReloads, switches |-> MaxSwitches, cancels |-> MaxCancels,
          fetches |-> MaxFetches]
Fresh == [reminders |-> 0, reloads |-> 0, switches |-> 0, cancels |-> 0, fetches |-> MaxFetches]
NoFaults == [notes |-> 0, requests |-> MaxLost, restarts |-> MaxRestarts, subs |-> MaxSubs,
             polls |-> MaxPolls, throws |-> MaxThrows]
AllFaults == [notes |-> 0, requests |-> 0, restarts |-> 0, subs |-> 0, polls |-> 0, throws |-> 0]

(* One device and its reminders; the delivery of one note; the cap of a day; a poll. *)
Reminders ==
    /\ spent = [d \in Device |-> IF d = web THEN Fresh ELSE Quiet]
    /\ lost = [NoFaults EXCEPT !.notes = MaxNotes]
    /\ loop = [l \in Loops |-> Ended] /\ sub = {} /\ now = 2

Delivering ==
    /\ spent = [d \in Device |-> IF d = phone THEN [Quiet EXCEPT !.fetches = 0] ELSE Quiet]
    /\ lost = [AllFaults EXCEPT !.notes = MaxNotes - 1, !.polls = MaxPolls]
    /\ loop = [l \in Loops |-> IF l = 1 THEN NoLoop ELSE Ended] /\ sub = {phone} /\ now = MaxHour

NewsDay ==
    /\ spent = [d \in Device |-> Quiet]
    /\ lost = NoFaults
    /\ loop = [l \in Loops |-> NoLoop] /\ sub = {phone} /\ now = HoursPerDay - 1

Polls ==
    /\ spent = [d \in Device |-> IF d = web THEN [Quiet EXCEPT !.reloads = 0, !.fetches = 0] ELSE Quiet]
    /\ lost = [NoFaults EXCEPT !.notes = MaxNotes - 1, !.polls = 0, !.throws = 0]
    /\ loop = [l \in Loops |-> IF l = 1 THEN NoLoop ELSE Ended] /\ sub = {} /\ now = MaxHour - 1

MCInit ==
    /\ Reminders \/ Delivering \/ NewsDay \/ Polls
    /\ enabled = [d \in Device |-> TRUE]
    /\ inbox = [d \in Device |-> <<>>]
    /\ flow = [d \in Device |-> [f \in Flow |-> Resting]]
    /\ os = [d \in Device |-> {}] /\ shown = [d \in Device |-> {}]
    /\ note = <<>> /\ alive = Device
    /\ delivery = [i \in 1..MaxNotes |-> NoDelivery]
    /\ air = {} /\ popped = {} /\ given = {}

MCSpec == MCInit /\ [][Next]_vars
MCFairSpec == MCSpec /\ Fairness
=============================================================================
