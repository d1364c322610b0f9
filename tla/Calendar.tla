------------------------------ MODULE Calendar ------------------------------
(***************************************************************************)
(* CalendarService: the fixed events of the days, which the user edits in a *)
(* form and the assistant through its tools, and what is computed from them *)
(* (the blocks a day is busy with, its free windows, the conflicts of a     *)
(* slot, what comes up).                                                   *)
(*                                                                         *)
(* The clock of a day is cut into DayMinutes instants.  A removed event     *)
(* keeps its id, which is never given out again.                            *)
(***************************************************************************)
EXTENDS Integers, Sequences, SequencesExt, FiniteSets, FiniteSetsExt

CONSTANTS
    Event,       \* the ids of events
    DayMinutes,  \* the length of a day
    Hours,       \* the starts and ends the form and the assistant may give, as pairs
    CalendarDays,\* the days there are events on, 1..CalendarDays
    MinBlock,    \* a block is never shorter than this (5 minutes)
    MinFree,     \* a window shorter than this is none (10 minutes)
    MaxEdits     \* how many times the form is opened

ASSUME CalendarAssumption ==
    /\ {DayMinutes, CalendarDays, MinBlock, MinFree} \subseteq Nat \ {0} /\ MaxEdits \in Nat
    /\ Hours \subseteq (0..(DayMinutes - 1)) \X (0..(DayMinutes - 1))

VARIABLES
    events,    \* the rows
    eventForm, \* the event the form is open on, if it is
    slotCall,  \* the assistant's call: the slot it found free, and who changed a row since
    explained, \* the pairs of which one was put there by the user, or while the other was
    edits

calendarVars == <<events, eventForm, slotCall, explained, edits>>

New == [status |-> "new"]
Removed == [status |-> "removed"]
NoForm == [open |-> FALSE]
NoCall == [checked |-> FALSE]
CalDay == 1..CalendarDays

Live(e) == events[e].status = "live"
OnDay(day) == {e \in Event : Live(e) /\ events[e].day = day}
Row(day, start, end, allDay) == [status |-> "live", day |-> day, start |-> start, end |-> end, allDay |-> allDay]

(* What the form sends: a whole day is the day from its first to its last minute. *)
FormRows ==
    {Row(d, h[1], h[2], FALSE) : d \in CalDay, h \in Hours} \union {Row(d, 0, DayMinutes - 1, TRUE) : d \in CalDay}

EndsAfterItStarts(row) == row.allDay \/ row.end > row.start

(* The time an event takes: all of the day, or its hours. *)
StartOf(e) == IF events[e].allDay THEN 0 ELSE events[e].start
EndOf(e) == IF events[e].allDay THEN DayMinutes ELSE events[e].end

FindConflicts(day, start, end) == {e \in OnDay(day) : StartOf(e) < end /\ EndOf(e) > start}

(* The blocks of a day by their start.  No event is shorter than MinBlock, *)
(* so the last one may reach into the night.                                *)
BusyBlocks(day) ==
    SetToSortSeq({[id |-> e, start |-> StartOf(e), end |-> LET end == EndOf(e) IN
                     IF end < StartOf(e) + MinBlock THEN StartOf(e) + MinBlock ELSE end] : e \in OnDay(day)},
                 LAMBDA a, b : a.start <= b.start)

FreeWindows(day, from, to) ==
    LET Inside(b) == b.end > from /\ b.start < to
        Step(acc, b) ==
          [free |-> IF b.start > acc.cursor THEN acc.free \union {[start |-> acc.cursor, end |-> b.start]} ELSE acc.free,
           cursor |-> IF b.end > acc.cursor THEN b.end ELSE acc.cursor]
        swept == FoldLeft(Step, [free |-> {}, cursor |-> from], SelectSeq(BusyBlocks(day), Inside))
        windows == swept.free \union (IF swept.cursor < to THEN {[start |-> swept.cursor, end |-> to]} ELSE {})
    IN {w \in windows : w.end - w.start >= MinFree}

(* The time that is fixed, overlaps counted once. *)
TotalFixedMinutes(day) ==
    FoldLeft(LAMBDA acc, b :
               [total |-> acc.total + Max({0, b.end - Max({b.start, acc.lastEnd})}), lastEnd |-> Max({b.end, acc.lastEnd})],
             [total |-> 0, lastEnd |-> -1], BusyBlocks(day)).total

(* The events of the next hours: the days they may lie on are read one by one. *)
StartsAt(e) == events[e].day * DayMinutes + events[e].start
Upcoming(now, hours) ==
    LET days == {now \div DayMinutes + i : i \in 0..((hours + DayMinutes - 1) \div DayMinutes)}
    IN {e \in UNION {OnDay(d) : d \in days} : StartsAt(e) >= now - 1 /\ StartsAt(e) <= now + hours}

CalendarInit ==
    /\ events = [e \in Event |-> New] /\ eventForm = NoForm /\ slotCall = NoCall
    /\ explained = {} /\ edits = 0

(* The user put e where it is: the assistant answers for none of its overlaps. *)
ByTheUser(e) ==
    /\ explained' = explained \union {{e, f} : f \in Event \ {e}}
    /\ slotCall' = IF slotCall.checked THEN [slotCall EXCEPT !.changed = @ \union {e}] ELSE slotCall

OpenForm ==
    /\ ~eventForm.open /\ edits < MaxEdits /\ edits' = edits + 1
    /\ \E e \in Event : events[e].status # "removed" /\ eventForm' = [open |-> TRUE, event |-> e, new |-> ~Live(e)]
    /\ UNCHANGED <<events, slotCall, explained>>

(* Saving sends every field.  An event that ends before it starts is refused, and *)
(* so is one that was removed under the form; the form stays open.                 *)
SaveForm ==
    /\ eventForm.open
    /\ \E row \in FormRows :
         LET e == eventForm.event IN
         /\ EndsAfterItStarts(row) /\ (IF eventForm.new THEN events[e].status = "new" ELSE Live(e))
         /\ events' = [events EXCEPT ![e] = row] /\ ByTheUser(e)
    /\ eventForm' = NoForm /\ UNCHANGED edits

CloseForm == eventForm.open /\ eventForm' = NoForm /\ UNCHANGED <<events, slotCall, explained, edits>>

RemoveEvent ==
    /\ ~eventForm.open
    /\ \E e \in Event : Live(e) /\ events' = [events EXCEPT ![e] = Removed]
    /\ UNCHANGED <<eventForm, slotCall, explained, edits>>

(* The assistant's tool looks for conflicts first and refuses a slot that has one; *)
(* the event is inserted by a later statement.                                      *)
CheckSlot ==
    /\ ~slotCall.checked
    /\ \E d \in CalDay, h \in Hours :
         /\ h[2] > h[1] /\ FindConflicts(d, h[1], h[2]) = {}
         /\ slotCall' = [checked |-> TRUE, row |-> Row(d, h[1], h[2], FALSE), changed |-> {}]
    /\ UNCHANGED <<events, eventForm, explained, edits>>

CreateInSlot ==
    /\ slotCall.checked
    /\ \E e \in Event :
         /\ events[e].status = "new" /\ ~(eventForm.open /\ eventForm.event = e)
         /\ events' = [events EXCEPT ![e] = slotCall.row]
         /\ explained' = explained \union {{e, f} : f \in slotCall.changed}
    /\ slotCall' = NoCall /\ UNCHANGED <<eventForm, edits>>

(* The other tool removes the first event of the day whose title is close enough. *)
DeleteByTitle ==
    /\ \E e \in Event : Live(e) /\ events' = [events EXCEPT ![e] = Removed]
    /\ UNCHANGED <<eventForm, slotCall, explained, edits>>

CalendarNext ==
    \/ OpenForm \/ SaveForm \/ CloseForm \/ RemoveEvent \/ CheckSlot \/ CreateInSlot \/ DeleteByTitle

CalendarSpec == CalendarInit /\ [][CalendarNext]_calendarVars
-----------------------------------------------------------------------------
CalendarTypeOK ==
    /\ \A e \in Event : events[e] \in {New, Removed} \union FormRows
    /\ eventForm = NoForm \/ eventForm.event \in Event
    /\ slotCall = NoCall \/ slotCall.row \in FormRows

BlockMinutes(spans) == UNION {s.start..(s.end - 1) : s \in spans}

(* What is free is free, and all of it: a window touches no block, and every    *)
(* other minute between the bounds is in a block or in a gap that is too short. *)
FreeIsFree ==
    \A d \in CalDay, from \in {0, 1}, to \in {DayMinutes - 1, DayMinutes} :
       LET blocks == BlockMinutes(Range(BusyBlocks(d)))
           free == BlockMinutes(FreeWindows(d, from, to))
           gap(m) == {k \in from..(to - 1) : (Min({m, k})..Max({m, k})) \intersect blocks = {}}
       IN /\ free \intersect blocks = {} /\ free \subseteq from..(to - 1)
          /\ \A m \in from..(to - 1) \ (blocks \union free) : Cardinality(gap(m)) < MinFree

(* The fixed time of a day is the number of its minutes that are in some block. *)
FixedIsCountedOnce == \A d \in CalDay : TotalFixedMinutes(d) = Cardinality(BlockMinutes(Range(BusyBlocks(d))))

(* Reading day by day misses no event that begins within the hours asked for. *)
UpcomingIsComplete ==
    \A now \in DayMinutes..(2 * DayMinutes), hours \in {DayMinutes \div 2, DayMinutes} :
       Upcoming(now, hours) = {e \in Event : Live(e) /\ StartsAt(e) \in (now - 1)..(now + hours)}

(* The assistant puts nothing over an event: two that overlap were put there by *)
(* the user, or one of them came between the check and the insert.               *)
OverlapsAreExplained ==
    \A e, f \in Event :
       e # f /\ Live(e) /\ Live(f) /\ f \in FindConflicts(events[e].day, StartOf(e), EndOf(e)) => {e, f} \in explained

(* An event takes time, whatever was edited in which order. *)
EventsTakeTime == \A e \in Event : Live(e) => StartOf(e) < EndOf(e)

(* The calendar the planner builds on is right: events take time, what is said *)
(* to be free is, and the assistant double-books nothing it could see.          *)
CalendarIsSound ==
    /\ CalendarTypeOK /\ EventsTakeTime /\ FreeIsFree /\ FixedIsCountedOnce
    /\ UpcomingIsComplete /\ OverlapsAreExplained
=============================================================================
