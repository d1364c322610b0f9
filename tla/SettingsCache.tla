---------------------------- MODULE SettingsCache ----------------------------
(***************************************************************************)
(* SettingsService (packages/core/src/services/settings.ts) for one group  *)
(* of settings on several devices: the row of the group, which sync also   *)
(* writes, the copy the service keeps of it, and the tabs of the screen    *)
(* that edit it (apps/web/src/screens/Settings.tsx).                       *)
(*                                                                         *)
(*   setting   per device, the row, or Absent                              *)
(*   kept      per device, the entry of the cache, or Absent               *)
(*   call      per device, the calls of get() and set() that run           *)
(*                                                                         *)
(* What an await lets in between is a step: the answer of the row that     *)
(* get() asked for, the row that set() compares with, its write, the entry *)
(* of the cache.                                                           *)
(*                                                                         *)
(*   chosen    per device, the settings as they are after each set() that  *)
(*             was called is over, when calls run one after the other      *)
(*   alone     per device, calls ran one after the other, and no row came  *)
(*             from elsewhere, since the process began or it was reset     *)
(***************************************************************************)
EXTENDS Naturals

CONSTANTS
    Client, Caller,
    Field, Choice,    \* the fields of the group and the values the schema allows
    Odd,              \* a value the schema does not allow
    Absent,
    MaxSets,          \* bound: calls of set()
    MaxGets,          \* bound: calls of get() that find no entry
    MaxPulls,         \* bound: rows that sync or an import writes
    MaxReloads        \* bound: processes that end, and resets of the data

Patch == [field : Field, value : Choice \union {Odd}]

ASSUME SettingAssumption ==
    /\ Choice # {} /\ Odd \notin Choice
    /\ Absent \notin Patch \union [Field -> Choice \union {Odd}]

VARIABLES setting, kept, call, chosen, alone, sets, gets, pulls, reloads

settingVars == <<setting, kept, call, chosen, alone, sets, gets, pulls, reloads>>

Default == [f \in Field |-> CHOOSE v \in Choice : TRUE]
Legal(value) == \A f \in Field : value[f] \in Choice

(* safeParse of the row: one field that is not allowed, and all of the     *)
(* group is as if it had never been set.                                   *)
Parsed(row) == IF row # Absent /\ Legal(row) THEN row ELSE Default

NoCall == [pc |-> "none"]
Quiet(d) == \A c \in Caller : call[d][c].pc = "none"
Goto(d, c, k) == call' = [call EXCEPT ![d][c] = k]

-----------------------------------------------------------------------------
(* get(): the entry of the cache, or the row, which then is the entry. *)

Get(d, c) ==
    /\ call[d][c].pc = "none" /\ kept[d] = Absent /\ gets < MaxGets
    /\ Goto(d, c, [pc |-> "load", patch |-> Absent])
    /\ gets' = gets + 1
    /\ alone' = [alone EXCEPT ![d] = @ /\ Quiet(d)]
    /\ UNCHANGED <<setting, kept, chosen, sets, pulls, reloads>>

LoadRow(d, c) ==
    /\ call[d][c].pc = "load"
    /\ Goto(d, c, [pc |-> "keep", patch |-> call[d][c].patch, found |-> Parsed(setting[d])])
    /\ UNCHANGED <<setting, kept, chosen, alone, sets, gets, pulls, reloads>>

(* set() is called with a patch of one field: its candidate. *)
Patched(value, patch) == [value EXCEPT ![patch.field] = patch.value]
Candidate(value, patch) == [pc |-> "compare", patch |-> patch, value |-> Patched(value, patch)]

(* A candidate the schema refuses ends the call. *)
AfterGet(value, patch) ==
    IF patch = Absent \/ ~Legal(Patched(value, patch)) THEN NoCall ELSE Candidate(value, patch)

KeepEntry(d, c) ==
    /\ call[d][c].pc = "keep"
    /\ kept' = [kept EXCEPT ![d] = call[d][c].found]
    /\ Goto(d, c, AfterGet(call[d][c].found, call[d][c].patch))
    /\ UNCHANGED <<setting, chosen, alone, sets, gets, pulls, reloads>>

-----------------------------------------------------------------------------
(* A tab shows what the user chooses at once and waits for nothing: set()  *)
(* runs behind it, once per keystroke of a field.                          *)

Choose(d, c, patch) ==
    /\ call[d][c].pc = "none" /\ sets < MaxSets
    /\ Goto(d, c, IF kept[d] = Absent THEN [pc |-> "load", patch |-> patch] ELSE AfterGet(kept[d], patch))
    /\ chosen' = [chosen EXCEPT ![d] = IF patch.value = Odd THEN @ ELSE Patched(@, patch)]
    /\ alone' = [alone EXCEPT ![d] = @ /\ Quiet(d)]
    /\ sets' = sets + 1
    /\ UNCHANGED <<setting, kept, gets, pulls, reloads>>

(* The row is read again, only to be compared with. *)
Compare(d, c) ==
    /\ call[d][c].pc = "compare"
    /\ Goto(d, c, [pc |-> "write", value |-> call[d][c].value, row |-> setting[d]])
    /\ UNCHANGED <<setting, kept, chosen, alone, sets, gets, pulls, reloads>>

(* insert() throws when another call has inserted the row meanwhile. *)
WriteSetting(d, c) ==
    LET k == call[d][c] IN
    /\ k.pc = "write"
    /\ IF k.row = Absent /\ setting[d] # Absent
       THEN Goto(d, c, NoCall) /\ UNCHANGED setting
       ELSE /\ setting' = [setting EXCEPT ![d] = IF k.row = k.value THEN @ ELSE k.value]
            /\ Goto(d, c, [pc |-> "remember", value |-> k.value])
    /\ UNCHANGED <<kept, chosen, alone, sets, gets, pulls, reloads>>

(* Mutant: the entry of the cache stays as it was. *)
ForgetEntry(d, c) ==
    /\ call[d][c].pc = "remember"
    /\ Goto(d, c, NoCall)
    /\ UNCHANGED <<setting, kept, chosen, alone, sets, gets, pulls, reloads>>

Remember(d, c) ==
    /\ call[d][c].pc = "remember"
    /\ kept' = [kept EXCEPT ![d] = call[d][c].value]
    /\ Goto(d, c, NoCall)
    /\ UNCHANGED <<setting, chosen, alone, sets, gets, pulls, reloads>>

-----------------------------------------------------------------------------
(* Sync brings the row of another device, which may have been written by   *)
(* another build; the cache is not told.                                   *)
Pull(d) ==
    /\ pulls < MaxPulls
    /\ \E e \in Client \ {d} :
          /\ setting[e] # Absent /\ setting[e] # setting[d]
          /\ setting' = [setting EXCEPT ![d] = setting[e]]
    /\ pulls' = pulls + 1
    /\ alone' = [alone EXCEPT ![d] = FALSE]
    /\ UNCHANGED <<kept, call, chosen, sets, gets, reloads>>

(* A restored backup, an import, the deletion of the local data: another   *)
(* row, and then invalidate().                                             *)
Invalidate(d) ==
    /\ reloads < MaxReloads /\ Quiet(d)
    /\ \E row \in {Absent, Default} : setting' = [setting EXCEPT ![d] = row]
    /\ kept' = [kept EXCEPT ![d] = Absent]
    /\ chosen' = [chosen EXCEPT ![d] = Default]
    /\ alone' = [alone EXCEPT ![d] = TRUE]
    /\ reloads' = reloads + 1
    /\ UNCHANGED <<call, sets, gets, pulls>>

(* The process ends, whatever runs, and the row is read again. *)
Reload(d) ==
    /\ reloads < MaxReloads
    /\ call' = [call EXCEPT ![d] = [c \in Caller |-> NoCall]]
    /\ kept' = [kept EXCEPT ![d] = Absent]
    /\ chosen' = [chosen EXCEPT ![d] = Parsed(setting[d])]
    /\ alone' = [alone EXCEPT ![d] = TRUE]
    /\ reloads' = reloads + 1
    /\ UNCHANGED <<setting, sets, gets, pulls>>

-----------------------------------------------------------------------------
(* A row of another build holds a value this one does not allow. *)
Foreign == [Default EXCEPT ![CHOOSE f \in Field : TRUE] = Odd]

SettingInit ==
    /\ setting \in [Client -> {Absent, Default, Foreign}]
    /\ kept = [d \in Client |-> Absent]
    /\ call = [d \in Client |-> [c \in Caller |-> NoCall]]
    /\ chosen = [d \in Client |-> Parsed(setting[d])] /\ alone = [d \in Client |-> TRUE]
    /\ sets = 0 /\ gets = 0 /\ pulls = 0 /\ reloads = 0

SettingNext ==
    \E d \in Client :
       \/ \E c \in Caller :
             \/ Get(d, c) \/ LoadRow(d, c) \/ KeepEntry(d, c)
             \/ \E patch \in Patch : Choose(d, c, patch)
             \/ Compare(d, c) \/ WriteSetting(d, c) \/ Remember(d, c)
       \/ Pull(d) \/ Invalidate(d) \/ Reload(d)

SettingSpec == SettingInit /\ [][SettingNext]_settingVars

-----------------------------------------------------------------------------
(* Calls that run one after the other lose nothing: the row holds every    *)
(* choice of the user, over whatever it held before, the services see that *)
(* row, and a choice that was refused changed nothing.                     *)
OneAtATimeNothingIsLost ==
    \A d \in Client : alone[d] /\ Quiet(d) =>
      Parsed(setting[d]) = chosen[d] /\ kept[d] \in {Absent, chosen[d]}

(* What the services are given the schema allows, whatever the rows hold.  *)
ServicesSeeLegal == \A d \in Client : kept[d] # Absent => Legal(kept[d])

-----------------------------------------------------------------------------
(* What the comments say and the code does not do. *)

(* "A change on the phone reaches the desktop": when the row is there the  *)
(* services of the desktop see it.                                         *)
AChangeReachesTheServices ==
    \A d \in Client : Quiet(d) /\ kept[d] # Absent => kept[d] = Parsed(setting[d])

(* A choice of the user changes the field the user chose, and no other.    *)
OnlyTheChosenField ==
    [][\A d \in Client, c \in Caller :
         call[d][c].pc = "write" /\ setting'[d] # setting[d] /\ call'[d][c].pc = "remember" =>
           \E f \in Field : \A g \in Field \ {f} : setting'[d][g] = Parsed(setting[d])[g]]_settingVars

(* A change of one setting at a time is not lost by the cache, and what    *)
(* the services read is legal, whatever rows other devices sent.           *)
SettingsAreKept == OneAtATimeNothingIsLost /\ ServicesSeeLegal
=============================================================================
