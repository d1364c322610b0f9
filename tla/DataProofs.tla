----------------------------- MODULE DataProofs -----------------------------
(***************************************************************************)
(* The safety of the user's data: the settings behind their cache, the     *)
(* copy in the cloud, the items the assistant acts on and what it          *)
(* remembers, and the start of the app that checks and repairs the tables; *)
(* for any devices, callers, fields, turns, items, texts and rows.         *)
(***************************************************************************)
EXTENDS SettingsCache, CloudBackup, Assistant, MemoryStore, Launch, SequenceTheorems, FiniteSetTheorems, TLAPS

-----------------------------------------------------------------------------
(* Settings: one device, as the row, the entry of the cache, its calls, what *)
(* the user wants and whether calls ran one after the other.                 *)

Row == [Field -> Choice \union {Odd}] \union {Absent}
Settings == [Field -> Choice]

(* The settings once the call with this patch is over.                     *)
Applied(value, patch) == IF patch = Absent \/ ~Legal(Patched(value, patch)) THEN value ELSE Patched(value, patch)

CallShape(k) ==
    \/ k.pc = "none"
    \/ k.pc = "load" /\ k.patch \in Patch \union {Absent}
    \/ k.pc = "keep" /\ k.patch \in Patch \union {Absent} /\ k.found \in Settings
    \/ k.pc = "compare" /\ k.value \in Settings
    \/ k.pc = "write" /\ k.value \in Settings /\ k.row \in Row
    \/ k.pc = "remember" /\ k.value \in Settings

(* How far a call that runs alone has come with what the user wants.       *)
OnItsWay(k, row, entry, want) ==
    /\ k.pc = "load" => entry = Absent /\ want = Applied(Parsed(row), k.patch)
    /\ k.pc = "keep" => entry = Absent /\ k.found = Parsed(row) /\ want = Applied(k.found, k.patch)
    /\ k.pc \in {"compare", "write", "remember"} => k.value = want
    /\ k.pc = "write" => k.row = row
    /\ k.pc = "remember" => row = want

DeviceIsKept(row, entry, calls, want, one) ==
    /\ row \in Row /\ entry \in Settings \union {Absent} /\ want \in Settings /\ one \in BOOLEAN
    /\ DOMAIN calls = Caller /\ \A c \in Caller : CallShape(calls[c])
    /\ one => /\ \A b, c \in Caller : calls[b].pc # "none" /\ calls[c].pc # "none" => b = c
              /\ \A c \in Caller : OnItsWay(calls[c], row, entry, want)
              /\ (\A c \in Caller : calls[c].pc = "none") =>
                   Parsed(row) = want /\ entry \in {Absent, want}

SettingsInv ==
    /\ DOMAIN setting = Client /\ DOMAIN kept = Client /\ DOMAIN call = Client
    /\ DOMAIN chosen = Client /\ DOMAIN alone = Client
    /\ \A d \in Client : DeviceIsKept(setting[d], kept[d], call[d], chosen[d], alone[d])

LEMMA DefaultIsLegal == Default \in Settings /\ Foreign \in Row
<1>1. (CHOOSE v \in Choice : TRUE) \in Choice
  BY SettingAssumption
<1>2. Default \in Settings
  BY <1>1 DEF Default, Settings
<1>3. Default \in [Field -> Choice \union {Odd}]
  BY <1>2 DEF Settings
<1> HIDE DEF Default
<1>4. Foreign \in [Field -> Choice \union {Odd}]
  BY <1>3 DEF Foreign
<1> QED BY <1>2, <1>4 DEF Row

LEMMA ParsedIsLegal ==
    /\ \A row \in Row : Parsed(row) \in Settings
    /\ \A value \in Settings : value \in Row /\ value # Absent /\ Parsed(value) = value
<1>1. \A row \in Row : row # Absent /\ Legal(row) => row \in Settings
  BY DEF Row, Legal, Settings
<1>2. \A value \in Settings : value \in [Field -> Choice \union {Odd}] /\ Legal(value)
  BY DEF Settings, Legal
<1>3. \A value \in Settings : value \in Row /\ value # Absent
  BY <1>2, SettingAssumption DEF Row
<1> QED BY <1>1, <1>2, <1>3, DefaultIsLegal DEF Parsed

LEMMA PatchedIsLegal ==
    ASSUME NEW value \in Settings, NEW patch \in Patch
    PROVE  /\ Legal(Patched(value, patch)) <=> patch.value # Odd
           /\ patch.value # Odd => Patched(value, patch) \in Settings
           /\ patch # Absent
<1>1. patch.field \in Field /\ patch.value \in Choice \union {Odd}
  BY DEF Patch
<1>2. \A f \in Field : Patched(value, patch)[f] = IF f = patch.field THEN patch.value ELSE value[f]
  BY <1>1 DEF Patched, Settings
<1>3. \A f \in Field : value[f] \in Choice
  BY DEF Settings
<1>4. Legal(Patched(value, patch)) <=> patch.value # Odd
  BY <1>1, <1>2, <1>3, SettingAssumption DEF Legal
<1>5. patch.value # Odd => Patched(value, patch) \in Settings
  BY <1>1 DEF Patched, Settings
<1>6. patch # Absent
  BY SettingAssumption
<1> QED BY <1>4, <1>5, <1>6

(* g is f but for the value at d.                                          *)
But(g, f, d, value) == DOMAIN g = DOMAIN f /\ g[d] = value /\ \A e \in DOMAIN f \ {d} : g[e] = f[e]

(* A step of device d alone.                                               *)
LEMMA OneDeviceStep ==
    ASSUME SettingsInv, NEW d \in Client, NEW row, NEW entry, NEW calls, NEW want, NEW one,
           But(setting', setting, d, row), But(kept', kept, d, entry), But(call', call, d, calls),
           But(chosen', chosen, d, want), But(alone', alone, d, one),
           DeviceIsKept(row, entry, calls, want, one)
    PROVE  SettingsInv'
<1>1. /\ setting'[d] = row /\ kept'[d] = entry /\ call'[d] = calls /\ chosen'[d] = want /\ alone'[d] = one
      /\ DOMAIN setting' = Client /\ DOMAIN kept' = Client /\ DOMAIN call' = Client
      /\ DOMAIN chosen' = Client /\ DOMAIN alone' = Client
  BY DEF SettingsInv, But
<1>2. ASSUME NEW e \in Client, e # d
      PROVE  setting'[e] = setting[e] /\ kept'[e] = kept[e] /\ call'[e] = call[e] /\ chosen'[e] = chosen[e] /\ alone'[e] = alone[e]
  BY <1>2 DEF SettingsInv, But
<1>3. ASSUME NEW e \in Client PROVE DeviceIsKept(setting'[e], kept'[e], call'[e], chosen'[e], alone'[e])
  <2>1. CASE e = d
    BY <1>1, <2>1
  <2>2. CASE e # d
    BY <1>2, <2>2 DEF SettingsInv
  <2> QED BY <2>1, <2>2
<1> QED BY <1>1, <1>3 DEF SettingsInv

(* A step of call c of a device.                                           *)
LEMMA CallMoves ==
    ASSUME NEW row, NEW entry, NEW calls, NEW want, NEW one, DeviceIsKept(row, entry, calls, want, one),
           NEW c \in Caller, NEW k, CallShape(k),
           NEW row2 \in Row, NEW entry2 \in Settings \union {Absent}, NEW want2 \in Settings, NEW one2 \in BOOLEAN,
           one2 => /\ one /\ OnItsWay(k, row2, entry2, want2)
                   /\ \A b \in Caller \ {c} : calls[b].pc = "none"
                   /\ k.pc = "none" => Parsed(row2) = want2 /\ entry2 \in {Absent, want2}
    PROVE  DeviceIsKept(row2, entry2, [calls EXCEPT ![c] = k], want2, one2)
<1> DEFINE after == [calls EXCEPT ![c] = k]
<1>1. DOMAIN after = Caller /\ after[c] = k /\ \A b \in Caller \ {c} : after[b] = calls[b]
  BY DEF DeviceIsKept
<1> HIDE DEF after
<1>2. \A b \in Caller : CallShape(after[b])
  BY <1>1 DEF DeviceIsKept
<1>3. ASSUME one2
      PROVE  /\ \A a, b \in Caller : after[a].pc # "none" /\ after[b].pc # "none" => a = b
             /\ \A b \in Caller : OnItsWay(after[b], row2, entry2, want2)
             /\ (\A b \in Caller : after[b].pc = "none") => Parsed(row2) = want2 /\ entry2 \in {Absent, want2}
  <2>1. \A b \in Caller \ {c} : after[b].pc = "none"
    BY <1>1, <1>3
  <2>2. \A b \in Caller \ {c} : OnItsWay(after[b], row2, entry2, want2)
    BY <2>1 DEF OnItsWay
  <2> QED BY <1>1, <1>3, <2>1, <2>2
<1> QED BY <1>1, <1>2, <1>3 DEF DeviceIsKept, after

LEMMA AloneCall ==
    ASSUME NEW row, NEW entry, NEW calls, NEW want, NEW one, DeviceIsKept(row, entry, calls, want, one),
           one, NEW c \in Caller, calls[c].pc # "none"
    PROVE  (\A b \in Caller \ {c} : calls[b].pc = "none") /\ OnItsWay(calls[c], row, entry, want)
  BY DEF DeviceIsKept

LEMMA NothingUnderWay ==
    ASSUME NEW row, NEW entry, NEW want
    PROVE  CallShape(NoCall) /\ NoCall.pc = "none" /\ OnItsWay(NoCall, row, entry, want)
  BY DEF NoCall, CallShape, OnItsWay

(* What set() has when get() is done.                                      *)
LEMMA AfterGetIsReady ==
    ASSUME NEW value \in Settings, NEW patch \in Patch \union {Absent}, NEW row, NEW want, want = Applied(value, patch),
           NEW entry
    PROVE  /\ CallShape(AfterGet(value, patch)) /\ OnItsWay(AfterGet(value, patch), row, entry, want)
           /\ AfterGet(value, patch).pc = "none" => want = value
           /\ want \in Settings
<1>1. CASE patch = Absent \/ ~Legal(Patched(value, patch))
  BY <1>1, NothingUnderWay DEF AfterGet, Applied
<1>2. CASE patch # Absent /\ Legal(Patched(value, patch))
  <2> DEFINE to == Patched(value, patch)
  <2>1. to \in Settings
    BY <1>2, PatchedIsLegal
  <2>2. AfterGet(value, patch) = [pc |-> "compare", patch |-> patch, value |-> to] /\ want = to
    BY <1>2 DEF AfterGet, Candidate, Applied
  <2> HIDE DEF to
  <2> QED BY <2>1, <2>2 DEF CallShape, OnItsWay
<1> QED BY <1>1, <1>2

LEMMA GetKeeps ==
    ASSUME SettingsInv, NEW d \in Client, NEW c \in Caller, Get(d, c)
    PROVE  SettingsInv'
<1> DEFINE k == [pc |-> "load", patch |-> Absent]
           one == alone[d] /\ Quiet(d)
           calls == [call[d] EXCEPT ![c] = k]
<1>1. DeviceIsKept(setting[d], kept[d], call[d], chosen[d], alone[d])
  BY DEF SettingsInv
<1>2. one => /\ alone[d] /\ (\A b \in Caller : call[d][b].pc = "none")
             /\ Parsed(setting[d]) = chosen[d] /\ kept[d] = Absent
  BY <1>1 DEF Quiet, DeviceIsKept, Get
<1>3. CallShape(k) /\ k.pc = "load"
  BY DEF CallShape
<1>4. one => OnItsWay(k, setting[d], kept[d], chosen[d])
  BY <1>2 DEF OnItsWay, Applied
<1>5. one \in BOOLEAN
  BY <1>1 DEF DeviceIsKept, Quiet
<1> HIDE DEF k, one
<1>6. DeviceIsKept(setting[d], kept[d], calls, chosen[d], one)
  BY <1>1, <1>2, <1>3, <1>4, <1>5, CallMoves DEF DeviceIsKept
<1>7. /\ But(setting', setting, d, setting[d]) /\ But(kept', kept, d, kept[d]) /\ But(call', call, d, calls)
      /\ But(chosen', chosen, d, chosen[d]) /\ But(alone', alone, d, one)
  BY DEF Get, Goto, k, one, SettingsInv, But
<1> QED BY <1>6, <1>7, OneDeviceStep

(* A step of call c of device d that leaves what the user wants.           *)
LEMMA CallStep ==
    ASSUME SettingsInv, NEW d \in Client, NEW c \in Caller, call[d][c].pc # "none", NEW k, CallShape(k), Goto(d, c, k),
           NEW row \in Row, NEW entry \in Settings \union {Absent},
           But(setting', setting, d, row), But(kept', kept, d, entry), UNCHANGED <<chosen, alone>>,
           alone[d] /\ OnItsWay(call[d][c], setting[d], kept[d], chosen[d]) =>
              /\ OnItsWay(k, row, entry, chosen[d])
              /\ k.pc = "none" => Parsed(row) = chosen[d] /\ entry \in {Absent, chosen[d]}
    PROVE  SettingsInv'
<1> DEFINE calls == [call[d] EXCEPT ![c] = k]
<1>1. DeviceIsKept(setting[d], kept[d], call[d], chosen[d], alone[d])
  BY DEF SettingsInv
<1>2. alone[d] => (\A b \in Caller \ {c} : call[d][b].pc = "none") /\ OnItsWay(call[d][c], setting[d], kept[d], chosen[d])
  BY <1>1, AloneCall
<1>3. chosen[d] \in Settings /\ alone[d] \in BOOLEAN
  BY <1>1 DEF DeviceIsKept
<1>4. DeviceIsKept(row, entry, calls, chosen[d], alone[d])
  BY <1>1, <1>2, <1>3, CallMoves
<1>5. But(call', call, d, calls) /\ But(chosen', chosen, d, chosen[d]) /\ But(alone', alone, d, alone[d])
  BY DEF Goto, SettingsInv, But
<1> HIDE DEF calls
<1> QED BY <1>4, <1>5, OneDeviceStep

LEMMA ShapeOf ==
    ASSUME SettingsInv, NEW d \in Client, NEW c \in Caller
    PROVE  /\ CallShape(call[d][c]) /\ setting[d] \in Row /\ kept[d] \in Settings \union {Absent}
           /\ But(setting, setting, d, setting[d]) /\ But(kept, kept, d, kept[d])
  BY DEF SettingsInv, DeviceIsKept, But

LEMMA LoadRowKeeps ==
    ASSUME SettingsInv, NEW d \in Client, NEW c \in Caller, LoadRow(d, c)
    PROVE  SettingsInv'
<1> DEFINE p == call[d][c]
           k == [pc |-> "keep", patch |-> p.patch, found |-> Parsed(setting[d])]
<1>1. CallShape(p) /\ setting[d] \in Row /\ kept[d] \in Settings \union {Absent} /\ p.pc = "load"
  BY ShapeOf DEF LoadRow
<1> HIDE DEF p
<1>2. p.patch \in Patch \union {Absent} /\ Parsed(setting[d]) \in Settings
  BY <1>1, ParsedIsLegal DEF CallShape
<1>3. CallShape(k) /\ k.pc = "keep"
  BY <1>2 DEF CallShape
<1>4. OnItsWay(p, setting[d], kept[d], chosen[d]) => OnItsWay(k, setting[d], kept[d], chosen[d])
  BY <1>1 DEF OnItsWay
<1>5. Goto(d, c, k) /\ UNCHANGED <<setting, kept, chosen, alone>>
  BY DEF LoadRow, k, p
<1> HIDE DEF k
<1> QED BY <1>1, <1>3, <1>4, <1>5, ShapeOf, CallStep DEF p

LEMMA KeepEntryKeeps ==
    ASSUME SettingsInv, NEW d \in Client, NEW c \in Caller, KeepEntry(d, c)
    PROVE  SettingsInv'
<1> DEFINE p == call[d][c]
           k == AfterGet(p.found, p.patch)
<1>1. CallShape(p) /\ setting[d] \in Row /\ p.pc = "keep"
  BY ShapeOf DEF KeepEntry
<1>5. Goto(d, c, k) /\ UNCHANGED <<setting, chosen, alone>> /\ But(kept', kept, d, p.found)
  BY DEF KeepEntry, But, SettingsInv
<1> HIDE DEF p
<1>2. p.patch \in Patch \union {Absent} /\ p.found \in Settings
  BY <1>1 DEF CallShape
<1>3. CallShape(k)
  BY <1>2, AfterGetIsReady
<1>4. ASSUME OnItsWay(p, setting[d], kept[d], chosen[d])
      PROVE  /\ OnItsWay(k, setting[d], p.found, chosen[d])
             /\ k.pc = "none" => Parsed(setting[d]) = chosen[d] /\ p.found \in {Absent, chosen[d]}
  <2>1. p.found = Parsed(setting[d]) /\ chosen[d] = Applied(p.found, p.patch)
    BY <1>1, <1>4 DEF OnItsWay
  <2>2. OnItsWay(k, setting[d], p.found, chosen[d]) /\ (k.pc = "none" => chosen[d] = p.found)
    BY <1>2, <2>1, AfterGetIsReady
  <2> QED BY <2>1, <2>2
<1> HIDE DEF k
<1> QED BY <1>1, <1>2, <1>3, <1>4, <1>5, ShapeOf, CallStep DEF p

LEMMA CompareKeeps ==
    ASSUME SettingsInv, NEW d \in Client, NEW c \in Caller, Compare(d, c)
    PROVE  SettingsInv'
<1> DEFINE p == call[d][c]
           k == [pc |-> "write", value |-> p.value, row |-> setting[d]]
<1>1. CallShape(p) /\ setting[d] \in Row /\ kept[d] \in Settings \union {Absent} /\ p.pc = "compare"
  BY ShapeOf DEF Compare
<1>5. Goto(d, c, k) /\ UNCHANGED <<setting, kept, chosen, alone>>
  BY DEF Compare
<1> HIDE DEF p
<1>3. CallShape(k) /\ k.pc = "write"
  BY <1>1 DEF CallShape
<1>4. OnItsWay(p, setting[d], kept[d], chosen[d]) => OnItsWay(k, setting[d], kept[d], chosen[d])
  BY <1>1 DEF OnItsWay
<1> HIDE DEF k
<1> QED BY <1>1, <1>3, <1>4, <1>5, ShapeOf, CallStep DEF p

LEMMA RememberKeeps ==
    ASSUME SettingsInv, NEW d \in Client, NEW c \in Caller, Remember(d, c)
    PROVE  SettingsInv'
<1> DEFINE p == call[d][c]
<1>1. CallShape(p) /\ setting[d] \in Row /\ p.pc = "remember"
  BY ShapeOf DEF Remember
<1>2. Goto(d, c, NoCall) /\ UNCHANGED <<setting, chosen, alone>> /\ But(kept', kept, d, p.value)
  BY DEF Remember, But, SettingsInv
<1> HIDE DEF p
<1>3. p.value \in Settings
  BY <1>1 DEF CallShape
<1>4. OnItsWay(p, setting[d], kept[d], chosen[d]) =>
         Parsed(setting[d]) = chosen[d] /\ p.value \in {Absent, chosen[d]}
  BY <1>1, <1>3, ParsedIsLegal DEF OnItsWay
<1> QED BY <1>1, <1>2, <1>3, <1>4, ShapeOf, NothingUnderWay, CallStep DEF p

LEMMA WriteSettingKeeps ==
    ASSUME SettingsInv, NEW d \in Client, NEW c \in Caller, WriteSetting(d, c)
    PROVE  SettingsInv'
<1> DEFINE p == call[d][c]
           k == [pc |-> "remember", value |-> p.value]
           row == IF p.row = p.value THEN setting[d] ELSE p.value
<1>1. CallShape(p) /\ setting[d] \in Row /\ kept[d] \in Settings \union {Absent} /\ p.pc = "write"
      /\ UNCHANGED <<kept, chosen, alone>>
  BY ShapeOf DEF WriteSetting
<1>2. p.value \in Settings /\ p.value \in Row /\ Parsed(p.value) = p.value
  BY <1>1, ParsedIsLegal DEF CallShape
<1>3. CASE p.row = Absent /\ setting[d] # Absent
  <2>1. Goto(d, c, NoCall) /\ setting' = setting
    BY <1>3 DEF WriteSetting
  <2>2. ~OnItsWay(p, setting[d], kept[d], chosen[d])
    BY <1>1, <1>3 DEF OnItsWay
  <2> QED BY <1>1, <2>1, <2>2, ShapeOf, NothingUnderWay, CallStep
<1>4. CASE ~(p.row = Absent /\ setting[d] # Absent)
  <2>1. Goto(d, c, k) /\ But(setting', setting, d, row)
    BY <1>4 DEF WriteSetting, But, SettingsInv
  <2> HIDE DEF p
  <2>2. CallShape(k) /\ k.pc = "remember" /\ row \in Row
    BY <1>1, <1>2 DEF CallShape
  <2>3. OnItsWay(p, setting[d], kept[d], chosen[d]) => OnItsWay(k, row, kept[d], chosen[d])
    BY <1>1 DEF OnItsWay
  <2> HIDE DEF k, row
  <2> QED BY <1>1, <2>1, <2>2, <2>3, ShapeOf, CallStep DEF p
<1> QED BY <1>3, <1>4

(* A choice: at once what the user wants, unless the schema refuses it.    *)
LEMMA ChooseKeeps ==
    ASSUME SettingsInv, NEW d \in Client, NEW c \in Caller, NEW patch \in Patch, Choose(d, c, patch)
    PROVE  SettingsInv'
<1> DEFINE k == IF kept[d] = Absent THEN [pc |-> "load", patch |-> patch] ELSE AfterGet(kept[d], patch)
           want == IF patch.value = Odd THEN chosen[d] ELSE Patched(chosen[d], patch)
           one == alone[d] /\ Quiet(d)
           calls == [call[d] EXCEPT ![c] = k]
<1>1. DeviceIsKept(setting[d], kept[d], call[d], chosen[d], alone[d])
  BY DEF SettingsInv
<1>2. /\ one \in BOOLEAN /\ chosen[d] \in Settings /\ kept[d] \in Settings \union {Absent} /\ setting[d] \in Row
      /\ one => /\ alone[d] /\ (\A b \in Caller : call[d][b].pc = "none")
                /\ Parsed(setting[d]) = chosen[d] /\ kept[d] \in {Absent, chosen[d]}
  BY <1>1 DEF DeviceIsKept, Quiet
<1>3. want \in Settings /\ want = Applied(chosen[d], patch)
  BY <1>2, PatchedIsLegal DEF Applied
<1>4. /\ But(setting', setting, d, setting[d]) /\ But(kept', kept, d, kept[d]) /\ But(call', call, d, calls)
      /\ But(chosen', chosen, d, want) /\ But(alone', alone, d, one)
  BY DEF Choose, Goto, But, SettingsInv
<1> HIDE DEF want, one
<1>5. CallShape(k) /\ (one => OnItsWay(k, setting[d], kept[d], want) /\ (k.pc = "none" => want = chosen[d]))
  <2>1. CASE kept[d] = Absent
    <3>1. k = [pc |-> "load", patch |-> patch]
      BY <2>1
    <3> HIDE DEF k
    <3> QED BY <1>2, <1>3, <2>1, <3>1 DEF CallShape, OnItsWay
  <2>2. CASE kept[d] # Absent
    <3>1. k = AfterGet(kept[d], patch) /\ kept[d] \in Settings /\ patch \in Patch \union {Absent}
      BY <1>2, <2>2
    <3> HIDE DEF k
    <3>2. CallShape(k)
      BY <3>1, AfterGetIsReady
    <3>3. one => kept[d] = chosen[d]
      BY <1>2, <2>2
    <3> QED BY <1>3, <3>1, <3>2, <3>3, AfterGetIsReady
  <2> QED BY <2>1, <2>2
<1> HIDE DEF k
<1>6. DeviceIsKept(setting[d], kept[d], calls, want, one)
  BY <1>1, <1>2, <1>3, <1>5, CallMoves
<1> HIDE DEF calls
<1> QED BY <1>4, <1>6, OneDeviceStep

(* A row from elsewhere.                                                   *)
LEMMA PullKeeps ==
    ASSUME SettingsInv, NEW d \in Client, Pull(d)
    PROVE  SettingsInv'
<1>1. PICK e \in Client : setting' = [setting EXCEPT ![d] = setting[e]]
  BY DEF Pull
<1>2. DeviceIsKept(setting[d], kept[d], call[d], chosen[d], alone[d]) /\ setting[e] \in Row
  BY DEF SettingsInv, DeviceIsKept
<1>3. DeviceIsKept(setting[e], kept[d], call[d], chosen[d], FALSE)
  BY <1>2 DEF DeviceIsKept
<1>4. /\ But(setting', setting, d, setting[e]) /\ But(kept', kept, d, kept[d]) /\ But(call', call, d, call[d])
      /\ But(chosen', chosen, d, chosen[d]) /\ But(alone', alone, d, FALSE)
  BY <1>1 DEF Pull, But, SettingsInv
<1> QED BY <1>3, <1>4, OneDeviceStep

(* The data is replaced, or the process begins anew.                       *)
LEMMA AnewKeeps ==
    ASSUME SettingsInv, NEW d \in Client, Invalidate(d) \/ Reload(d)
    PROVE  SettingsInv'
<1> DEFINE idle == [c \in Caller |-> NoCall]
<1>1. DeviceIsKept(setting[d], kept[d], call[d], chosen[d], alone[d])
  BY DEF SettingsInv
<1>2. ASSUME NEW row \in Row, NEW calls, DOMAIN calls = Caller, \A c \in Caller : calls[c].pc = "none",
             NEW want \in Settings, want = Parsed(row)
      PROVE  DeviceIsKept(row, Absent, calls, want, TRUE)
  BY <1>2 DEF DeviceIsKept, CallShape, OnItsWay
<1>3. CASE Invalidate(d)
  <2>1. PICK row \in {Absent, Default} : setting' = [setting EXCEPT ![d] = row]
    BY <1>3 DEF Invalidate
  <2>2. row \in Row /\ Default \in Settings /\ Default = Parsed(row)
    BY DefaultIsLegal, ParsedIsLegal DEF Row, Parsed
  <2>3. DOMAIN call[d] = Caller /\ \A c \in Caller : call[d][c].pc = "none"
    BY <1>1, <1>3 DEF Invalidate, Quiet, DeviceIsKept
  <2>4. DeviceIsKept(row, Absent, call[d], Default, TRUE)
    BY <1>2, <2>2, <2>3
  <2>5. /\ But(setting', setting, d, row) /\ But(kept', kept, d, Absent) /\ But(call', call, d, call[d])
        /\ But(chosen', chosen, d, Default) /\ But(alone', alone, d, TRUE)
    BY <1>3, <2>1 DEF Invalidate, But, SettingsInv
  <2> QED BY <2>4, <2>5, OneDeviceStep
<1>4. CASE Reload(d)
  <2>1. setting[d] \in Row /\ Parsed(setting[d]) \in Settings
    BY <1>1, ParsedIsLegal DEF DeviceIsKept
  <2>2. DOMAIN idle = Caller /\ \A c \in Caller : idle[c].pc = "none"
    BY DEF NoCall
  <2> HIDE DEF idle
  <2>3. DeviceIsKept(setting[d], Absent, idle, Parsed(setting[d]), TRUE)
    BY <1>2, <2>1, <2>2
  <2>4. /\ But(setting', setting, d, setting[d]) /\ But(kept', kept, d, Absent) /\ But(call', call, d, idle)
        /\ But(chosen', chosen, d, Parsed(setting[d])) /\ But(alone', alone, d, TRUE)
    BY <1>4 DEF Reload, But, SettingsInv, idle
  <2> QED BY <2>3, <2>4, OneDeviceStep
<1> QED BY <1>3, <1>4

LEMMA SettingsInit == SettingInit => SettingsInv
<1> SUFFICES ASSUME SettingInit PROVE SettingsInv
  OBVIOUS
<1>1. /\ DOMAIN setting = Client /\ DOMAIN kept = Client /\ DOMAIN call = Client
      /\ DOMAIN chosen = Client /\ DOMAIN alone = Client
  BY DEF SettingInit
<1>2. ASSUME NEW d \in Client PROVE DeviceIsKept(setting[d], kept[d], call[d], chosen[d], alone[d])
  <2>1. setting[d] \in Row
    <3>1. setting[d] \in {Absent, Default, Foreign}
      BY DEF SettingInit
    <3> QED BY <3>1, DefaultIsLegal, ParsedIsLegal DEF Row
  <2>2. kept[d] = Absent /\ chosen[d] = Parsed(setting[d]) /\ alone[d] = TRUE /\ chosen[d] \in Settings
    BY <2>1, ParsedIsLegal DEF SettingInit
  <2>3. DOMAIN call[d] = Caller /\ \A c \in Caller : call[d][c].pc = "none"
    BY DEF SettingInit, NoCall
  <2> QED BY <2>1, <2>2, <2>3 DEF DeviceIsKept, CallShape, OnItsWay
<1> QED BY <1>1, <1>2 DEF SettingsInv

LEMMA SettingsStep == SettingsInv /\ [SettingNext]_settingVars => SettingsInv'
<1> SUFFICES ASSUME SettingsInv, [SettingNext]_settingVars PROVE SettingsInv'
  OBVIOUS
<1>1. CASE UNCHANGED settingVars
  BY <1>1 DEF settingVars, SettingsInv
<1>2. CASE SettingNext
  BY <1>2, GetKeeps, LoadRowKeeps, KeepEntryKeeps, ChooseKeeps, CompareKeeps, WriteSettingKeeps, RememberKeeps,
     PullKeeps, AnewKeeps DEF SettingNext
<1> QED BY <1>1, <1>2

(* Whatever rows sync brings and however the calls of get() and set()      *)
(* interleave, the services read what the schema allows; and on a device   *)
(* whose calls ran one after the other the row and the cache hold every    *)
(* choice of the user (settings.ts, Settings.tsx).                         *)
THEOREM SettingsSafety == SettingSpec => []SettingsAreKept
<1>1. SettingsInv => SettingsAreKept
  <2> SUFFICES ASSUME SettingsInv, NEW d \in Client
               PROVE  /\ alone[d] /\ Quiet(d) => Parsed(setting[d]) = chosen[d] /\ kept[d] \in {Absent, chosen[d]}
                      /\ kept[d] # Absent => Legal(kept[d])
    BY DEF SettingsAreKept, OneAtATimeNothingIsLost, ServicesSeeLegal
  <2>1. DeviceIsKept(setting[d], kept[d], call[d], chosen[d], alone[d])
    BY DEF SettingsInv
  <2>2. \A value \in Settings : Legal(value)
    BY DEF Settings, Legal
  <2> QED BY <2>1, <2>2 DEF DeviceIsKept, Quiet
<1> QED BY <1>1, SettingsInit, SettingsStep, PTL DEF SettingSpec

-----------------------------------------------------------------------------
(* The cloud copy: who encrypted it still has the key.                     *)

Copy == [type : {"upload"}, by : Phone, key : Nat, data : Nat, intact : BOOLEAN]

(* Whoever made the copy x holds its key unless a storage was cleared, and *)
(* its data is some that was there.                                        *)
Opens(x, keyOf, wiped, last) == x.data <= last /\ (wiped = 0 => keyOf[x.by] = x.key)

CloudInv ==
    /\ saves \in Nat /\ keys \in Nat /\ wipes \in Nat
    /\ data \in [Phone -> Nat] /\ \A d \in Phone : data[d] <= saves
    /\ key \in [Phone -> Nat \union {Nothing}]
    /\ slot # Nothing => slot \in Copy /\ Opens(slot, key, wipes, saves)
    /\ DOMAIN busy = Phone /\ DOMAIN got = Phone
    /\ \A d \in Phone : busy[d] # Nothing /\ busy[d].type = "upload" => busy[d] \in Copy /\ Opens(busy[d], key, wipes, saves)
    /\ \A d \in Phone : got[d] # Nothing => got[d].result \in {"absent", "corrupted", "unreadable", "read"}
    /\ \A d \in Phone : got[d] # Nothing /\ got[d].result = "unreadable" /\ wipes = 0 => got[d].slot.by # d
    /\ \A d \in Phone : got[d] # Nothing /\ got[d].result = "read" => got[d].data \in Nat /\ got[d].data <= saves

(* A key is only ever made where there is none.                            *)
LEMMA KeysStay ==
    ASSUME key \in [Phone -> Nat \union {Nothing}], keys \in Nat, NEW d \in Phone, UseKey(d)
    PROVE  /\ key' \in [Phone -> Nat \union {Nothing}] /\ keys' \in Nat /\ key'[d] \in Nat
           /\ \A e \in Phone : key[e] # Nothing => key'[e] = key[e]
<1>1. keys + 1 \in Nat
  OBVIOUS
<1>2. key' = [key EXCEPT ![d] = IF key[d] = Nothing THEN keys + 1 ELSE key[d]]
  BY DEF UseKey, EnsureKey
<1>3. keys' \in {keys, keys + 1}
  BY DEF UseKey
<1> QED BY <1>1, <1>2, <1>3

LEMMA OpensStays ==
    ASSUME NEW x \in Copy, NEW k1, NEW k2, NEW w1, NEW w2, NEW s1 \in Nat, NEW s2 \in Nat,
           Opens(x, k1, w1, s1), s1 <= s2, w2 = 0 => w1 = 0,
           w2 = 0 => \A e \in Phone : k1[e] # Nothing => k2[e] = k1[e]
    PROVE  Opens(x, k2, w2, s2)
<1>1. x.by \in Phone /\ x.key \in Nat /\ x.data \in Nat
  BY DEF Copy
<1>2. x.key # Nothing
  BY <1>1, CloudAssumption
<1> QED BY <1>1, <1>2 DEF Opens

LEMMA CloudStep == CloudInv /\ [CloudNext]_cloudVars => CloudInv'
<1> SUFFICES ASSUME CloudInv, [CloudNext]_cloudVars PROVE CloudInv'
  OBVIOUS
<1>1. CASE UNCHANGED cloudVars
  BY <1>1 DEF cloudVars, CloudInv
<1>2. ASSUME NEW d \in Phone, Save(d) PROVE CloudInv'
  <2>1. /\ saves' = saves + 1 /\ data' = [data EXCEPT ![d] = saves'] /\ UNCHANGED <<key, slot, busy, got, keys, wipes>>
    BY <1>2 DEF Save
  <2>2. saves \in Nat /\ saves' \in Nat /\ saves <= saves'
    BY <2>1 DEF CloudInv
  <2>3. data' \in [Phone -> Nat] /\ \A e \in Phone : data'[e] <= saves'
    BY <2>1, <2>2 DEF CloudInv
  <2>4. \A x \in Copy : Opens(x, key, wipes, saves) => Opens(x, key, wipes, saves')
    BY <2>2, OpensStays
  <2>5. \A e \in Phone : got[e] # Nothing /\ got[e].result = "read" => got[e].data \in Nat /\ got[e].data <= saves'
    BY <2>1, <2>2 DEF CloudInv
  <2> QED BY <2>1, <2>2, <2>3, <2>4, <2>5 DEF CloudInv
<1>3. ASSUME NEW d \in Phone, Wipe(d) PROVE CloudInv'
  <2>1. /\ key' = [key EXCEPT ![d] = Nothing] /\ wipes' = wipes + 1 /\ UNCHANGED <<data, slot, busy, got, keys, saves>>
    BY <1>3 DEF Wipe
  <2>2. wipes' \in Nat /\ wipes' # 0 /\ key' \in [Phone -> Nat \union {Nothing}]
    BY <2>1 DEF CloudInv
  <2>3. \A x : Opens(x, key, wipes, saves) => Opens(x, key', wipes', saves)
    BY <2>2 DEF Opens
  <2> QED BY <2>1, <2>2, <2>3 DEF CloudInv
<1>4. ASSUME NEW d \in Phone, Upload(d) PROVE CloudInv'
  <2> DEFINE x == [type |-> "upload", by |-> d, key |-> key'[d], data |-> data[d], intact |-> TRUE]
  <2>1. busy' = [busy EXCEPT ![d] = x] /\ UNCHANGED <<data, slot, got, saves, wipes>>
    BY <1>4 DEF Upload, Ask
  <2>2. /\ key' \in [Phone -> Nat \union {Nothing}] /\ keys' \in Nat /\ key'[d] \in Nat
        /\ \A e \in Phone : key[e] # Nothing => key'[e] = key[e]
    BY <1>4, KeysStay DEF Upload, CloudInv
  <2>3. x \in Copy /\ Opens(x, key', wipes, saves)
    BY <2>2 DEF Copy, Opens, CloudInv
  <2> HIDE DEF x
  <2>4. \A y \in Copy : Opens(y, key, wipes, saves) => Opens(y, key', wipes, saves)
    BY <2>2, OpensStays DEF CloudInv
  <2>5. DOMAIN busy' = Phone /\ busy'[d] = x /\ \A e \in Phone \ {d} : busy'[e] = busy[e]
    BY <2>1 DEF CloudInv
  <2>6. \A e \in Phone : busy'[e] # Nothing /\ busy'[e].type = "upload" => busy'[e] \in Copy /\ Opens(busy'[e], key', wipes, saves)
    BY <2>3, <2>4, <2>5 DEF CloudInv
  <2> QED BY <2>1, <2>2, <2>4, <2>5, <2>6 DEF CloudInv
<1>5. ASSUME NEW d \in Phone, Store(d) PROVE CloudInv'
  <2>1. /\ busy[d] # Nothing /\ busy[d].type = "upload" /\ slot' \in {busy[d], slot}
        /\ busy' = [busy EXCEPT ![d] = Nothing] /\ UNCHANGED <<data, key, got, keys, saves, wipes>>
    BY <1>5 DEF Store
  <2>2. DOMAIN busy' = Phone /\ busy'[d] = Nothing /\ \A e \in Phone \ {d} : busy'[e] = busy[e]
    BY <2>1 DEF CloudInv
  <2> QED BY <2>1, <2>2 DEF CloudInv
<1>6. ASSUME NEW d \in Phone, Delete(d) PROVE CloudInv'
  <2>1. slot' = Nothing /\ busy' = [busy EXCEPT ![d] = Nothing] /\ UNCHANGED <<data, key, got, keys, saves, wipes>>
    BY <1>6 DEF Delete, Ask
  <2>2. DOMAIN busy' = Phone /\ busy'[d] = Nothing /\ \A e \in Phone \ {d} : busy'[e] = busy[e]
    BY <2>1 DEF CloudInv
  <2> QED BY <2>1, <2>2 DEF CloudInv
<1>7. CASE Rot
  <2>1. slot # Nothing /\ slot' = [slot EXCEPT !.intact = FALSE] /\ UNCHANGED <<data, key, busy, got, keys, saves, wipes>>
    BY <1>7 DEF Rot
  <2>2. slot \in Copy /\ Opens(slot, key, wipes, saves)
    BY <2>1 DEF CloudInv
  <2>3. slot' \in Copy /\ slot'.by = slot.by /\ slot'.key = slot.key /\ slot'.data = slot.data
    BY <2>1, <2>2 DEF Copy
  <2> QED BY <2>1, <2>2, <2>3 DEF CloudInv, Opens
<1>8. ASSUME NEW d \in Phone, ReadMeta(d) PROVE CloudInv'
  <2>1. busy' = [busy EXCEPT ![d] = [type |-> "download"]] /\ UNCHANGED <<data, key, slot, got, keys, saves, wipes>>
    BY <1>8 DEF ReadMeta, Ask
  <2>2. DOMAIN busy' = Phone /\ busy'[d].type = "download" /\ \A e \in Phone \ {d} : busy'[e] = busy[e]
    BY <2>1 DEF CloudInv
  <2> QED BY <2>1, <2>2 DEF CloudInv
<1>9. ASSUME NEW d \in Phone, ReadBlob(d) PROVE CloudInv'
  <2> DEFINE x == Opened(d)
  <2>1. /\ busy' = [busy EXCEPT ![d] = Nothing] /\ got' = [got EXCEPT ![d] = x] /\ UNCHANGED <<data, slot, saves, wipes>>
    BY <1>9 DEF ReadBlob
  <2>2. /\ key' \in [Phone -> Nat \union {Nothing}] /\ keys' \in Nat
        /\ \A e \in Phone : key[e] # Nothing => key'[e] = key[e]
    BY <1>9, KeysStay DEF ReadBlob, CloudInv
  <2>3. slot # Nothing => slot \in Copy /\ Opens(slot, key, wipes, saves)
    BY DEF CloudInv
  <2>4. slot # Nothing /\ wipes = 0 => key'[slot.by] = slot.key
    BY <2>2, <2>3, CloudAssumption DEF Opens, Copy
  <2>5. /\ x.result \in {"absent", "corrupted", "unreadable", "read"}
        /\ x.result = "unreadable" /\ wipes = 0 => x.slot.by # d
        /\ x.result = "read" => x.data \in Nat /\ x.data <= saves
    <3>1. CASE slot = Nothing
      BY <3>1 DEF Opened
    <3>2. CASE slot # Nothing
      <4>1. slot.data \in Nat /\ slot.data <= saves
        BY <2>3, <3>2 DEF Copy, Opens
      <4>2. CASE ~slot.intact
        BY <3>2, <4>2 DEF Opened
      <4>3. CASE slot.intact /\ key'[d] # slot.key
        BY <2>4, <3>2, <4>3 DEF Opened
      <4>4. CASE slot.intact /\ key'[d] = slot.key
        BY <3>2, <4>1, <4>4 DEF Opened
      <4> QED BY <4>2, <4>3, <4>4
    <3> QED BY <3>1, <3>2
  <2> HIDE DEF x
  <2>6. /\ DOMAIN busy' = Phone /\ busy'[d] = Nothing /\ \A e \in Phone \ {d} : busy'[e] = busy[e]
        /\ DOMAIN got' = Phone /\ got'[d] = x /\ \A e \in Phone \ {d} : got'[e] = got[e]
    BY <2>1 DEF CloudInv
  <2>7. \A y \in Copy : Opens(y, key, wipes, saves) => Opens(y, key', wipes, saves)
    BY <2>2, OpensStays DEF CloudInv
  <2> QED BY <2>1, <2>2, <2>5, <2>6, <2>7 DEF CloudInv
<1> QED BY <1>1, <1>2, <1>3, <1>4, <1>5, <1>6, <1>7, <1>8, <1>9 DEF CloudNext

(* Whatever the devices upload, delete and download, and whichever answer  *)
(* comes first: the device that made the copy on the server can read it as *)
(* long as no secure storage was cleared, and what a device reads somebody *)
(* had (cloud-backup.ts, routes/backup.ts).                                *)
THEOREM CloudSafety == CloudSpec => []CopyIsReadable
<1>1. CloudInit => CloudInv
  BY DEF CloudInit, CloudInv
<1>2. CloudInv => CopyIsReadable
  BY DEF CloudInv, CopyIsReadable, Opens
<1> QED BY <1>1, <1>2, CloudStep, PTL DEF CloudSpec

-----------------------------------------------------------------------------
(* The assistant: the registry of its tools. *)

(* What the proofs need of a tool: what destroys asks first, what reads only *)
(* looks, and what creates knows the kind it creates.                        *)
Cautious(r) ==
    /\ r.risk = "destructive" => r.asks = "always"
    /\ r.risk = "read" => r.does = "look"
    /\ r.does = "create" => r.kind # "none"

LEMMA GroupsAreCautious == \A g \in ToolGroups : \A n \in DOMAIN g : Cautious(g[n])
<1>1. \A n \in DOMAIN ReadTools : Cautious(ReadTools[n])
  BY DEF ReadTools, A, Cautious
<1>2. \A n \in DOMAIN TaskTools : Cautious(TaskTools[n])
  BY DEF TaskTools, A, Cautious
<1>3. \A n \in DOMAIN GoalAndCalendarTools : Cautious(GoalAndCalendarTools[n])
  BY DEF GoalAndCalendarTools, A, Cautious
<1>4. \A n \in DOMAIN LearningTools : Cautious(LearningTools[n])
  BY DEF LearningTools, A, Cautious
<1>5. \A n \in DOMAIN MemoryTools : Cautious(MemoryTools[n])
  BY DEF MemoryTools, A, Cautious
<1>6. \A n \in DOMAIN PlanningTools : Cautious(PlanningTools[n])
  BY DEF PlanningTools, A, Cautious
<1>7. \A n \in DOMAIN MoreReadTools : Cautious(MoreReadTools[n])
  BY DEF MoreReadTools, A, Cautious
<1> QED
  BY <1>1, <1>2, <1>3, <1>4, <1>5, <1>6, <1>7 DEF ToolGroups

LEMMA ToolsAreCautious == \A n \in DOMAIN Tools : Cautious(Tools[n])
<1> SUFFICES ASSUME NEW n \in DOMAIN Tools PROVE Cautious(Tools[n])
  OBVIOUS
<1>1. n \in UNION {DOMAIN g : g \in ToolGroups}
  BY DEF Tools
<1> DEFINE G == CHOOSE g \in ToolGroups : n \in DOMAIN g
<1>2. \E g \in ToolGroups : n \in DOMAIN g
  BY <1>1
<1>3. G \in ToolGroups /\ n \in DOMAIN G
  BY <1>2
<1>4. Tools[n] = G[n]
  BY <1>1 DEF Tools
<1> QED
  BY <1>3, <1>4, GroupsAreCautious

-----------------------------------------------------------------------------
(* The invariant. *)

Pcs == {"idle", "never", "building", "asking", "calling", "replying", "extracting", "done", "failed"}
Calls == [tool : DOMAIN Tools, about : SUBSET Word, grave : BOOLEAN]
Outcome == {"asked", "unclear", "told", "failed", "done"}
Execution == [call : Calls, outcome : Outcome, pass : 1..MaxIterations]

Change == [turn : Turn, call : Calls, item : Item, pass : 1..MaxIterations]

NotYet(t) == turn[t].pc \in {"idle", "never"}

(* The shape of a turn. *)
TurnTyped(t) ==
    /\ DOMAIN turn[t] = DOMAIN Fresh("idle")
    /\ turn[t].pc \in Pcs
    /\ turn[t].unattended \in BOOLEAN
    /\ turn[t].blocked \in BOOLEAN
    /\ turn[t].pass \in 0..MaxIterations
    /\ turn[t].batch \in Seq(Asked[t])
    /\ turn[t].executions \in Seq(Execution)

(* The calls still to be made fit in the answer they came with. *)
Room(t) ==
    /\ \A p \in 0..MaxIterations : IsFiniteSet(ExecutedIn(t, p)) /\ Cardinality(ExecutedIn(t, p)) <= MaxBatch
    /\ Cardinality(ExecutedIn(t, turn[t].pass)) + Len(turn[t].batch) <= MaxBatch

(* Where a turn is and what it has done so far. *)
Placed(t) ==
    /\ NotYet(t) => turn[t].pass = 0 /\ turn[t].executions = <<>> /\ turn[t].approved = {}
    /\ ~NotYet(t) => turn[t].pass # 0
    /\ turn[t].pc # "calling" => turn[t].batch = <<>>

(* The executions are of this pass or of earlier ones, and the model is asked   *)
(* only when none is of this pass and nothing was put to the user.              *)
Booked(t) ==
    \A k \in DOMAIN turn[t].executions :
       LET e == turn[t].executions[k]
       IN  /\ e.pass <= turn[t].pass
           /\ turn[t].pc \in {"building", "asking"} => e.pass < turn[t].pass
           /\ e.outcome \in {"asked", "unclear"} => turn[t].blocked /\ e.pass = turn[t].pass

(* The calls of the answer were offered, and none was executed for an earlier one. *)
BatchAllowed(t) ==
    \A j \in DOMAIN turn[t].batch :
       /\ turn[t].batch[j].tool \in Offered(t)
       /\ \A k \in DOMAIN turn[t].executions :
             turn[t].executions[k].call = turn[t].batch[j] => turn[t].executions[k].pass = turn[t].pass

OncePerAnswer(t) ==
    \A j, k \in DOMAIN turn[t].executions :
       turn[t].executions[j].call = turn[t].executions[k].call
         => turn[t].executions[j].pass = turn[t].executions[k].pass

(* What is approved was shown. *)
ApprovalsShown(t) == turn[t].approved \subseteq {s.call : s \in shown}

TurnInv(t) ==
    TurnTyped(t) /\ Placed(t) /\ Room(t) /\ Booked(t) /\ BatchAllowed(t) /\ OncePerAnswer(t) /\ ApprovalsShown(t)

ItemsTyped ==
    /\ items = [i \in Item |-> items[i]]
    /\ \A i \in Item : /\ items[i] = [kind |-> items[i].kind, title |-> items[i].title, open |-> items[i].open]
                       /\ (items[i].kind = "none") <=> (items[i].title = {})

(* A change was made by a turn that runs or ran; what it destroyed was approved, *)
(* and unattended it only notified.                                              *)
ChangeRight(c, turns) ==
    /\ turns[c.turn].pc \notin {"idle", "never"}
    /\ Destructive(c.call) => c.call \in turns[c.turn].approved
    /\ turns[c.turn].unattended => c.call.tool = "send_notification"

ActInv ==
    /\ turn = [t \in Turn |-> turn[t]]
    /\ \A t \in Turn : TurnInv(t)
    /\ ItemsTyped
    /\ changes \in Seq(Change)
    /\ \A n \in DOMAIN changes : ChangeRight(changes[n], turn)

-----------------------------------------------------------------------------
(* What a step leaves alone. *)

(* A turn that does not move keeps its invariant, whatever is shown besides. *)
LEMMA TurnStays ==
  ASSUME NEW t \in Turn, TurnInv(t), turn'[t] = turn[t], shown \subseteq shown'
  PROVE  TurnInv(t)'
<1>1. TurnTyped(t)'
  BY DEF TurnInv, TurnTyped
<1>2. Placed(t)'
  BY DEF TurnInv, Placed, NotYet
<1>3. Room(t)'
  BY DEF TurnInv, Room, ExecutedIn
<1>4. Booked(t)'
  BY DEF TurnInv, Booked
<1>5. BatchAllowed(t)'
  BY DEF TurnInv, BatchAllowed, Offered
<1>6. OncePerAnswer(t)'
  BY DEF TurnInv, OncePerAnswer
<1>7. ApprovalsShown(t)'
  BY DEF TurnInv, ApprovalsShown
<1> QED
  BY <1>1, <1>2, <1>3, <1>4, <1>5, <1>6, <1>7 DEF TurnInv

(* What was changed stays right: a turn that has begun does not begin again and *)
(* keeps what was approved for it.                                              *)
Faithful(t) ==
    turn[t].pc \notin {"idle", "never"} =>
       /\ turn'[t].pc \notin {"idle", "never"}
       /\ turn'[t].approved = turn[t].approved /\ turn'[t].unattended = turn[t].unattended

LEMMA ChangeStays ==
  ASSUME ActInv, \A t \in Turn : Faithful(t), NEW n \in DOMAIN changes
  PROVE  changes[n] \in Change /\ ChangeRight(changes[n], turn')
<1>1. changes[n] \in Change
  BY ElementOfSeq DEF ActInv
<1>2. ChangeRight(changes[n], turn)
  BY DEF ActInv
<1>3. changes[n].turn \in Turn
  BY <1>1 DEF Change
<1>4. Faithful(changes[n].turn)
  BY <1>3
<1> QED
  BY <1>1, <1>2, <1>4 DEF ChangeRight, Faithful

(* A step of one turn that changes no item. *)
LEMMA OneTurnMoves ==
  ASSUME ActInv, NEW t \in Turn, NEW r, turn' = [turn EXCEPT ![t] = r],
         TurnInv(t)', Faithful(t), shown \subseteq shown', UNCHANGED <<items, changes>>
  PROVE  ActInv'
<1>1. \A u \in Turn : u # t => turn'[u] = turn[u]
  BY DEF ActInv
<1>2. \A u \in Turn : TurnInv(u)'
  BY <1>1, TurnStays DEF ActInv
<1>3. \A u \in Turn : Faithful(u)
  BY <1>1 DEF Faithful
<1>4. \A n \in DOMAIN changes : ChangeRight(changes[n], turn')
  BY <1>3, ChangeStays
<1>5. turn' = [u \in Turn |-> turn'[u]]
  BY DEF ActInv
<1>6. ItemsTyped'
  BY DEF ActInv, ItemsTyped
<1> QED
  BY <1>2, <1>4, <1>5, <1>6 DEF ActInv

-----------------------------------------------------------------------------
(* The initial states. *)

LEMMA ActInit == AssistantInit => ActInv
<1> SUFFICES ASSUME AssistantInit PROVE ActInv
  OBVIOUS
<1> USE AssistantAssumption
<1>1. turn = [t \in Turn |-> turn[t]]
  BY DEF AssistantInit
<1>2. ASSUME NEW t \in Turn PROVE TurnInv(t)
  <2>1. turn[t] \in {Fresh("idle"), Fresh("never")}
    BY DEF AssistantInit
  <2>2. /\ turn[t].pc \in {"idle", "never"} /\ ~turn[t].blocked /\ turn[t].pass = 0 /\ turn[t].batch = <<>>
        /\ turn[t].executions = <<>> /\ turn[t].approved = {} /\ turn[t].unattended = FALSE
        /\ turn[t].blocked = FALSE /\ DOMAIN turn[t] = DOMAIN Fresh("idle")
    BY <2>1 DEF Fresh
  <2>3. TurnTyped(t)
    <3>1. <<>> \in Seq(Asked[t]) /\ <<>> \in Seq(Execution)
      OBVIOUS
    <3>2. 0 \in 0..MaxIterations
      BY DEF AssistantAssumption
    <3> QED
      BY <3>1, <3>2, <2>2 DEF TurnTyped, Pcs
  <2>4. Room(t)
    <3>1. \A p \in 0..MaxIterations : ExecutedIn(t, p) = {}
      BY <2>2 DEF ExecutedIn
    <3>2. IsFiniteSet({}) /\ Cardinality({}) = 0
      BY FS_EmptySet
    <3>3. 0 \in 0..MaxIterations /\ 0 <= MaxBatch /\ Len(turn[t].batch) = 0
      BY <2>2 DEF AssistantAssumption
    <3>4. ExecutedIn(t, turn[t].pass) = {}
      BY <3>1, <3>3, <2>2
    <3>5. MaxBatch \in Nat
      BY DEF AssistantAssumption
    <3>6. ASSUME NEW p \in 0..MaxIterations
          PROVE  IsFiniteSet(ExecutedIn(t, p)) /\ Cardinality(ExecutedIn(t, p)) <= MaxBatch
      BY <3>1, <3>2, <3>3
    <3>7. Cardinality(ExecutedIn(t, turn[t].pass)) = 0
      BY <3>2, <3>4
    <3> QED
      BY <3>3, <3>5, <3>6, <3>7 DEF Room
  <2>5. Placed(t) /\ Booked(t) /\ BatchAllowed(t) /\ OncePerAnswer(t) /\ ApprovalsShown(t)
    BY <2>2 DEF Placed, NotYet, Booked, BatchAllowed, OncePerAnswer, ApprovalsShown
  <2> QED
    BY <2>3, <2>4, <2>5 DEF TurnInv
<1>3. ItemsTyped
  <2>1. items = [i \in Item |-> items[i]] /\ \A i \in Item : items[i] \in Worlds
    BY DEF AssistantInit
  <2>2. ASSUME NEW i \in Item
        PROVE  /\ items[i] = [kind |-> items[i].kind, title |-> items[i].title, open |-> items[i].open]
               /\ (items[i].kind = "none") <=> (items[i].title = {})
    <3>1. CASE items[i] = NoItem
      BY <3>1 DEF NoItem
    <3>2. CASE items[i] \in [kind : {"task", "event"}, title : (SUBSET Word) \ {{}}, open : {TRUE}]
      BY <3>2
    <3> QED
      BY <2>1, <3>1, <3>2 DEF Worlds
  <2> QED
    BY <2>1, <2>2 DEF ItemsTyped
<1>4. changes = <<>>
  BY DEF AssistantInit
<1> QED
  BY <1>1, <1>2, <1>3, <1>4 DEF ActInv

-----------------------------------------------------------------------------
(* The steps. *)

(* The fields of a turn that a step does not name. *)
Rest(t) ==
    /\ turn' = [turn EXCEPT ![t] = turn'[t]]
    /\ DOMAIN turn'[t] = DOMAIN turn[t]

(* A step that only moves a turn to its next place, with its batch worked off. *)
LEMMA MovesOn ==
  ASSUME ActInv, NEW t \in Turn, Rest(t), ~NotYet(t), turn[t].batch = <<>>,
         turn'[t].pc \in Pcs \ {"idle", "never"},
         turn'[t].pc \in {"building", "asking"} => turn[t].pc \in {"building", "asking"},
         turn'[t].unattended = turn[t].unattended, turn'[t].approved = turn[t].approved,
         turn'[t].pass = turn[t].pass, turn'[t].batch = turn[t].batch,
         turn'[t].executions = turn[t].executions, turn'[t].blocked = turn[t].blocked,
         UNCHANGED <<items, changes, shown>>
  PROVE  ActInv'
<1>0. TurnInv(t)
  BY DEF ActInv
<1>1. TurnTyped(t)'
  BY <1>0 DEF TurnInv, TurnTyped, Rest
<1>2. Placed(t)'
  BY <1>0 DEF TurnInv, Placed, NotYet
<1>3. Room(t)'
  BY <1>0 DEF TurnInv, Room, ExecutedIn
<1>4. Booked(t)'
  BY <1>0 DEF TurnInv, Booked
<1>5. BatchAllowed(t)' /\ OncePerAnswer(t)' /\ ApprovalsShown(t)'
  BY <1>0 DEF TurnInv, BatchAllowed, OncePerAnswer, ApprovalsShown
<1>6. Faithful(t)
  BY DEF Faithful
<1> QED
  BY <1>1, <1>2, <1>3, <1>4, <1>5, <1>6, OneTurnMoves DEF TurnInv, Rest

LEMMA ActChat == ASSUME ActInv, NEW t \in Turn, chat(t) PROVE ActInv'
<1>0. TurnInv(t) /\ turn[t].pc = "idle" /\ NotYet(t)
  BY DEF ActInv, chat, Only, NotYet
<1>1. PICK approved \in SUBSET {s.call : s \in shown}, un \in BOOLEAN :
        turn' = [turn EXCEPT ![t] = [@ EXCEPT !.pc = "building", !.unattended = un,
                                              !.approved = approved, !.pass = 1]]
  BY DEF chat
<1>2. DOMAIN turn[t] = {"pc", "unattended", "approved", "pass", "provider", "batch", "executions", "blocked",
                        "prompt", "extracts"}
  BY <1>0 DEF TurnInv, TurnTyped, Fresh
<1>3. turn'[t] = [turn[t] EXCEPT !.pc = "building", !.unattended = un, !.approved = approved, !.pass = 1]
  BY <1>1 DEF ActInv
<1>4. /\ DOMAIN turn'[t] = DOMAIN turn[t]
      /\ turn'[t].pc = "building" /\ turn'[t].unattended = un /\ turn'[t].approved = approved
      /\ turn'[t].pass = 1 /\ turn'[t].batch = <<>> /\ turn'[t].executions = <<>>
      /\ turn'[t].blocked = turn[t].blocked
  BY <1>0, <1>2, <1>3 DEF TurnInv, Placed
<1>5. TurnTyped(t)'
  BY <1>0, <1>4, AssistantAssumption DEF TurnInv, TurnTyped, Pcs, AssistantAssumption
<1>6. Placed(t)'
  BY <1>4 DEF Placed, NotYet
<1>7. Room(t)'
  <2>1. \A p : ExecutedIn(t, p)' = {}
    BY <1>4 DEF ExecutedIn
  <2>2. IsFiniteSet({}) /\ Cardinality({}) = 0 /\ MaxBatch \in Nat /\ Len(<<>>) = 0
    BY FS_EmptySet, AssistantAssumption DEF AssistantAssumption
  <2>3. ASSUME NEW p \in 0..MaxIterations
        PROVE  IsFiniteSet(ExecutedIn(t, p)') /\ Cardinality(ExecutedIn(t, p)') <= MaxBatch
    BY <2>1, <2>2
  <2>4. Cardinality(ExecutedIn(t, turn[t].pass)') = 0
    BY <2>1, <2>2
  <2> QED
    BY <2>2, <2>3, <2>4, <1>4 DEF Room
<1>8. Booked(t)' /\ BatchAllowed(t)' /\ OncePerAnswer(t)'
  BY <1>4 DEF Booked, BatchAllowed, OncePerAnswer
<1>9. UNCHANGED <<items, changes, shown>>
  BY DEF chat
<1>10. ApprovalsShown(t)'
  BY <1>4, <1>9 DEF ApprovalsShown
<1>11. Faithful(t)
  BY <1>0 DEF Faithful
<1> QED
  BY <1>1, <1>5, <1>6, <1>7, <1>8, <1>9, <1>10, <1>11, OneTurnMoves DEF TurnInv

(* The fields a turn has. *)
LEMMA Fields ==
  ASSUME ActInv, NEW t \in Turn
  PROVE  DOMAIN turn[t] = {"pc", "unattended", "approved", "pass", "provider", "batch", "executions", "blocked",
                           "prompt", "extracts"}
  BY DEF ActInv, TurnInv, TurnTyped, Fresh

LEMMA ExecutionTyped ==
  ASSUME NEW t \in Turn, TurnInv(t), NEW k \in DOMAIN turn[t].executions
  PROVE  turn[t].executions[k] \in Execution /\ turn[t].executions[k].pass \in Nat
<1>1. turn[t].executions \in Seq(Execution)
  BY DEF TurnInv, TurnTyped
<1>2. turn[t].executions[k] \in Execution
  BY <1>1
<1>3. turn[t].executions[k].pass \in 1..MaxIterations
  BY <1>2 DEF Execution
<1> QED
  BY <1>2, <1>3, AssistantAssumption DEF AssistantAssumption

LEMMA ActGoes ==
  ASSUME ActInv, NEW t \in Turn, Built(t) \/ Outage(t) \/ Aborted(t) \/ Reply(t) \/ Extracted(t)
  PROVE  ActInv'
<1>0. TurnInv(t) /\ turn[t].pc \notin {"idle", "never", "calling"} /\ ~NotYet(t) /\ turn[t].batch = <<>>
  BY DEF ActInv, TurnInv, Placed, Built, Outage, Aborted, Reply, Extracted, Only, NotYet
<1>1. UNCHANGED <<items, changes, shown>>
  BY DEF Built, Outage, Aborted, Reply, Extracted, SameWorld
<1> USE Fields
<1>2. CASE Built(t)
  <2>1. turn'[t] = [turn[t] EXCEPT !.pc = "asking", !.prompt = turn'[t].prompt] /\ turn[t].pc = "building"
    BY <1>2, Zenon DEF Built, ActInv, Only
  <2> QED
    BY <1>0, <1>1, <1>2, <2>1, MovesOn DEF Built, Rest, Pcs, ActInv
<1>3. CASE Outage(t)
  <2>1. turn'[t] = [turn[t] EXCEPT !.provider = "fallback"] /\ turn[t].pc = "asking"
    BY <1>3 DEF Outage, ActInv, Only
  <2> QED
    BY <1>0, <1>1, <1>3, <2>1, MovesOn DEF Outage, Rest, Pcs, ActInv
<1>4. CASE Aborted(t)
  <2>1. turn'[t] = [turn[t] EXCEPT !.pc = "failed"]
    BY <1>4 DEF Aborted, Goes, ActInv
  <2> QED
    BY <1>0, <1>1, <1>4, <2>1, MovesOn DEF Aborted, Goes, Rest, Pcs, ActInv
<1>5. CASE Reply(t)
  <2>1. turn'[t] = [turn[t] EXCEPT !.pc = "extracting"]
    BY <1>5 DEF Reply, Goes, ActInv
  <2> QED
    BY <1>0, <1>1, <1>5, <2>1, MovesOn DEF Reply, Goes, Rest, Pcs, ActInv
<1>6. CASE Extracted(t)
  <2>1. PICK saved \in BOOLEAN : turn' = [turn EXCEPT ![t] = [@ EXCEPT !.pc = "done", !.extracts = saved]]
    BY <1>6 DEF Extracted
  <2>2. turn'[t] = [turn[t] EXCEPT !.pc = "done", !.extracts = saved]
    BY <2>1 DEF ActInv
  <2> QED
    BY <1>0, <1>1, <2>1, <2>2, MovesOn DEF Rest, Pcs, ActInv
<1> QED
  BY <1>2, <1>3, <1>4, <1>5, <1>6

LEMMA ActNextPass == ASSUME ActInv, NEW t \in Turn, NextPass(t) PROVE ActInv'
<1>0. TurnInv(t) /\ turn[t].pc = "calling" /\ ~NotYet(t) /\ turn[t].batch = <<>>
  BY DEF ActInv, NextPass, Only, NotYet
<1>1. UNCHANGED <<items, changes, shown>>
  BY DEF NextPass, SameWorld
<1> USE Fields
<1>2. CASE turn[t].blocked \/ isLast(t)
  <2>1. turn' = [turn EXCEPT ![t].pc = "replying"] /\ turn'[t] = [turn[t] EXCEPT !.pc = "replying"]
    BY <1>2 DEF NextPass, Goes, ActInv
  <2> QED
    BY <1>0, <1>1, <2>1, MovesOn DEF Rest, Pcs, ActInv
<1>3. CASE ~(turn[t].blocked \/ isLast(t))
  <2>1. turn' = [turn EXCEPT ![t] = [turn[t] EXCEPT !.pc = "asking", !.pass = turn[t].pass + 1]]
    BY <1>3 DEF NextPass
  <2>2. turn'[t] = [turn[t] EXCEPT !.pc = "asking", !.pass = turn[t].pass + 1]
    <3> DEFINE r == [turn[t] EXCEPT !.pc = "asking", !.pass = turn[t].pass + 1]
    <3>1. turn' = [turn EXCEPT ![t] = r]
      BY <2>1
    <3>2. t \in DOMAIN turn
      BY DEF ActInv
    <3> HIDE DEF r
    <3>3. turn'[t] = r
      BY <3>1, <3>2
    <3> QED
      BY <3>3 DEF r
  <2>3. /\ DOMAIN turn'[t] = DOMAIN turn[t]
        /\ turn'[t].pc = "asking" /\ turn'[t].pass = turn[t].pass + 1
        /\ turn'[t].unattended = turn[t].unattended /\ turn'[t].approved = turn[t].approved
        /\ turn'[t].batch = <<>> /\ turn'[t].executions = turn[t].executions
        /\ turn'[t].blocked = turn[t].blocked
    BY <1>0, <2>2
  <2>4. turn[t].pass + 1 \in 0..MaxIterations /\ turn[t].pass \in Nat /\ ~turn[t].blocked
    BY <1>0, <1>3, AssistantAssumption DEF TurnInv, TurnTyped, isLast, AssistantAssumption
  <2>5. TurnTyped(t)'
    BY <1>0, <2>3, <2>4 DEF TurnInv, TurnTyped, Pcs
  <2>6. Placed(t)'
    BY <2>3, <2>4 DEF Placed, NotYet
  <2>7. \A k \in DOMAIN turn[t].executions : turn[t].executions[k].pass \in Nat
    BY <1>0, ExecutionTyped
  <2>8. Booked(t)'
    BY <1>0, <2>3, <2>4, <2>7 DEF TurnInv, Booked
  <2>9. Room(t)'
    <3>1. \A p \in 0..MaxIterations : ExecutedIn(t, p)' = ExecutedIn(t, p)
      BY <2>3 DEF ExecutedIn
    <3>2. ExecutedIn(t, turn[t].pass)' = {}
      BY <1>0, <2>3, <2>4, <2>7 DEF ExecutedIn, TurnInv, Booked
    <3>3. \A p \in 0..MaxIterations : IsFiniteSet(ExecutedIn(t, p)') /\ Cardinality(ExecutedIn(t, p)') <= MaxBatch
      BY <1>0, <3>1 DEF TurnInv, Room
    <3>4. Cardinality(ExecutedIn(t, turn[t].pass)') = 0 /\ Len(<<>>) = 0 /\ MaxBatch \in Nat
      BY <3>2, FS_EmptySet, AssistantAssumption DEF AssistantAssumption
    <3>5. Cardinality(ExecutedIn(t, turn[t].pass)') + Len(turn'[t].batch) <= MaxBatch
      BY <3>4, <2>3
    <3> QED
      BY <3>3, <3>5 DEF Room
  <2>10. BatchAllowed(t)' /\ OncePerAnswer(t)' /\ ApprovalsShown(t)'
    BY <1>0, <1>1, <2>3 DEF TurnInv, BatchAllowed, OncePerAnswer, ApprovalsShown
  <2>11. Faithful(t)
    BY <2>3 DEF Faithful
  <2> QED
    BY <1>1, <2>1, <2>5, <2>6, <2>8, <2>9, <2>10, <2>11, OneTurnMoves DEF TurnInv
<1> QED
  BY <1>2, <1>3

LEMMA ActGenerate == ASSUME ActInv, NEW t \in Turn, generate(t) PROVE ActInv'
<1>0. TurnInv(t) /\ turn[t].pc = "asking" /\ ~NotYet(t)
  BY DEF ActInv, generate, Only, NotYet
<1>1. UNCHANGED <<items, changes, shown>>
  BY DEF generate, SameWorld
<1>2. PICK calls \in SeqOf({c \in Asked[t] : toolAllowed(t, c)}, MaxBatch) :
        turn' = [turn EXCEPT ![t] = [@ EXCEPT !.batch = calls,
                                              !.pc = IF calls = <<>> THEN "replying" ELSE "calling"]]
  BY DEF generate
<1>3. /\ calls \in Seq({c \in Asked[t] : toolAllowed(t, c)}) /\ Len(calls) <= MaxBatch
  BY AssistantAssumption DEF SeqOf, AssistantAssumption
<1>4. /\ calls \in Seq(Asked[t])
      /\ \A j \in DOMAIN calls : toolAllowed(t, calls[j])
  <2>1. {c \in Asked[t] : toolAllowed(t, c)} \subseteq Asked[t]
    OBVIOUS
  <2>2. \A j \in DOMAIN calls : calls[j] \in {c \in Asked[t] : toolAllowed(t, c)}
    BY <1>3, ElementOfSeq
  <2> QED
    BY <1>3, <2>2
<1>5. turn'[t] = [turn[t] EXCEPT !.batch = calls, !.pc = IF calls = <<>> THEN "replying" ELSE "calling"]
  BY <1>2 DEF ActInv
<1>6. /\ DOMAIN turn'[t] = DOMAIN turn[t]
      /\ turn'[t].pc = (IF calls = <<>> THEN "replying" ELSE "calling") /\ turn'[t].batch = calls
      /\ turn'[t].unattended = turn[t].unattended /\ turn'[t].approved = turn[t].approved
      /\ turn'[t].pass = turn[t].pass /\ turn'[t].executions = turn[t].executions
      /\ turn'[t].blocked = turn[t].blocked
  BY <1>5, Fields
<1>7. TurnTyped(t)'
  BY <1>0, <1>4, <1>6 DEF TurnInv, TurnTyped, Pcs
<1>8. Placed(t)'
  BY <1>0, <1>6 DEF TurnInv, Placed, NotYet
<1>9. Room(t)'
  <2>1. \A p \in 0..MaxIterations : ExecutedIn(t, p)' = ExecutedIn(t, p)
    BY <1>6 DEF ExecutedIn
  <2>2. ExecutedIn(t, turn[t].pass) = {}
    <3>1. \A k \in DOMAIN turn[t].executions : turn[t].executions[k].pass \in Nat
      BY <1>0, ExecutionTyped
    <3> QED
      BY <1>0, <3>1 DEF ExecutedIn, TurnInv, Booked, TurnTyped
  <2>3. \A p \in 0..MaxIterations : IsFiniteSet(ExecutedIn(t, p)') /\ Cardinality(ExecutedIn(t, p)') <= MaxBatch
    BY <1>0, <2>1 DEF TurnInv, Room
  <2>4. ExecutedIn(t, turn[t].pass)' = {}
    BY <1>6, <2>2 DEF ExecutedIn
  <2>5. Cardinality(ExecutedIn(t, turn[t].pass)') = 0 /\ Len(calls) \in Nat
    BY <2>4, <1>4, FS_EmptySet
  <2>6. Cardinality(ExecutedIn(t, turn[t].pass)') + Len(turn'[t].batch) <= MaxBatch
    BY <2>5, <1>3, <1>6
  <2> QED
    BY <2>3, <2>6 DEF Room
<1>10. Booked(t)' /\ OncePerAnswer(t)'
  BY <1>0, <1>6 DEF TurnInv, Booked, OncePerAnswer
<1>11. BatchAllowed(t)'
  <2> SUFFICES ASSUME NEW j \in DOMAIN calls
               PROVE  /\ calls[j].tool \in Offered(t)'
                      /\ \A k \in DOMAIN turn[t].executions : turn[t].executions[k].call # calls[j]
    BY <1>6 DEF BatchAllowed
  <2>1. toolAllowed(t, calls[j])
    BY <1>4
  <2>2. Offered(t)' = Offered(t)
    BY <1>6 DEF Offered
  <2> QED
    BY <2>1, <2>2 DEF toolAllowed, Same, Range
<1>12. ApprovalsShown(t)'
  BY <1>0, <1>1, <1>6 DEF TurnInv, ApprovalsShown
<1>13. Faithful(t)
  BY <1>0, <1>6 DEF Faithful
<1> QED
  BY <1>1, <1>2, <1>7, <1>8, <1>9, <1>10, <1>11, <1>12, <1>13, OneTurnMoves DEF TurnInv

-----------------------------------------------------------------------------
(* A tool is invoked. *)

(* The turn after an execution. *)
LEMMA InvokedTurn ==
  ASSUME ActInv, NEW t \in Turn, invoke(t)
  PROVE  \E outcome \in Outcomes(t, Head(turn[t].batch)) :
           LET c == Head(turn[t].batch)
           IN  /\ turn' = [turn EXCEPT ![t] = turn'[t]]
               /\ DOMAIN turn'[t] = DOMAIN turn[t]
               /\ turn'[t].batch = Tail(turn[t].batch)
               /\ turn'[t].executions = Append(turn[t].executions,
                                              [call |-> c, outcome |-> outcome, pass |-> turn[t].pass])
               /\ turn'[t].blocked = (turn[t].blocked \/ Blocks(outcome))
               /\ turn'[t].pc = turn[t].pc /\ turn'[t].pass = turn[t].pass
               /\ turn'[t].unattended = turn[t].unattended /\ turn'[t].approved = turn[t].approved
               /\ turn'[t].prompt = turn[t].prompt
               /\ IF outcome = "done" /\ Does(c) # "look"
                  THEN \E i \in Item :
                         /\ items' = Changed(c, i)
                         /\ changes' = Append(changes, [turn |-> t, call |-> c, item |-> i, pass |-> turn[t].pass])
                  ELSE UNCHANGED <<items, changes>>
               /\ shown \subseteq shown'
<1> DEFINE c == Head(turn[t].batch)
           r(outcome) == [turn[t] EXCEPT !.batch = Tail(turn[t].batch),
                                         !.executions = Append(turn[t].executions,
                                                               [call |-> c, outcome |-> outcome, pass |-> turn[t].pass]),
                                         !.blocked = turn[t].blocked \/ Blocks(outcome)]
           acts(outcome) == IF outcome = "done" /\ Does(c) # "look"
                            THEN \E i \in IF Targets(c) = {} THEN Item ELSE Targets(c) :
                                   /\ (Targets(c) = {} => i = CHOOSE j \in Item : TRUE)
                                   /\ items' = Changed(c, i)
                                   /\ changes' = Append(changes, [turn |-> t, call |-> c, item |-> i, pass |-> turn[t].pass])
                            ELSE UNCHANGED <<items, changes>>
<1>1. PICK outcome \in Outcomes(t, c) :
        /\ acts(outcome)
        /\ shown' = IF outcome = "asked" THEN shown \cup {[call |-> c, meant |-> Pick(c)]} ELSE shown
        /\ turn' = [turn EXCEPT ![t] = r(outcome)]
  BY DEF invoke
<1>2. t \in DOMAIN turn
  BY DEF ActInv
<1>3. turn'[t] = r(outcome)
  <2> HIDE DEF r
  <2> QED BY <1>1, <1>2
<1>4. /\ DOMAIN turn'[t] = DOMAIN turn[t]
      /\ turn'[t].batch = Tail(turn[t].batch)
      /\ turn'[t].executions = Append(turn[t].executions, [call |-> c, outcome |-> outcome, pass |-> turn[t].pass])
      /\ turn'[t].blocked = (turn[t].blocked \/ Blocks(outcome))
      /\ turn'[t].pc = turn[t].pc /\ turn'[t].pass = turn[t].pass
      /\ turn'[t].unattended = turn[t].unattended /\ turn'[t].approved = turn[t].approved
      /\ turn'[t].prompt = turn[t].prompt
  <2> HIDE DEF c
  <2> QED BY <1>3, Fields
<1>5. turn' = [turn EXCEPT ![t] = turn'[t]]
  <2> HIDE DEF r
  <2> QED BY <1>1, <1>3
<1>6. Targets(c) \subseteq Item
  BY DEF Targets, Pick, Candidates
<1>7. outcome = "done" /\ Does(c) # "look" =>
        \E i \in Item :
          /\ items' = Changed(c, i)
          /\ changes' = Append(changes, [turn |-> t, call |-> c, item |-> i, pass |-> turn[t].pass])
  <2> HIDE DEF c, r
  <2> QED BY <1>1, <1>6
<1>8. shown \subseteq shown'
  BY <1>1
<1>9. ~(outcome = "done" /\ Does(c) # "look") => UNCHANGED <<items, changes>>
  <2> HIDE DEF c, r
  <2> QED BY <1>1
<1>10. outcome \in Outcomes(t, Head(turn[t].batch))
  BY <1>1
<1> QED
  <2> HIDE DEF c, r, acts
  <2> USE <1>10
  <2> WITNESS outcome \in Outcomes(t, Head(turn[t].batch))
  <2> QED BY <1>4, <1>5, <1>7, <1>8, <1>9 DEF c

(* The executions after one more: those of each pass, and of this pass one more. *)
LEMMA ExecutedMore ==
  ASSUME NEW t \in Turn, TurnInv(t), NEW e \in Execution, e.pass = turn[t].pass,
         turn'[t].executions = Append(turn[t].executions, e), NEW p \in 0..MaxIterations
  PROVE  /\ IsFiniteSet(ExecutedIn(t, p)')
         /\ p # turn[t].pass => Cardinality(ExecutedIn(t, p)') = Cardinality(ExecutedIn(t, p))
         /\ p = turn[t].pass => Cardinality(ExecutedIn(t, p)') = Cardinality(ExecutedIn(t, p)) + 1
<1> DEFINE x == turn[t].executions
<1>1. x \in Seq(Execution)
  BY DEF TurnInv, TurnTyped
<1>2. /\ Append(x, e) \in Seq(Execution) /\ Len(x) \in Nat
      /\ DOMAIN x = 1..Len(x) /\ DOMAIN Append(x, e) = 1..(Len(x) + 1)
      /\ \A k \in 1..Len(x) : Append(x, e)[k] = x[k]
      /\ Append(x, e)[Len(x) + 1] = e
  BY <1>1
<1>3. IsFiniteSet(ExecutedIn(t, p)) /\ Len(x) + 1 \notin ExecutedIn(t, p)
  <2>1. IsFiniteSet(ExecutedIn(t, p))
    BY DEF TurnInv, Room
  <2>2. ExecutedIn(t, p) \subseteq 1..Len(x)
    BY <1>2 DEF ExecutedIn
  <2> HIDE DEF x
  <2> QED
    BY <1>2, <2>1, <2>2
<1>4. CASE p # turn[t].pass
  <2>1. ExecutedIn(t, p)' = ExecutedIn(t, p)
    BY <1>2, <1>4 DEF ExecutedIn
  <2> QED
    BY <1>3, <1>4, <2>1
<1>5. CASE p = turn[t].pass
  <2>1. ExecutedIn(t, p)' = ExecutedIn(t, p) \cup {Len(x) + 1}
    BY <1>2, <1>5 DEF ExecutedIn
  <2>2. IsFiniteSet(ExecutedIn(t, p) \cup {Len(x) + 1})
    BY <1>3, FS_AddElement
  <2>3. Cardinality(ExecutedIn(t, p) \cup {Len(x) + 1}) = Cardinality(ExecutedIn(t, p)) + 1
    BY <1>3, FS_AddElement
  <2> QED
    BY <1>5, <2>1, <2>2, <2>3
<1> QED
  BY <1>4, <1>5

LEMMA InvokedInv == ASSUME ActInv, NEW t \in Turn, invoke(t) PROVE TurnInv(t)' /\ Faithful(t)
<1> DEFINE b == turn[t].batch
           x == turn[t].executions
           c == Head(b)
<1>0. TurnInv(t) /\ turn[t].pc = "calling" /\ b # <<>> /\ b \in Seq(Asked[t]) /\ x \in Seq(Execution)
  BY DEF ActInv, TurnInv, TurnTyped, invoke, Only
<1>1. PICK outcome \in Outcomes(t, c) :
        /\ DOMAIN turn'[t] = DOMAIN turn[t]
        /\ turn'[t].batch = Tail(b)
        /\ turn'[t].executions = Append(x, [call |-> c, outcome |-> outcome, pass |-> turn[t].pass])
        /\ turn'[t].blocked = (turn[t].blocked \/ Blocks(outcome))
        /\ turn'[t].pc = turn[t].pc /\ turn'[t].pass = turn[t].pass
        /\ turn'[t].unattended = turn[t].unattended /\ turn'[t].approved = turn[t].approved
        /\ shown \subseteq shown'
  BY InvokedTurn
<1> DEFINE e == [call |-> c, outcome |-> outcome, pass |-> turn[t].pass]
<1>2. /\ c = b[1] /\ c \in Asked[t] /\ 1 \in DOMAIN b
      /\ Tail(b) \in Seq(Asked[t]) /\ Len(Tail(b)) = Len(b) - 1 /\ Len(b) \in Nat
      /\ \A j \in DOMAIN Tail(b) : j + 1 \in DOMAIN b /\ Tail(b)[j] = b[j + 1]
  <2>1. b \in Seq(Asked[t]) /\ b # <<>>
    BY <1>0
  <2> HIDE DEF b
  <2>2. Len(b) \in Nat /\ Len(b) # 0 /\ DOMAIN b = 1..Len(b)
    BY <2>1
  <2>3. /\ Head(b) \in Asked[t] /\ Tail(b) \in Seq(Asked[t]) /\ Len(Tail(b)) = Len(b) - 1
        /\ \A i \in 1..Len(Tail(b)) : Tail(b)[i] = b[i + 1]
    BY <2>1, HeadTailProperties
  <2>4. Head(b) = b[1]
    BY <2>1
  <2>5. DOMAIN Tail(b) = 1..(Len(b) - 1)
    BY <2>3
  <2>6. c = b[1] /\ c \in Asked[t]
    BY <2>3, <2>4
  <2>7. ASSUME NEW j \in DOMAIN Tail(b) PROVE j + 1 \in DOMAIN b /\ Tail(b)[j] = b[j + 1]
    BY <2>2, <2>3, <2>5
  <2> HIDE DEF c
  <2> QED
    BY <2>2, <2>3, <2>6, <2>7
<1>3. outcome \in Outcome
  BY <1>1 DEF Outcomes, Outcome
<1>4. turn[t].pass \in 1..MaxIterations
  BY <1>0, AssistantAssumption DEF TurnInv, TurnTyped, Placed, NotYet, AssistantAssumption
<1>5. e \in Execution
  BY <1>2, <1>3, <1>4, AssistantAssumption DEF Execution, Calls, AssistantAssumption
<1>6. /\ Append(x, e) \in Seq(Execution) /\ Len(x) \in Nat
      /\ DOMAIN x = 1..Len(x) /\ DOMAIN Append(x, e) = 1..(Len(x) + 1)
      /\ \A k \in 1..Len(x) : Append(x, e)[k] = x[k]
      /\ Append(x, e)[Len(x) + 1] = e
  <2> HIDE DEF e, x
  <2> QED BY <1>0, <1>5
<1>7. e.call = c /\ e.outcome = outcome /\ e.pass = turn[t].pass
  OBVIOUS
<1>8. turn'[t].executions = Append(x, e)
  BY <1>1
<1> HIDE DEF e, c, x, b
<1>9. TurnTyped(t)'
  <2>1. turn'[t].blocked \in BOOLEAN
    BY <1>0, <1>1 DEF TurnInv, TurnTyped, Blocks
  <2> QED
    BY <1>0, <1>1, <1>2, <1>6, <1>8, <2>1 DEF TurnInv, TurnTyped
<1>10. Placed(t)'
  BY <1>0, <1>1, <1>4, AssistantAssumption DEF TurnInv, Placed, NotYet, AssistantAssumption
<1>11. Room(t)'
  <2>1. \A p \in 0..MaxIterations :
          /\ IsFiniteSet(ExecutedIn(t, p)')
          /\ p # turn[t].pass => Cardinality(ExecutedIn(t, p)') = Cardinality(ExecutedIn(t, p))
          /\ p = turn[t].pass => Cardinality(ExecutedIn(t, p)') = Cardinality(ExecutedIn(t, p)) + 1
    BY <1>0, <1>5, <1>7, <1>8, ExecutedMore DEF x
  <2>2. turn[t].pass \in 0..MaxIterations /\ MaxBatch \in Nat
    BY <1>4, AssistantAssumption DEF AssistantAssumption
  <2>3. /\ Cardinality(ExecutedIn(t, turn[t].pass)) + Len(b) <= MaxBatch
        /\ \A p \in 0..MaxIterations : Cardinality(ExecutedIn(t, p)) <= MaxBatch /\ Cardinality(ExecutedIn(t, p)) \in Nat
    BY <1>0, <2>2, FS_CardinalityType DEF TurnInv, Room, b
  <2>4. ExecutedIn(t, turn[t].pass)' = ExecutedIn(t, turn[t].pass)' /\ turn'[t].pass = turn[t].pass
    BY <1>1
  <2> DEFINE now == {k \in DOMAIN turn'[t].executions : turn'[t].executions[k].pass = turn[t].pass}
  <2>5. Cardinality(now) + Len(Tail(b)) <= MaxBatch
    <3>1. Cardinality(now) = Cardinality(ExecutedIn(t, turn[t].pass)) + 1
      BY <1>0, <1>5, <1>7, <1>8, <2>2, ExecutedMore DEF ExecutedIn, x
    <3>2. Cardinality(ExecutedIn(t, turn[t].pass)) \in Nat
      BY <2>2, <2>3
    <3> HIDE DEF now
    <3> QED
      BY <1>2, <2>2, <2>3, <3>1, <3>2
  <2>6. \A p \in 0..MaxIterations : IsFiniteSet(ExecutedIn(t, p)') /\ Cardinality(ExecutedIn(t, p)') <= MaxBatch
    BY <1>2, <2>1, <2>2, <2>3, <1>0
  <2> QED
    BY <1>1, <2>5, <2>6 DEF Room, ExecutedIn
<1>12. Booked(t)'
  <2>1. ASSUME NEW k \in 1..(Len(x) + 1)
        PROVE  /\ Append(x, e)[k].pass <= turn[t].pass
               /\ Append(x, e)[k].outcome \in {"asked", "unclear"} =>
                     turn'[t].blocked /\ Append(x, e)[k].pass = turn[t].pass
    <3>1. CASE k \in DOMAIN x
      BY <1>0, <1>1, <1>6, <3>1 DEF TurnInv, Booked, x
    <3>2. CASE k = Len(x) + 1
      <4>1. outcome \in {"asked", "unclear"} => turn'[t].blocked
        BY <1>1, Zenon DEF Blocks
      <4>2. Append(x, e)[k] = e
        BY <1>6, <3>2
      <4>3. turn[t].pass <= turn[t].pass
        BY <1>4, AssistantAssumption DEF AssistantAssumption
      <4> QED
        BY <1>7, <4>1, <4>2, <4>3
    <3>3. k \in DOMAIN x \/ k = Len(x) + 1
      BY <1>6
    <3> QED
      BY <3>1, <3>2, <3>3
  <2> QED
    BY <1>0, <1>1, <1>6, <1>8, <2>1 DEF Booked
<1>13. BatchAllowed(t)'
  <2>1. Offered(t)' = Offered(t)
    BY <1>1 DEF Offered
  <2> SUFFICES ASSUME NEW j \in DOMAIN Tail(b)
               PROVE  /\ Tail(b)[j].tool \in Offered(t)
                      /\ \A k \in 1..(Len(x) + 1) :
                            Append(x, e)[k].call = Tail(b)[j] => Append(x, e)[k].pass = turn[t].pass
    BY <1>1, <1>6, <1>8, <2>1 DEF BatchAllowed
  <2>2. /\ b[j + 1].tool \in Offered(t)
        /\ \A k \in DOMAIN x : x[k].call = b[j + 1] => x[k].pass = turn[t].pass
    BY <1>0, <1>2 DEF TurnInv, BatchAllowed, b, x
  <2> QED
    BY <1>2, <1>6, <1>7, <2>2
<1>14. OncePerAnswer(t)'
  <2>1. \A k \in DOMAIN x : x[k].call = c => x[k].pass = turn[t].pass
    BY <1>0, <1>2 DEF TurnInv, BatchAllowed, b, x
  <2>2. \A j, k \in DOMAIN x : x[j].call = x[k].call => x[j].pass = x[k].pass
    BY <1>0 DEF TurnInv, OncePerAnswer, x
  <2> QED
    BY <1>6, <1>7, <1>8, <2>1, <2>2 DEF OncePerAnswer
<1>15. ApprovalsShown(t)'
  BY <1>0, <1>1 DEF TurnInv, ApprovalsShown
<1>16. Faithful(t)
  BY <1>1 DEF Faithful
<1> QED
  BY <1>9, <1>10, <1>11, <1>12, <1>13, <1>14, <1>15, <1>16 DEF TurnInv

(* What destroys is done only if it was approved, and unattended nothing is    *)
(* done but what notifies.                                                     *)
LEMMA DoneIsRight ==
  ASSUME NEW t \in Turn, NEW c \in Calls, c.tool \in Offered(t), "done" \in Outcomes(t, c), Does(c) # "look"
  PROVE  /\ Destructive(c) => c \in turn[t].approved
         /\ turn[t].unattended => c.tool = "send_notification"
         /\ c.about # {}
         /\ Does(c) = "create" => Tools[c.tool].kind # "none"
<1>1. c.tool \in DOMAIN Tools
  BY DEF Calls
<1>2. Cautious(Tools[c.tool])
  BY <1>1, ToolsAreCautious
<1>3. Valid(c)
  BY DEF Outcomes
<1>4. ~(Confirms(t, c) /\ ~Approved(t, c))
  BY <1>3 DEF Outcomes
<1> QED
  BY <1>2, <1>3, <1>4 DEF Cautious, Destructive, Confirms, Approved, Offered, Does, Valid

LEMMA InvokedItems ==
  ASSUME ActInv, NEW t \in Turn, invoke(t)
  PROVE  ItemsTyped' /\ changes' \in Seq(Change) /\ \A n \in DOMAIN changes' : ChangeRight(changes'[n], turn')
<1> DEFINE c == Head(turn[t].batch)
<1>1. PICK outcome \in Outcomes(t, c) :
        /\ turn' = [turn EXCEPT ![t] = turn'[t]]
        /\ turn'[t].pc = turn[t].pc
        /\ turn'[t].unattended = turn[t].unattended /\ turn'[t].approved = turn[t].approved
        /\ IF outcome = "done" /\ Does(c) # "look"
           THEN \E i \in Item :
                  /\ items' = Changed(c, i)
                  /\ changes' = Append(changes, [turn |-> t, call |-> c, item |-> i, pass |-> turn[t].pass])
           ELSE UNCHANGED <<items, changes>>
  BY InvokedTurn
<1>2. TurnInv(t) /\ turn[t].pc = "calling" /\ turn[t].batch # <<>> /\ turn[t].batch \in Seq(Asked[t])
  BY DEF ActInv, TurnInv, TurnTyped, invoke, Only
<1>3. c \in Asked[t] /\ c = turn[t].batch[1] /\ 1 \in DOMAIN turn[t].batch
  BY <1>2
<1>4. c \in Calls /\ c.tool \in Offered(t)
  BY <1>2, <1>3, AssistantAssumption DEF TurnInv, BatchAllowed, Calls, AssistantAssumption
<1>5. turn[t].pass \in 1..MaxIterations
  BY <1>2, AssistantAssumption DEF TurnInv, TurnTyped, Placed, NotYet, AssistantAssumption
<1> HIDE DEF c
<1>6. \A u \in Turn : Faithful(u)
  <2>1. \A u \in Turn : u # t => turn'[u] = turn[u]
    BY <1>1 DEF ActInv
  <2> QED
    BY <1>1, <2>1 DEF Faithful
<1>7. \A n \in DOMAIN changes : changes[n] \in Change /\ ChangeRight(changes[n], turn')
  BY <1>6, ChangeStays
<1>8. CASE outcome = "done" /\ Does(c) # "look"
  <2>1. PICK i \in Item :
          /\ items' = Changed(c, i)
          /\ changes' = Append(changes, [turn |-> t, call |-> c, item |-> i, pass |-> turn[t].pass])
    BY <1>1, <1>8
  <2>2. /\ Destructive(c) => c \in turn[t].approved
        /\ turn[t].unattended => c.tool = "send_notification"
        /\ c.about # {}
        /\ Does(c) = "create" => Tools[c.tool].kind # "none"
    BY <1>1, <1>4, <1>8, DoneIsRight
  <2> DEFINE m == [turn |-> t, call |-> c, item |-> i, pass |-> turn[t].pass]
  <2>3. m \in Change
    BY <1>4, <1>5 DEF Change
  <2>4. ChangeRight(m, turn')
    BY <1>1, <1>2, <2>2 DEF ChangeRight
  <2>5. changes \in Seq(Change)
    BY DEF ActInv
  <2> HIDE DEF m
  <2>6. /\ Append(changes, m) \in Seq(Change) /\ Len(changes) \in Nat
        /\ DOMAIN changes = 1..Len(changes) /\ DOMAIN Append(changes, m) = 1..(Len(changes) + 1)
        /\ \A n \in 1..Len(changes) : Append(changes, m)[n] = changes[n]
        /\ Append(changes, m)[Len(changes) + 1] = m
    BY <2>3, <2>5
  <2>7. changes' = Append(changes, m)
    BY <2>1 DEF m
  <2>8. \A n \in DOMAIN changes' : ChangeRight(changes'[n], turn')
    <3> SUFFICES ASSUME NEW n \in 1..(Len(changes) + 1) PROVE ChangeRight(Append(changes, m)[n], turn')
      BY <2>6, <2>7
    <3>1. n \in DOMAIN changes \/ n = Len(changes) + 1
      BY <2>6
    <3> QED
      BY <1>7, <2>4, <2>6, <3>1
  <2>9. ItemsTyped'
    <3>1. ItemsTyped
      BY DEF ActInv
    <3>2. CASE Does(c) = "create"
      <4>1. items' = [items EXCEPT ![i] = [kind |-> Tools[c.tool].kind, title |-> c.about, open |-> TRUE]]
        BY <2>1, <3>2 DEF Changed
      <4>2. c.about # {} /\ Tools[c.tool].kind # "none"
        BY <2>2, <3>2
      <4> QED
        BY <3>1, <4>1, <4>2 DEF ItemsTyped
    <3>3. CASE items' = [items EXCEPT ![i].open = FALSE]
      <4> DEFINE shut == FALSE
      <4>1. items[i] = [kind |-> items[i].kind, title |-> items[i].title, open |-> items[i].open]
        BY <3>1 DEF ItemsTyped
      <4>2. DOMAIN items[i] = {"kind", "title", "open"}
        BY <4>1
      <4> HIDE DEF shut
      <4>3. [items[i] EXCEPT !.open = shut] = [kind |-> items[i].kind, title |-> items[i].title, open |-> shut]
        BY <4>2
      <4>4. items' = [items EXCEPT ![i] = [kind |-> items[i].kind, title |-> items[i].title, open |-> shut]]
        BY <3>3, <4>3 DEF shut
      <4> QED
        BY <3>1, <4>4 DEF ItemsTyped
    <3>4. CASE items' = items
      BY <3>1, <3>4 DEF ItemsTyped
    <3> QED
      BY <2>1, <3>2, <3>3, <3>4 DEF Changed
  <2> QED
    BY <2>6, <2>7, <2>8, <2>9
<1>9. CASE ~(outcome = "done" /\ Does(c) # "look")
  BY <1>1, <1>7, <1>9 DEF ActInv, ItemsTyped
<1> QED
  BY <1>8, <1>9

LEMMA ActInvoke == ASSUME ActInv, NEW t \in Turn, invoke(t) PROVE ActInv'
<1>1. TurnInv(t)' /\ ItemsTyped' /\ changes' \in Seq(Change)
  BY InvokedInv, InvokedItems
<1>2. \A n \in DOMAIN changes' : ChangeRight(changes'[n], turn')
  BY InvokedItems
<1>3. turn' = [turn EXCEPT ![t] = turn'[t]] /\ shown \subseteq shown'
  BY InvokedTurn
<1>4. \A u \in Turn : TurnInv(u)'
  <2> SUFFICES ASSUME NEW u \in Turn, u # t PROVE TurnInv(u)'
    BY <1>1
  <2>1. TurnInv(u) /\ turn'[u] = turn[u]
    BY <1>3 DEF ActInv
  <2> QED
    BY <1>3, <2>1, TurnStays
<1>5. turn' = [u \in Turn |-> turn'[u]]
  <2>1. turn = [u \in Turn |-> turn[u]]
    BY DEF ActInv
  <2> QED
    BY <1>3, <2>1
<1> QED
  BY <1>1, <1>2, <1>4, <1>5 DEF ActInv

LEMMA ActEdited == ASSUME ActInv, Edited PROVE ActInv'
<1>1. UNCHANGED <<turn, changes, shown>>
  BY DEF Edited
<1>2. \A t \in Turn : TurnInv(t)'
  BY <1>1, TurnStays DEF ActInv
<1>3. \A n \in DOMAIN changes' : ChangeRight(changes'[n], turn')
  BY <1>1 DEF ActInv
<1>4. ItemsTyped'
  <2>1. ItemsTyped
    BY DEF ActInv
  <2>2. PICK i \in Item :
          /\ items[i].kind # "none"
          /\ \/ \E title \in (SUBSET Word) \ {{}} : items' = [items EXCEPT ![i].title = title]
             \/ items' = [items EXCEPT ![i].open = ~items[i].open]
    BY DEF Edited
  <2>3. items[i] = [kind |-> items[i].kind, title |-> items[i].title, open |-> items[i].open]
    BY <2>1 DEF ItemsTyped
  <2>4. DOMAIN items[i] = {"kind", "title", "open"}
    BY <2>3
  <2>5. CASE \E title \in (SUBSET Word) \ {{}} : items' = [items EXCEPT ![i].title = title]
    <3>1. PICK title \in (SUBSET Word) \ {{}} : items' = [items EXCEPT ![i].title = title]
      BY <2>5
    <3>2. [items[i] EXCEPT !.title = title] = [kind |-> items[i].kind, title |-> title, open |-> items[i].open]
      BY <2>4
    <3>3. items' = [items EXCEPT ![i] = [kind |-> items[i].kind, title |-> title, open |-> items[i].open]]
      BY <3>1, <3>2
    <3>4. title # {}
      OBVIOUS
    <3> QED
      BY <2>1, <2>2, <3>3, <3>4 DEF ItemsTyped
  <2>6. CASE items' = [items EXCEPT ![i].open = ~items[i].open]
    <3> DEFINE shut == ~items[i].open
    <3> HIDE DEF shut
    <3>2. [items[i] EXCEPT !.open = shut] = [kind |-> items[i].kind, title |-> items[i].title, open |-> shut]
      BY <2>4
    <3>3. items' = [items EXCEPT ![i] = [kind |-> items[i].kind, title |-> items[i].title, open |-> shut]]
      BY <2>6, <3>2 DEF shut
    <3> QED
      BY <2>1, <2>2, <3>3 DEF ItemsTyped
  <2> QED
    BY <2>2, <2>5, <2>6
<1>5. turn' = [u \in Turn |-> turn'[u]] /\ changes' \in Seq(Change)
  BY <1>1 DEF ActInv
<1> QED
  BY <1>2, <1>3, <1>4, <1>5 DEF ActInv

-----------------------------------------------------------------------------
(* Correctness. *)

LEMMA ActStep == ActInv /\ [AssistantNext]_assistantVars => ActInv'
<1> SUFFICES ASSUME ActInv, [AssistantNext]_assistantVars PROVE ActInv'
  OBVIOUS
<1>1. CASE Edited
  BY <1>1, ActEdited
<1>2. ASSUME NEW t \in Turn, chat(t) \/ Aborted(t) \/ Proceeds(t) PROVE ActInv'
  BY <1>2, ActChat, ActGoes, ActGenerate, ActInvoke, ActNextPass DEF Proceeds
<1>3. CASE UNCHANGED assistantVars
  <2>1. UNCHANGED <<turn, items, changes, shown>>
    BY <1>3 DEF assistantVars
  <2>2. \A t \in Turn : TurnInv(t)'
    BY <2>1, TurnStays DEF ActInv
  <2> QED
    BY <2>1, <2>2 DEF ActInv, ItemsTyped
<1> QED
  BY <1>1, <1>2, <1>3 DEF AssistantNext

LEMMA ActsRight == ActInv => ActsAsApproved
<1> SUFFICES ASSUME ActInv PROVE ActsAsApproved
  OBVIOUS
<1>1. AssistantTypeOK
  <2>1. ASSUME NEW t \in Turn
        PROVE  /\ turn[t].pass \in 0..MaxIterations
               /\ turn[t].batch \in SeqOf(Asked[t], MaxBatch)
               /\ \A p \in 1..MaxIterations : Cardinality(ExecutedIn(t, p)) <= MaxBatch
    <3>1. TurnInv(t)
      BY DEF ActInv
    <3>2. turn[t].pass \in 0..MaxIterations /\ turn[t].batch \in Seq(Asked[t])
      BY <3>1 DEF TurnInv, TurnTyped
    <3>3. \A p \in 0..MaxIterations : IsFiniteSet(ExecutedIn(t, p)) /\ Cardinality(ExecutedIn(t, p)) <= MaxBatch
      BY <3>1 DEF TurnInv, Room
    <3>4. Cardinality(ExecutedIn(t, turn[t].pass)) \in Nat
      BY <3>2, <3>3, FS_CardinalityType
    <3>5. Len(turn[t].batch) \in 0..MaxBatch
      BY <3>1, <3>2, <3>4, AssistantAssumption DEF TurnInv, Room, AssistantAssumption
    <3>6. turn[t].batch \in [1..Len(turn[t].batch) -> Asked[t]]
      BY <3>2
    <3>7. turn[t].batch \in SeqOf(Asked[t], MaxBatch)
      BY <3>5, <3>6 DEF SeqOf
    <3> QED
      BY <3>2, <3>3, <3>7, AssistantAssumption DEF AssistantAssumption
  <2>2. \A i \in Item : (items[i].kind = "none") <=> (items[i].title = {})
    BY DEF ActInv, ItemsTyped
  <2> QED
    BY <2>1, <2>2 DEF AssistantTypeOK
<1>2. DestroyedAsApproved
  <2> SUFFICES ASSUME NEW n \in DOMAIN changes, Destructive(changes[n].call)
               PROVE  /\ changes[n].call \in turn[changes[n].turn].approved
                      /\ \E s \in shown : s.call = changes[n].call
    BY DEF DestroyedAsApproved
  <2>1. ChangeRight(changes[n], turn) /\ changes[n] \in Change
    BY ElementOfSeq DEF ActInv
  <2>2. changes[n].turn \in Turn /\ changes[n].call \in turn[changes[n].turn].approved
    BY <2>1 DEF ChangeRight, Change
  <2>3. turn[changes[n].turn].approved \subseteq {s.call : s \in shown}
    BY <2>2 DEF ActInv, TurnInv, ApprovalsShown
  <2> QED
    BY <2>2, <2>3
<1>3. UnattendedOnlyNotifies
  BY DEF UnattendedOnlyNotifies, ActInv, ChangeRight
<1>4. QuestionEndsTheLoop
  BY DEF QuestionEndsTheLoop, ActInv, TurnInv, Booked, Range
<1>5. NotRepeated
  BY DEF NotRepeated, ActInv, TurnInv, OncePerAnswer, Range
<1> QED
  BY <1>1, <1>2, <1>3, <1>4, <1>5 DEF ActsAsApproved

(* In whatever order turns, answers of the model, edits of the user and          *)
(* approvals come: nothing is cancelled, deleted or forgotten without its        *)
(* question having been shown and approved, a turn nobody attends only notifies, *)
(* a question ends the loop of its turn, and no call is repeated in a later      *)
(* pass (orchestrator.ts 112-238, tools.ts 139-175).                             *)
THEOREM ApprovalSafety == AssistantInit /\ [][AssistantNext]_assistantVars => []ActsAsApproved
<1>1. AssistantInit /\ [][AssistantNext]_assistantVars => []ActInv
  BY ActInit, ActStep, PTL
<1> QED
  BY <1>1, ActsRight, PTL

-----------------------------------------------------------------------------
(* The conversation as the audit trail. *)

Entry == [role : {"user", "tool", "assistant"}, turn : Turn]

(* What a turn has in the conversation. *)
Trail(t) ==
    /\ Cardinality(Entries(t, "user")) = (IF turn[t].pass = 0 THEN 0 ELSE 1)
    /\ Cardinality(Entries(t, "tool")) = Len(turn[t].executions)
    /\ Cardinality(Entries(t, "assistant")) = (IF turn[t].pc \in {"extracting", "done"} THEN 1 ELSE 0)
    /\ \A j, k \in DOMAIN messages :
         j < k /\ messages[j].turn = t /\ messages[k].turn = t
           => messages[j].role # "assistant" /\ messages[k].role # "user"

(* While turns do not overlap, one runs, and when it is about to read the history *)
(* its own message is the newest.                                                 *)
Alone ==
    /\ \A t, u \in Turn : Running(t) /\ Running(u) => t = u
    /\ \A t \in Turn : turn[t].pc = "building" =>
          /\ Len(messages) \in DOMAIN messages
          /\ messages[Len(messages)] = [role |-> "user", turn |-> t]
    /\ \A t \in Turn : ToldOnce(t)

TrailInv ==
    /\ messages \in Seq(Entry)
    /\ count = Len(messages)
    /\ \A t \in Turn : Trail(t)
    /\ apart => Alone

(* A message more. *)
LEMMA Appended ==
  ASSUME messages \in Seq(Entry), NEW e \in Entry, messages' = Append(messages, e)
  PROVE  /\ messages' \in Seq(Entry)
         /\ Len(messages) \in Nat /\ Len(messages') = Len(messages) + 1
         /\ DOMAIN messages = 1..Len(messages) /\ DOMAIN messages' = 1..(Len(messages) + 1)
         /\ \A k \in 1..Len(messages) : messages'[k] = messages[k]
         /\ messages'[Len(messages) + 1] = e
  OBVIOUS

LEMMA EntriesFinite ==
  ASSUME messages \in Seq(Entry), NEW t, NEW role
  PROVE  IsFiniteSet(Entries(t, role)) /\ Entries(t, role) \subseteq 1..Len(messages)
<1>1. Len(messages) \in Nat /\ DOMAIN messages = 1..Len(messages)
  OBVIOUS
<1>2. Entries(t, role) \subseteq 1..Len(messages)
  BY <1>1 DEF Entries
<1>3. IsFiniteSet(1..Len(messages))
  BY <1>1, FS_Interval
<1> QED
  BY <1>2, <1>3, FS_Subset

(* The entries of a turn grow by the one that is appended. *)
LEMMA EntriesGrow ==
  ASSUME messages \in Seq(Entry), NEW e \in Entry, messages' = Append(messages, e), NEW t, NEW role
  PROVE  /\ e.turn = t /\ e.role = role =>
              Cardinality(Entries(t, role)') = Cardinality(Entries(t, role)) + 1
         /\ ~(e.turn = t /\ e.role = role) => Entries(t, role)' = Entries(t, role)
<1> DEFINE n == Len(messages)
           S == Entries(t, role)
<1>1. /\ n \in Nat /\ DOMAIN messages = 1..n /\ DOMAIN messages' = 1..(n + 1)
      /\ \A k \in 1..n : messages'[k] = messages[k]
      /\ messages'[n + 1] = e
  BY Appended
<1>2. IsFiniteSet(S) /\ S \subseteq 1..n
  BY EntriesFinite
<1>3. n + 1 \notin S
  BY <1>1, <1>2
<1>4. CASE e.turn = t /\ e.role = role
  <2>1. Entries(t, role)' = S \cup {n + 1}
    BY <1>1, <1>4 DEF Entries
  <2>2. Cardinality(S \cup {n + 1}) = Cardinality(S) + 1
    BY <1>2, <1>3, FS_AddElement
  <2> QED
    BY <1>4, <2>1, <2>2
<1>5. CASE ~(e.turn = t /\ e.role = role)
  BY <1>1, <1>5 DEF Entries
<1> QED
  BY <1>4, <1>5

(* The conversation stays, or an entry of some turn is appended. *)
Continues == UNCHANGED messages \/ \E e \in Entry : messages' = Append(messages, e)

(* What a turn was told stays true when others go on. *)
LEMMA ToldStays ==
  ASSUME messages \in Seq(Entry), Continues, NEW u \in Turn, ToldOnce(u),
         turn'[u].prompt = turn[u].prompt,
         turn'[u].pc \notin {"idle", "never", "building"} => turn[u].pc \notin {"idle", "never", "building"}
  PROVE  ToldOnce(u)'
<1> SUFFICES ASSUME turn'[u].pc \notin {"idle", "never", "building"}
             PROVE  \E own \in Entries(u, "user")' :
                       turn'[u].prompt = {k \in 1..(own - 1) : own - k < HistoryLimit /\ messages'[k].role # "tool"}
  BY DEF ToldOnce
<1>1. PICK own \in Entries(u, "user") :
        turn[u].prompt = {k \in 1..(own - 1) : own - k < HistoryLimit /\ messages[k].role # "tool"}
  BY DEF ToldOnce
<1>2. CASE UNCHANGED messages
  BY <1>1, <1>2 DEF Entries
<1>3. ASSUME NEW e \in Entry, messages' = Append(messages, e)
      PROVE  \E own2 \in Entries(u, "user")' :
               turn'[u].prompt = {k \in 1..(own2 - 1) : own2 - k < HistoryLimit /\ messages'[k].role # "tool"}
  <2>1. /\ Len(messages) \in Nat /\ DOMAIN messages = 1..Len(messages) /\ DOMAIN messages' = 1..(Len(messages) + 1)
        /\ \A k \in 1..Len(messages) : messages'[k] = messages[k]
    BY <1>3, Appended
  <2>2. own \in 1..Len(messages) /\ own \in Entries(u, "user")'
    BY <2>1 DEF Entries
  <2>3. \A k \in 1..(own - 1) : messages'[k] = messages[k]
    BY <2>1, <2>2
  <2>4. turn'[u].prompt = {k \in 1..(own - 1) : own - k < HistoryLimit /\ messages'[k].role # "tool"}
    BY <1>1, <2>3
  <2> QED
    BY <2>2, <2>4
<1> QED
  BY <1>2, <1>3 DEF Continues

(* A turn that does not move keeps its trail, whatever the others append. *)
LEMMA TrailStays ==
  ASSUME messages \in Seq(Entry), NEW u \in Turn, Trail(u),
         (turn'[u].pass = 0) <=> (turn[u].pass = 0),
         Len(turn'[u].executions) = Len(turn[u].executions),
         turn'[u].pc \in {"extracting", "done"} <=> turn[u].pc \in {"extracting", "done"},
         UNCHANGED messages \/ \E e \in Entry : e.turn # u /\ messages' = Append(messages, e)
  PROVE  Trail(u)'
<1>1. CASE UNCHANGED messages
  <2>1. \A role : Entries(u, role)' = Entries(u, role)
    BY <1>1 DEF Entries
  <2> QED
    BY <1>1, <2>1 DEF Trail
<1>2. ASSUME NEW e \in Entry, e.turn # u, messages' = Append(messages, e) PROVE Trail(u)'
  <2>1. /\ Len(messages) \in Nat /\ DOMAIN messages = 1..Len(messages) /\ DOMAIN messages' = 1..(Len(messages) + 1)
        /\ \A k \in 1..Len(messages) : messages'[k] = messages[k]
        /\ messages'[Len(messages) + 1] = e
    BY <1>2, Appended
  <2>2. \A role : Entries(u, role)' = Entries(u, role)
    BY <1>2, EntriesGrow
  <2>3. ASSUME NEW j \in DOMAIN messages', NEW k \in DOMAIN messages',
               j < k, messages'[j].turn = u, messages'[k].turn = u
        PROVE  messages'[j].role # "assistant" /\ messages'[k].role # "user"
    <3>1. j # Len(messages) + 1 /\ k # Len(messages) + 1
      BY <1>2, <2>1, <2>3
    <3>2. j \in DOMAIN messages /\ k \in DOMAIN messages
      BY <2>1, <3>1
    <3> QED
      BY <2>1, <2>3, <3>2 DEF Trail
  <2> QED
    BY <2>2, <2>3 DEF Trail
<1> QED
  BY <1>1, <1>2

(* A turn appends an entry: it has one more of that role, and it comes last. *)
LEMMA TrailGrows ==
  ASSUME messages \in Seq(Entry), NEW t \in Turn, Trail(t),
         NEW role \in {"user", "tool", "assistant"}, messages' = Append(messages, [role |-> role, turn |-> t]),
         Entries(t, "assistant") = {}, role = "user" => \A k \in DOMAIN messages : messages[k].turn # t
  PROVE  /\ Cardinality(Entries(t, role)') = Cardinality(Entries(t, role)) + 1
         /\ \A other : other # role => Entries(t, other)' = Entries(t, other)
         /\ \A j, k \in DOMAIN messages' :
              j < k /\ messages'[j].turn = t /\ messages'[k].turn = t
                => messages'[j].role # "assistant" /\ messages'[k].role # "user"
<1> DEFINE e == [role |-> role, turn |-> t]
<1>0. e \in Entry /\ e.turn = t /\ e.role = role
  BY DEF Entry
<1>1. /\ Len(messages) \in Nat /\ DOMAIN messages = 1..Len(messages) /\ DOMAIN messages' = 1..(Len(messages) + 1)
      /\ \A k \in 1..Len(messages) : messages'[k] = messages[k]
      /\ messages'[Len(messages) + 1] = e
  BY <1>0, Appended
<1>2. /\ Cardinality(Entries(t, role)') = Cardinality(Entries(t, role)) + 1
      /\ \A other : other # role => Entries(t, other)' = Entries(t, other)
  <2> HIDE DEF e
  <2>1. messages' = Append(messages, e)
    BY DEF e
  <2> QED
    BY <1>0, <2>1, EntriesGrow
<1>3. ASSUME NEW j \in DOMAIN messages', NEW k \in DOMAIN messages',
             j < k, messages'[j].turn = t, messages'[k].turn = t
      PROVE  messages'[j].role # "assistant" /\ messages'[k].role # "user"
  <2>1. j \in DOMAIN messages /\ messages'[j] = messages[j]
    BY <1>1, <1>3
  <2>2. messages[j].role # "assistant" /\ role # "user"
    BY <1>3, <2>1 DEF Entries
  <2>3. CASE k = Len(messages) + 1
    BY <1>0, <1>1, <2>1, <2>2, <2>3
  <2>4. CASE k # Len(messages) + 1
    <3>1. k \in DOMAIN messages /\ messages'[k] = messages[k]
      BY <1>1, <2>4
    <3> QED
      BY <1>3, <2>1, <2>2, <3>1 DEF Trail
  <2> QED
    BY <2>3, <2>4
<1> QED
  BY <1>2, <1>3

LEMMA TrailInit == AssistantInit => TrailInv
<1> SUFFICES ASSUME AssistantInit PROVE TrailInv
  OBVIOUS
<1>1. messages = <<>> /\ count = 0 /\ messages \in Seq(Entry) /\ Len(messages) = 0 /\ DOMAIN messages = {}
  BY DEF AssistantInit
<1>2. ASSUME NEW t \in Turn
      PROVE  turn[t].pc \in {"idle", "never"} /\ turn[t].pass = 0 /\ turn[t].executions = <<>>
  BY DEF AssistantInit, Fresh
<1>3. \A t, role : Entries(t, role) = {}
  BY <1>1 DEF Entries
<1>4. ASSUME NEW t \in Turn PROVE Trail(t)
  <2>1. Cardinality({}) = 0 /\ Len(<<>>) = 0
    BY FS_EmptySet
  <2>2. turn[t].pc \notin {"extracting", "done"}
    BY <1>2
  <2> QED
    BY <1>1, <1>2, <1>3, <2>1, <2>2 DEF Trail
<1>5. Alone
  BY <1>2 DEF Alone, Running, ToldOnce
<1> QED
  BY <1>1, <1>4, <1>5 DEF TrailInv

(* A turn goes on, by itself or with an entry of its own. *)
LEMMA TrailGoesOn ==
  ASSUME ActInv, TrailInv, NEW t \in Turn, turn' = [turn EXCEPT ![t] = turn'[t]],
         Running(t), turn'[t].pc \notin {"idle", "never", "building"},
         UNCHANGED messages \/ \E e \in Entry : e.turn = t /\ messages' = Append(messages, e),
         count' = Len(messages'), Trail(t)', UNCHANGED apart, apart => ToldOnce(t)'
  PROVE  TrailInv'
<1>1. \A u \in Turn : u # t => turn'[u] = turn[u]
  BY DEF ActInv
<1>2. messages \in Seq(Entry) /\ Continues
  BY DEF TrailInv, Continues
<1>3. messages' \in Seq(Entry)
  BY <1>2, Appended DEF Continues
<1>4. ASSUME NEW u \in Turn, u # t PROVE Trail(u)'
  <2>1. Trail(u) /\ turn'[u] = turn[u]
    BY <1>1, <1>4 DEF TrailInv
  <2>2. UNCHANGED messages \/ \E e \in Entry : e.turn # u /\ messages' = Append(messages, e)
    BY <1>4
  <2> QED
    BY <1>2, <2>1, <2>2, TrailStays
<1>5. ASSUME apart' PROVE Alone'
  <2>1. apart /\ Alone
    BY <1>5 DEF TrailInv
  <2>2. \A u \in Turn : Running(u)' => Running(u)
    BY <1>1 DEF Running
  <2>3. \A u, v \in Turn : Running(u)' /\ Running(v)' => u = v
    BY <2>1, <2>2 DEF Alone
  <2>4. \A u \in Turn : turn'[u].pc # "building"
    <3> SUFFICES ASSUME NEW u \in Turn, turn'[u].pc = "building" PROVE FALSE
      OBVIOUS
    <3>1. u # t /\ turn[u].pc = "building"
      BY <1>1
    <3>2. Running(u)
      BY <3>1 DEF Running
    <3> QED
      BY <2>1, <3>1, <3>2 DEF Alone
  <2>5. ASSUME NEW u \in Turn PROVE ToldOnce(u)'
    <3>1. CASE u = t
      BY <2>1, <3>1
    <3>2. CASE u # t
      <4>1. ToldOnce(u) /\ turn'[u] = turn[u]
        BY <1>1, <2>1, <3>2 DEF Alone
      <4> QED
        BY <1>2, <4>1, ToldStays
    <3> QED
      BY <3>1, <3>2
  <2> QED
    BY <2>3, <2>4, <2>5 DEF Alone
<1> QED
  BY <1>3, <1>4, <1>5 DEF TrailInv

(* The steps that write no message. *)
Speechless(t) == Built(t) \/ generate(t) \/ Outage(t) \/ Aborted(t) \/ NextPass(t) \/ Extracted(t)

LEMMA QuietTurn ==
  ASSUME ActInv, NEW t \in Turn, Speechless(t)
  PROVE  /\ turn' = [turn EXCEPT ![t] = turn'[t]]
         /\ turn[t].pc \in {"building", "asking", "calling", "extracting"}
         /\ turn'[t].pc \in {"asking", "calling", "replying", "done", "failed"}
         /\ (turn'[t].pc = "done") <=> (turn[t].pc = "extracting")
         /\ turn'[t].pass = turn[t].pass \/ turn'[t].pass = turn[t].pass + 1
         /\ turn'[t].executions = turn[t].executions
         /\ turn'[t].prompt = (IF turn[t].pc = "building" THEN History ELSE turn[t].prompt)
         /\ UNCHANGED <<messages, count, apart>>
<1> USE Fields
<1>0. t \in DOMAIN turn
  BY DEF ActInv
<1>1. CASE Built(t)
  <2> DEFINE h == History
  <2> HIDE DEF h
  <2>1. turn' = [turn EXCEPT ![t] = [turn[t] EXCEPT !.pc = "asking", !.prompt = h]] /\ turn[t].pc = "building"
    BY <1>1, Zenon DEF Built, Only, h
  <2>2. turn'[t] = [turn[t] EXCEPT !.pc = "asking", !.prompt = h]
    BY <1>0, <2>1
  <2>3. UNCHANGED <<messages, count, apart>>
    BY <1>1 DEF Built, SameWorld
  <2>4. turn' = [turn EXCEPT ![t] = turn'[t]]
    BY <2>1, <2>2
  <2>5. /\ turn'[t].pc = "asking" /\ turn'[t].pass = turn[t].pass /\ turn'[t].executions = turn[t].executions
        /\ turn'[t].prompt = History
    BY <2>2 DEF h
  <2> QED
    BY <2>1, <2>3, <2>4, <2>5
<1>2. CASE generate(t)
  <2>1. PICK calls : turn' = [turn EXCEPT ![t] = [turn[t] EXCEPT !.batch = calls,
                                                     !.pc = IF calls = <<>> THEN "replying" ELSE "calling"]]
    BY <1>2 DEF generate
  <2>2. turn'[t] = [turn[t] EXCEPT !.batch = calls, !.pc = IF calls = <<>> THEN "replying" ELSE "calling"]
    BY <1>0, <2>1
  <2>3. UNCHANGED <<messages, count, apart>> /\ turn[t].pc = "asking"
    BY <1>2 DEF generate, SameWorld, Only
  <2>4. turn' = [turn EXCEPT ![t] = turn'[t]]
    BY <2>1, <2>2
  <2>5. /\ turn'[t].pc \in {"replying", "calling"} /\ turn'[t].pass = turn[t].pass
        /\ turn'[t].executions = turn[t].executions /\ turn'[t].prompt = turn[t].prompt
    BY <2>2
  <2> QED
    BY <2>3, <2>4, <2>5
<1>3. CASE Outage(t)
  <2>1. turn' = [turn EXCEPT ![t] = [turn[t] EXCEPT !.provider = "fallback"]] /\ turn[t].pc = "asking"
    BY <1>3 DEF Outage, Only
  <2>2. turn'[t] = [turn[t] EXCEPT !.provider = "fallback"]
    BY <1>0, <2>1
  <2>3. UNCHANGED <<messages, count, apart>>
    BY <1>3 DEF Outage, SameWorld
  <2>4. turn' = [turn EXCEPT ![t] = turn'[t]]
    BY <2>1, <2>2
  <2>5. /\ turn'[t].pc = turn[t].pc /\ turn'[t].pass = turn[t].pass
        /\ turn'[t].executions = turn[t].executions /\ turn'[t].prompt = turn[t].prompt
    BY <2>2
  <2> QED
    BY <2>1, <2>3, <2>4, <2>5
<1>4. CASE Aborted(t)
  <2>1. turn' = [turn EXCEPT ![t] = [turn[t] EXCEPT !.pc = "failed"]] /\ turn[t].pc = "asking"
    BY <1>4 DEF Aborted, Goes, Only
  <2>2. turn'[t] = [turn[t] EXCEPT !.pc = "failed"]
    BY <1>0, <2>1
  <2>3. UNCHANGED <<messages, count, apart>>
    BY <1>4 DEF Aborted, SameWorld
  <2>4. turn' = [turn EXCEPT ![t] = turn'[t]]
    BY <2>1, <2>2
  <2>5. /\ turn'[t].pc = "failed" /\ turn'[t].pass = turn[t].pass
        /\ turn'[t].executions = turn[t].executions /\ turn'[t].prompt = turn[t].prompt
    BY <2>2
  <2> QED
    BY <2>1, <2>3, <2>4, <2>5
<1>5. CASE NextPass(t)
  <2>1. UNCHANGED <<messages, count, apart>> /\ turn[t].pc = "calling"
    BY <1>5 DEF NextPass, SameWorld, Only
  <2>2. CASE turn' = [turn EXCEPT ![t] = [turn[t] EXCEPT !.pc = "replying"]]
    <3>1. turn'[t] = [turn[t] EXCEPT !.pc = "replying"]
      BY <1>0, <2>2
    <3>2. turn' = [turn EXCEPT ![t] = turn'[t]]
      BY <2>2, <3>1
    <3>3. /\ turn'[t].pc = "replying" /\ turn'[t].pass = turn[t].pass
          /\ turn'[t].executions = turn[t].executions /\ turn'[t].prompt = turn[t].prompt
      BY <3>1
    <3> QED
      BY <2>1, <3>2, <3>3
  <2>3. CASE turn' = [turn EXCEPT ![t] = [turn[t] EXCEPT !.pc = "asking", !.pass = turn[t].pass + 1]]
    <3>1. turn'[t] = [turn[t] EXCEPT !.pc = "asking", !.pass = turn[t].pass + 1]
      BY <1>0, <2>3
    <3>2. turn' = [turn EXCEPT ![t] = turn'[t]]
      BY <2>3, <3>1
    <3>3. /\ turn'[t].pc = "asking" /\ turn'[t].pass = turn[t].pass + 1
          /\ turn'[t].executions = turn[t].executions /\ turn'[t].prompt = turn[t].prompt
      BY <3>1
    <3> QED
      BY <2>1, <3>2, <3>3
  <2> QED
    BY <1>5, <2>2, <2>3 DEF NextPass, Goes
<1>6. CASE Extracted(t)
  <2>1. PICK saved : turn' = [turn EXCEPT ![t] = [turn[t] EXCEPT !.pc = "done", !.extracts = saved]]
    BY <1>6 DEF Extracted
  <2>2. turn'[t] = [turn[t] EXCEPT !.pc = "done", !.extracts = saved]
    BY <1>0, <2>1
  <2>3. UNCHANGED <<messages, count, apart>> /\ turn[t].pc = "extracting"
    BY <1>6 DEF Extracted, SameWorld, Only
  <2>4. turn' = [turn EXCEPT ![t] = turn'[t]]
    BY <2>1, <2>2
  <2>5. /\ turn'[t].pc = "done" /\ turn'[t].pass = turn[t].pass
        /\ turn'[t].executions = turn[t].executions /\ turn'[t].prompt = turn[t].prompt
    BY <2>2
  <2> QED
    BY <2>3, <2>4, <2>5
<1> QED
  BY <1>1, <1>2, <1>3, <1>4, <1>5, <1>6 DEF Speechless

LEMMA TrailQuiet == ASSUME ActInv, TrailInv, NEW t \in Turn, Speechless(t) PROVE TrailInv'
<1>1. /\ turn' = [turn EXCEPT ![t] = turn'[t]]
      /\ turn[t].pc \in {"building", "asking", "calling", "extracting"}
      /\ turn'[t].pc \in {"asking", "calling", "replying", "done", "failed"}
      /\ (turn'[t].pc = "done") <=> (turn[t].pc = "extracting")
      /\ turn'[t].executions = turn[t].executions
      /\ turn'[t].prompt = (IF turn[t].pc = "building" THEN History ELSE turn[t].prompt)
      /\ UNCHANGED <<messages, count, apart>>
  BY QuietTurn
<1>2. turn[t].pass # 0 /\ turn'[t].pass # 0
  <2>1. turn[t].pass \in 0..MaxIterations /\ turn[t].pass # 0
    BY <1>1 DEF ActInv, TurnInv, TurnTyped, Placed, NotYet
  <2>2. turn'[t].pass = turn[t].pass \/ turn'[t].pass = turn[t].pass + 1
    BY QuietTurn
  <2> QED
    BY <2>1, <2>2, AssistantAssumption DEF AssistantAssumption
<1>3. messages \in Seq(Entry) /\ Trail(t)
  BY DEF TrailInv
<1>4. Trail(t)'
  <2>1. Len(turn'[t].executions) = Len(turn[t].executions)
    BY <1>1
  <2>2. turn'[t].pc \in {"extracting", "done"} <=> turn[t].pc \in {"extracting", "done"}
    BY <1>1
  <2> QED
    BY <1>1, <1>2, <1>3, <2>1, <2>2, TrailStays
<1>5. ASSUME apart PROVE ToldOnce(t)'
  <2>1. Alone
    BY <1>5 DEF TrailInv
  <2>2. CASE turn[t].pc # "building"
    <3>1. turn'[t].prompt = turn[t].prompt /\ turn[t].pc \notin {"idle", "never", "building"} /\ Continues
      BY <1>1, <2>2 DEF Continues
    <3>2. ToldOnce(t)
      BY <2>1 DEF Alone
    <3> QED
      BY <1>3, <3>1, <3>2, ToldStays
  <2>3. CASE turn[t].pc = "building"
    <3> DEFINE own == Len(messages)
    <3>1. own \in Nat /\ DOMAIN messages = 1..own
      BY <1>3
    <3>2. own \in DOMAIN messages /\ messages[own] = [role |-> "user", turn |-> t]
      BY <2>1, <2>3 DEF Alone
    <3>3. messages[own].role = "user" /\ messages[own].turn = t
      BY <3>2
    <3> HIDE DEF own
    <3>4. HistoryLimit \in Nat \ {0}
      BY AssistantAssumption DEF AssistantAssumption
    <3>5. own \in Spoken /\ Spoken = {k \in 1..own : own - k < HistoryLimit /\ messages[k].role # "tool"}
      BY <3>1, <3>2, <3>3, <3>4 DEF Spoken, own
    <3>6. History = {k \in 1..(own - 1) : own - k < HistoryLimit /\ messages[k].role # "tool"}
      BY <3>1, <3>5 DEF History
    <3>7. own \in Entries(t, "user")'
      BY <1>1, <3>2, <3>3 DEF Entries
    <3>8. turn'[t].prompt = {k \in 1..(own - 1) : own - k < HistoryLimit /\ messages'[k].role # "tool"}
      BY <1>1, <2>3, <3>6
    <3> QED
      BY <3>7, <3>8 DEF ToldOnce
  <2> QED
    BY <2>2, <2>3
<1>6. Running(t) /\ turn'[t].pc \notin {"idle", "never", "building"}
  BY <1>1 DEF Running
<1>7. count' = Len(messages')
  BY <1>1 DEF TrailInv
<1> QED
  BY <1>1, <1>4, <1>5, <1>6, <1>7, TrailGoesOn

LEMMA NoneOfRole ==
  ASSUME TrailInv, NEW t \in Turn, NEW role, Cardinality(Entries(t, role)) = 0
  PROVE  Entries(t, role) = {}
  BY EntriesFinite, FS_EmptySet DEF TrailInv

LEMMA TrailChat == ASSUME ActInv, TrailInv, NEW t \in Turn, chat(t) PROVE TrailInv'
<1> DEFINE e == [role |-> "user", turn |-> t]
<1>1. PICK approved, un :
        turn' = [turn EXCEPT ![t] = [turn[t] EXCEPT !.pc = "building", !.unattended = un,
                                                    !.approved = approved, !.pass = 1]]
  BY DEF chat
<1>2. t \in DOMAIN turn /\ \A u \in Turn : u # t => turn'[u] = turn[u]
  BY <1>1 DEF ActInv
<1>3. turn'[t] = [turn[t] EXCEPT !.pc = "building", !.unattended = un, !.approved = approved, !.pass = 1]
  BY <1>1, <1>2
<1>4. turn'[t].pc = "building" /\ turn'[t].pass = 1 /\ turn'[t].executions = turn[t].executions
  BY <1>3, Fields
<1>5. turn[t].pass = 0 /\ turn[t].executions = <<>> /\ turn[t].pc = "idle"
  BY DEF chat, Only, ActInv, TurnInv, Placed, NotYet
<1>6. messages' = Append(messages, e) /\ count' = count + 1 /\ messages \in Seq(Entry) /\ e \in Entry
  BY DEF chat, Append1, TrailInv, Entry
<1>7. /\ Len(messages) \in Nat /\ DOMAIN messages = 1..Len(messages) /\ DOMAIN messages' = 1..(Len(messages) + 1)
      /\ Len(messages') = Len(messages) + 1 /\ messages'[Len(messages) + 1] = e /\ messages' \in Seq(Entry)
  <2> HIDE DEF e
  <2> QED BY <1>6, Appended
<1>8. apart' => apart /\ \A u \in Turn : ~Running(u)
  BY DEF chat
<1>9. /\ Entries(t, "user") = {} /\ Entries(t, "tool") = {} /\ Entries(t, "assistant") = {}
  <2>1. Trail(t)
    BY DEF TrailInv
  <2>2. Len(<<>>) = 0
    OBVIOUS
  <2>3. Cardinality(Entries(t, "user")) = 0 /\ Cardinality(Entries(t, "tool")) = 0
    BY <1>5, <2>1, <2>2 DEF Trail
  <2>4. Cardinality(Entries(t, "assistant")) = 0
    BY <1>5, <2>1 DEF Trail
  <2> QED
    BY <2>3, <2>4, NoneOfRole
<1>10. \A k \in DOMAIN messages : messages[k].turn # t
  <2> SUFFICES ASSUME NEW k \in DOMAIN messages, messages[k].turn = t PROVE FALSE
    OBVIOUS
  <2>1. messages[k] \in Entry
    BY <1>6, <1>7, ElementOfSeq
  <2>2. messages[k].role \in {"user", "tool", "assistant"}
    BY <2>1 DEF Entry
  <2> QED
    BY <1>9, <2>2 DEF Entries
<1>11. Trail(t)'
  <2>1. Trail(t)
    BY DEF TrailInv
  <2>2. /\ Cardinality(Entries(t, "user")') = Cardinality(Entries(t, "user")) + 1
        /\ Entries(t, "tool")' = Entries(t, "tool") /\ Entries(t, "assistant")' = Entries(t, "assistant")
        /\ \A j, k \in DOMAIN messages' :
             j < k /\ messages'[j].turn = t /\ messages'[k].turn = t
               => messages'[j].role # "assistant" /\ messages'[k].role # "user"
    BY <1>6, <1>9, <1>10, <2>1, TrailGrows
  <2>3. Cardinality({}) = 0 /\ Len(<<>>) = 0
    BY FS_EmptySet
  <2>4. Cardinality(Entries(t, "user")') = 1
    BY <1>9, <2>2, <2>3
  <2>5. Cardinality(Entries(t, "tool")') = Len(turn'[t].executions)
    BY <1>4, <1>5, <1>9, <2>2, <2>3
  <2>6. Cardinality(Entries(t, "assistant")') = 0
    BY <1>9, <2>2, <2>3
  <2> QED
    BY <1>4, <2>2, <2>4, <2>5, <2>6 DEF Trail
<1>12. ASSUME NEW u \in Turn, u # t PROVE Trail(u)'
  <2>1. Trail(u) /\ turn'[u] = turn[u]
    BY <1>2, <1>12 DEF TrailInv
  <2>2. e.turn # u
    BY <1>12
  <2> HIDE DEF e
  <2>3. UNCHANGED messages \/ \E m \in Entry : m.turn # u /\ messages' = Append(messages, m)
    BY <1>6, <2>2
  <2> QED
    BY <1>6, <2>1, <2>3, TrailStays
<1>13. ASSUME apart' PROVE Alone'
  <2>1. Alone /\ \A u \in Turn : ~Running(u)
    BY <1>8, <1>13 DEF TrailInv
  <2>2. \A u \in Turn : Running(u)' => u = t
    BY <1>2, <2>1 DEF Running
  <2>3. \A u \in Turn : turn'[u].pc = "building" => u = t
    BY <2>2 DEF Running
  <2>4. Len(messages') \in DOMAIN messages' /\ messages'[Len(messages')] = e
    BY <1>7
  <2>5. ASSUME NEW u \in Turn PROVE ToldOnce(u)'
    <3>1. CASE u = t
      BY <1>4, <3>1 DEF ToldOnce
    <3>2. CASE u # t
      <4>1. ToldOnce(u) /\ turn'[u] = turn[u]
        BY <1>2, <2>1, <3>2 DEF Alone
      <4>2. Continues
        BY <1>6 DEF Continues
      <4> QED
        BY <1>6, <4>1, <4>2, ToldStays
    <3> QED
      BY <3>1, <3>2
  <2> QED
    BY <2>2, <2>3, <2>4, <2>5 DEF Alone
<1>14. count' = Len(messages')
  BY <1>6, <1>7 DEF TrailInv
<1> QED
  BY <1>7, <1>11, <1>12, <1>13, <1>14 DEF TrailInv

(* A running turn writes an entry: that of a tool, or the answer. *)
LEMMA TrailWrites ==
  ASSUME ActInv, TrailInv, NEW t \in Turn, NEW role \in {"tool", "assistant"},
         turn' = [turn EXCEPT ![t] = turn'[t]], turn[t].pc \in {"calling", "replying"},
         turn'[t].pc = (IF role = "tool" THEN turn[t].pc ELSE "extracting"),
         turn'[t].pass = turn[t].pass, turn'[t].prompt = turn[t].prompt,
         Len(turn'[t].executions) = (IF role = "tool" THEN Len(turn[t].executions) + 1 ELSE Len(turn[t].executions)),
         Append1(t, role), UNCHANGED apart
  PROVE  TrailInv'
<1> DEFINE e == [role |-> role, turn |-> t]
<1>1. messages' = Append(messages, e) /\ count' = count + 1 /\ messages \in Seq(Entry) /\ e \in Entry /\ e.turn = t
  BY DEF Append1, TrailInv, Entry
<1>2. Len(messages') = Len(messages) + 1 /\ count' = Len(messages')
  <2>1. Len(messages') = Len(messages) + 1
    <3> HIDE DEF e
    <3> QED BY <1>1, Appended
  <2> QED
    BY <1>1, <2>1 DEF TrailInv
<1>3. turn[t].pass # 0 /\ Trail(t)
  BY DEF ActInv, TurnInv, Placed, NotYet, TrailInv
<1>4. Cardinality(Entries(t, "assistant")) = 0
  BY <1>3 DEF Trail
<1>5. Entries(t, "assistant") = {}
  BY <1>4, NoneOfRole
<1>6. /\ Cardinality(Entries(t, role)') = Cardinality(Entries(t, role)) + 1
      /\ \A other : other # role => Entries(t, other)' = Entries(t, other)
      /\ \A j, k \in DOMAIN messages' :
           j < k /\ messages'[j].turn = t /\ messages'[k].turn = t
             => messages'[j].role # "assistant" /\ messages'[k].role # "user"
  BY <1>1, <1>3, <1>5, TrailGrows
<1>7. Trail(t)'
  <2>1. Cardinality(Entries(t, "user")') = 1
    BY <1>3, <1>6 DEF Trail
  <2>2. Cardinality(Entries(t, "tool")') = Len(turn'[t].executions)
    BY <1>3, <1>6 DEF Trail
  <2>3. Cardinality(Entries(t, "assistant")') = (IF turn'[t].pc \in {"extracting", "done"} THEN 1 ELSE 0)
    <3>1. CASE role = "tool"
      <4>1. turn'[t].pc \notin {"extracting", "done"}
        BY <3>1
      <4> QED
        BY <1>4, <1>6, <3>1, <4>1
    <3>2. CASE role = "assistant"
      <4>1. turn'[t].pc = "extracting" /\ Cardinality(Entries(t, "assistant")') = 1
        BY <1>4, <1>6, <3>2
      <4> QED
        BY <4>1
    <3> QED
      BY <3>1, <3>2
  <2> QED
    BY <1>3, <1>6, <2>1, <2>2, <2>3 DEF Trail
<1>8. ASSUME apart PROVE ToldOnce(t)'
  <2>1. ToldOnce(t) /\ Continues
    BY <1>1, <1>8 DEF TrailInv, Alone, Continues
  <2> QED
    BY <1>1, <2>1, ToldStays
<1>9. Running(t) /\ turn'[t].pc \notin {"idle", "never", "building"}
  BY DEF Running
<1> HIDE DEF e
<1>10. UNCHANGED messages \/ \E m \in Entry : m.turn = t /\ messages' = Append(messages, m)
  BY <1>1
<1> QED
  BY <1>2, <1>7, <1>8, <1>9, <1>10, TrailGoesOn

LEMMA TrailReply == ASSUME ActInv, TrailInv, NEW t \in Turn, Reply(t) PROVE TrailInv'
<1>1. turn' = [turn EXCEPT ![t] = [turn[t] EXCEPT !.pc = "extracting"]] /\ turn[t].pc = "replying"
  BY DEF Reply, Goes, Only
<1>2. turn'[t] = [turn[t] EXCEPT !.pc = "extracting"]
  BY <1>1 DEF ActInv
<1>3. turn' = [turn EXCEPT ![t] = turn'[t]]
  BY <1>1, <1>2
<1>4. /\ turn'[t].pc = "extracting" /\ turn'[t].pass = turn[t].pass
      /\ turn'[t].prompt = turn[t].prompt /\ turn'[t].executions = turn[t].executions
  BY <1>2, Fields
<1>5. Append1(t, "assistant") /\ UNCHANGED apart
  BY DEF Reply, SameWorld
<1>6. Len(turn'[t].executions) = Len(turn[t].executions)
  BY <1>4
<1> QED
  BY <1>1, <1>3, <1>4, <1>5, <1>6, TrailWrites

LEMMA TrailInvoke == ASSUME ActInv, TrailInv, NEW t \in Turn, invoke(t) PROVE TrailInv'
<1>1. PICK outcome \in Outcomes(t, Head(turn[t].batch)) :
        /\ turn' = [turn EXCEPT ![t] = turn'[t]]
        /\ turn'[t].executions = Append(turn[t].executions,
                                        [call |-> Head(turn[t].batch), outcome |-> outcome, pass |-> turn[t].pass])
        /\ turn'[t].pc = turn[t].pc /\ turn'[t].pass = turn[t].pass
        /\ turn'[t].prompt = turn[t].prompt
  BY InvokedTurn
<1>2. turn[t].executions \in Seq(Execution)
  BY DEF ActInv, TurnInv, TurnTyped
<1>3. Len(turn'[t].executions) = Len(turn[t].executions) + 1
  <2> DEFINE x == [call |-> Head(turn[t].batch), outcome |-> outcome, pass |-> turn[t].pass]
  <2>1. turn'[t].executions = Append(turn[t].executions, x)
    BY <1>1
  <2> HIDE DEF x
  <2> QED
    BY <1>2, <2>1
<1>4. turn[t].pc = "calling" /\ Append1(t, "tool") /\ UNCHANGED apart
  BY DEF invoke, Only
<1> QED
  BY <1>1, <1>3, <1>4, TrailWrites

LEMMA TrailStep == ActInv /\ TrailInv /\ [AssistantNext]_assistantVars => TrailInv'
<1> SUFFICES ASSUME ActInv, TrailInv, [AssistantNext]_assistantVars PROVE TrailInv'
  OBVIOUS
<1>1. ASSUME UNCHANGED <<turn, messages, count, apart>> PROVE TrailInv'
  <2>1. \A t, role : Entries(t, role)' = Entries(t, role)
    BY <1>1 DEF Entries
  <2>2. \A t \in Turn : Trail(t)'
    BY <1>1, <2>1 DEF TrailInv, Trail
  <2>3. \A t \in Turn : (ToldOnce(t) => ToldOnce(t)') /\ (Running(t)' => Running(t))
    BY <1>1, <2>1 DEF ToldOnce, Running
  <2>4. apart' => Alone'
    BY <1>1, <2>3 DEF TrailInv, Alone
  <2> QED
    BY <1>1, <2>2, <2>4 DEF TrailInv
<1>2. CASE Edited \/ UNCHANGED assistantVars
  BY <1>1, <1>2 DEF Edited, assistantVars
<1>3. ASSUME NEW t \in Turn, chat(t) \/ Aborted(t) \/ Proceeds(t) PROVE TrailInv'
  BY <1>3, TrailChat, TrailInvoke, TrailReply, TrailQuiet DEF Proceeds, Speechless
<1> QED
  BY <1>2, <1>3 DEF AssistantNext

LEMMA TrailsRight == TrailInv => TrailIsTrue
<1> SUFFICES ASSUME TrailInv PROVE TrailIsTrue
  OBVIOUS
<1>1. ASSUME NEW k \in DOMAIN messages PROVE messages[k].role \in {"user", "tool", "assistant"}
  <2>1. messages[k] \in Entry
    BY ElementOfSeq DEF TrailInv
  <2> QED
    BY <2>1 DEF Entry
<1>2. TrailIsWhole
  BY <1>1 DEF TrailInv, Trail, TrailIsWhole
<1>3. PromptIsTrue
  BY DEF TrailInv, Alone, PromptIsTrue
<1> QED
  BY <1>2, <1>3 DEF TrailIsTrue

(* In whatever order turns, tools, answers and outages come, also when turns      *)
(* overlap: the conversation holds of each turn its message first, an entry for   *)
(* each tool executed and its answer last, and is counted right; and the prompt   *)
(* of a turn is what was said before it in the rows that are read, its own        *)
(* message not among them, unless turns overlapped (orchestrator.ts 133-231,      *)
(* conversation.ts 83-115).                                                       *)
THEOREM TrailSafety == AssistantInit /\ [][AssistantNext]_assistantVars => []TrailIsTrue
<1>1. AssistantInit /\ [][AssistantNext]_assistantVars => [](ActInv /\ TrailInv)
  BY ActInit, TrailInit, ActStep, TrailStep, PTL
<1> QED
  BY <1>1, TrailsRight, PTL

-----------------------------------------------------------------------------
(* Memories. *)

MemoryRow ==
    [content : Content, sure : {"confirmed", "inferred", "uncertain"}, source : {"user", "ai"}, flagged : BOOLEAN,
     old : BOOLEAN, next : Nat, deleted : BOOLEAN, said : BOOLEAN]

Wish ==
    [sure : {"confirmed", "inferred"}, source : {"user", "ai"}, asks : BOOLEAN, said : BOOLEAN,
     content : Content, replaces : Nat]

Saving == {NoSave, [NoSave EXCEPT !.pc = "off"]} \cup [pc : {"embedding"}, in : Wish]

(* A row counts as a memory unless it was deleted or superseded.           *)
Counts(r) == ~r.deleted /\ r.next = 0

OneOfEach(list) ==
    \A i, j \in DOMAIN list :
       Counts(list[i]) /\ Counts(list[j]) /\ list[i].content = list[j].content => i = j

(* While saves have been one after the other, the text that waits for its  *)
(* embedding is still one that no memory has.                              *)
OneAtATime(list, running) ==
    /\ \A s, o \in Saver : running[s].pc = "embedding" /\ running[o].pc = "embedding" => s = o
    /\ \A s \in Saver : running[s].pc = "embedding" =>
          \A i \in DOMAIN list : Counts(list[i]) => list[i].content # running[s].in.content

(* What the retention policy read is still what the row is about.          *)
ReadRight(list, read) ==
    \A p \in read \ Off : p[1] \in DOMAIN list /\ p[2].content = list[p[1]].content

MemoryInv ==
    /\ memories \in Seq(MemoryRow)
    /\ saving \in [Saver -> Saving]
    /\ decisions \in Int
    /\ separate \in BOOLEAN
    /\ \A i \in DOMAIN memories : memories[i].source = "ai" => memories[i].flagged
    /\ separate => OneOfEach(memories) /\ OneAtATime(memories, saving)
    /\ ReadRight(memories, pruning)

(* A row keeps its text, and one that does not count any more never will.  *)
SameMemory(r, r2) ==
    /\ r2 \in MemoryRow /\ r2.content = r.content
    /\ Counts(r2) => Counts(r)
    /\ r2.source = "ai" => r2.flagged

(* Steps that insert nothing.                                              *)
LEMMA RowsChange ==
  ASSUME MemoryInv, memories' \in Seq(MemoryRow), DOMAIN memories' = DOMAIN memories,
         \A i \in DOMAIN memories : SameMemory(memories[i], memories'[i]),
         ReadRight(memories, pruning'), UNCHANGED <<saving, separate>>, decisions' \in Int
  PROVE  MemoryInv'
<1>1. \A i \in DOMAIN memories' : memories'[i].source = "ai" => memories'[i].flagged
  BY DEF SameMemory
<1>2. separate' => OneOfEach(memories') /\ OneAtATime(memories', saving')
  BY DEF MemoryInv, OneOfEach, OneAtATime, SameMemory
<1>3. ReadRight(memories', pruning')
  BY DEF ReadRight, SameMemory
<1> QED
  BY <1>1, <1>2, <1>3 DEF MemoryInv

(* One row changes.                                                        *)
LEMMA RowChanges ==
  ASSUME MemoryInv, NEW i \in DOMAIN memories, NEW r, SameMemory(memories[i], r), Becomes(i, r),
         ReadRight(memories, pruning'), UNCHANGED <<saving, separate>>, decisions' \in Int
  PROVE  MemoryInv'
<1>1. memories \in Seq(MemoryRow) /\ r \in MemoryRow
  BY DEF MemoryInv, SameMemory
<1>2. memories' \in Seq(MemoryRow) /\ DOMAIN memories' = DOMAIN memories
  BY <1>1 DEF Becomes
<1>3. \A j \in DOMAIN memories : memories'[j] = IF j = i THEN r ELSE memories[j]
  BY <1>1 DEF Becomes
<1>4. \A j \in DOMAIN memories : memories[j] \in MemoryRow /\ SameMemory(memories[j], memories[j])
  BY <1>1 DEF MemoryInv, SameMemory
<1>5. \A j \in DOMAIN memories : SameMemory(memories[j], memories'[j])
  BY <1>3, <1>4
<1> QED
  BY <1>2, <1>5, RowsChange

LEMMA MemoryStarts == MemoryInit => MemoryInv
<1> SUFFICES ASSUME MemoryInit PROVE MemoryInv
  OBVIOUS
<1>1. [NoSave EXCEPT !.pc = "off"].pc = "off" /\ NoSave.pc = "none"
  BY DEF NoSave
<1>2. saving \in [Saver -> Saving] /\ \A s \in Saver : saving[s].pc # "embedding"
  BY <1>1 DEF MemoryInit, Saving
<1>3. memories = <<>> /\ memories \in Seq(MemoryRow) /\ DOMAIN memories = {}
  BY DEF MemoryInit
<1>4. decisions \in Int /\ separate \in BOOLEAN /\ pruning \ Off = {}
  BY DEF MemoryInit
<1> QED
  BY <1>2, <1>3, <1>4 DEF MemoryInv, OneOfEach, OneAtATime, ReadRight

LEMMA WhoAsks ==
  ASSUME NEW in \in Extraction \cup SaveTool
  PROVE  /\ in.sure \in {"confirmed", "inferred"} /\ in.source \in {"user", "ai"}
         /\ in.asks \in BOOLEAN /\ in.said \in BOOLEAN
<1>1. CASE in = Told
  BY <1>1 DEF Told
<1>2. CASE in = Guess(TRUE)
  BY <1>2 DEF Guess
<1>4. CASE in = Guess(FALSE)
  BY <1>4 DEF Guess
<1>3. CASE in = [sure |-> "inferred", source |-> "user", asks |-> FALSE, said |-> FALSE]
  BY <1>3
<1> QED
  BY <1>1, <1>2, <1>3, <1>4 DEF Extraction, SaveTool

(* What is sure of a row, how old it is and who said it may change.        *)
LEMMA StillTheSame ==
  ASSUME NEW r \in MemoryRow, r.source = "ai" => r.flagged, NEW r2 \in MemoryRow,
         r2.content = r.content, r2.next = r.next, r.deleted => r2.deleted,
         r2.source \in {r.source, "user"}, r2.source = "ai" => r2.flagged
  PROVE  SameMemory(r, r2)
  BY DEF SameMemory, Counts, MemoryRow

LEMMA SaveStep ==
  ASSUME MemoryInv, NEW s \in Saver, save(s)
  PROVE  MemoryInv'
<1>1. PICK in \in Extraction \cup SaveTool, text \in Content,
           old \in {0} \cup {i \in DOMAIN memories : ~memories[i].deleted} :
         IF Existing(text) # {}
         THEN /\ \E i \in Existing(text) :
                   memories' = [memories EXCEPT ![i].sure = IF in.source = "user" THEN "confirmed" ELSE @,
                                                ![i].old = FALSE, ![i].said = @ \/ in.said]
              /\ UNCHANGED <<saving, separate>>
         ELSE /\ saving' = [saving EXCEPT ![s] =
                     [pc |-> "embedding", in |-> [sure |-> in.sure, source |-> in.source, asks |-> in.asks,
                                                   said |-> in.said, content |-> text, replaces |-> old]]]
              /\ separate' = (separate /\ \A o \in Saver : saving[o].pc # "embedding")
              /\ UNCHANGED memories
  BY DEF save
<1>2. UNCHANGED <<pruning, decisions>> /\ decisions' \in Int /\ ReadRight(memories, pruning')
  BY DEF save, MemoryInv
<1>3. memories \in Seq(MemoryRow)
  BY DEF MemoryInv
<1>4. CASE Existing(text) # {}
  <2>1. PICK i \in Existing(text) :
            memories' = [memories EXCEPT ![i].sure = IF in.source = "user" THEN "confirmed" ELSE @,
                                         ![i].old = FALSE, ![i].said = @ \/ in.said]
    BY <1>1, <1>4
  <2>2. i \in DOMAIN memories /\ memories[i] \in MemoryRow
    BY <2>1, <1>3 DEF Existing
  <2> DEFINE r == [memories[i] EXCEPT !.sure = IF in.source = "user" THEN "confirmed" ELSE @,
                                      !.old = FALSE, !.said = @ \/ in.said]
  <2>3. Becomes(i, r)
    BY <2>1, <2>2, <1>3 DEF Becomes
  <2>4. /\ r \in MemoryRow /\ r.content = memories[i].content /\ r.next = memories[i].next
        /\ r.deleted = memories[i].deleted /\ r.source = memories[i].source /\ r.flagged = memories[i].flagged
    BY <2>2, WhoAsks DEF MemoryRow
  <2>5. memories[i].source = "ai" => memories[i].flagged
    BY <2>2 DEF MemoryInv
  <2> HIDE DEF r
  <2>6. SameMemory(memories[i], r)
    BY <2>2, <2>4, <2>5, StillTheSame
  <2> QED
    BY <1>1, <1>2, <1>4, <2>2, <2>3, <2>6, RowChanges
<1>5. CASE Existing(text) = {}
  <2> DEFINE wish == [sure |-> in.sure, source |-> in.source, asks |-> in.asks,
                      said |-> in.said, content |-> text, replaces |-> old]
             new == [pc |-> "embedding", in |-> wish]
  <2>1. old \in Nat
    BY <1>3
  <2>2. wish \in Wish /\ wish.content = text
    BY <2>1, WhoAsks DEF Wish
  <2>3. saving' = [saving EXCEPT ![s] = new] /\ UNCHANGED memories
        /\ separate' = (separate /\ \A o \in Saver : saving[o].pc # "embedding")
    BY <1>1, <1>5
  <2> HIDE DEF wish
  <2>4. new \in Saving /\ new.pc = "embedding" /\ new.in = wish
    BY <2>2 DEF Saving
  <2> HIDE DEF new
  <2>5. saving \in [Saver -> Saving] /\ saving' \in [Saver -> Saving]
    BY <2>3, <2>4 DEF MemoryInv
  <2>6. saving'[s] = new /\ \A o \in Saver : o # s => saving'[o] = saving[o]
    BY <2>3, <2>5
  <2>7. \A i \in DOMAIN memories : Counts(memories[i]) => memories[i].content # text
    BY <1>5 DEF Existing, Active, Counts
  <2>8. separate' => OneOfEach(memories') /\ OneAtATime(memories', saving')
    BY <2>2, <2>3, <2>4, <2>6, <2>7 DEF MemoryInv, OneAtATime
  <2> QED
    BY <1>2, <2>3, <2>5, <2>8 DEF MemoryInv
<1> QED
  BY <1>4, <1>5

LEMMA InsertedStep ==
  ASSUME MemoryInv, NEW s \in Saver, Inserted(s)
  PROVE  MemoryInv' /\ \A i \in DOMAIN memories : memories'[i].deleted = memories[i].deleted
<1> DEFINE in == saving[s].in
           row == [content |-> in.content, sure |-> in.sure, source |-> in.source, flagged |-> Flag(in),
                   old |-> FALSE, next |-> 0, deleted |-> FALSE, said |-> in.said]
           n == Len(memories) + 1
           were == [i \in DOMAIN memories |->
                      IF i = in.replaces THEN [memories[i] EXCEPT !.next = n, !.old = FALSE] ELSE memories[i]]
<1>1. /\ saving[s].pc = "embedding" /\ memories' = Append(were, row)
      /\ saving' = [saving EXCEPT ![s] = NoSave] /\ UNCHANGED <<pruning, separate, decisions>>
  BY DEF Inserted
<1>2. memories \in Seq(MemoryRow) /\ saving \in [Saver -> Saving] /\ NoSave \in Saving /\ NoSave.pc = "none"
  BY DEF MemoryInv, Saving, NoSave
<1>3. [NoSave EXCEPT !.pc = "off"].pc = "off"
  BY DEF NoSave
<1>4. in \in Wish
  BY <1>1, <1>2, <1>3 DEF Saving
<1>5. row \in MemoryRow /\ (row.source = "ai" => row.flagged) /\ row.content = in.content
  BY <1>4 DEF Wish, MemoryRow, Flag
<1>6. n \in Nat /\ n # 0 /\ DOMAIN memories = 1..Len(memories)
  BY <1>2
<1>7. \A i \in DOMAIN memories :
         /\ were[i] \in MemoryRow /\ were[i].content = memories[i].content /\ were[i].deleted = memories[i].deleted
         /\ were[i].source = memories[i].source /\ were[i].flagged = memories[i].flagged
         /\ (Counts(were[i]) => Counts(memories[i]))
  <2> TAKE i \in DOMAIN memories
  <2>1. memories[i] \in MemoryRow
    BY <1>2
  <2>2. CASE i = in.replaces
    <3>1. were[i] = [memories[i] EXCEPT !.next = n, !.old = FALSE]
      BY <2>2
    <3> HIDE DEF were
    <3> QED
      BY <2>1, <3>1, <1>6 DEF MemoryRow, Counts
  <2>3. CASE i # in.replaces
    BY <2>1, <2>3
  <2> QED
    BY <2>2, <2>3
<1>8. were \in Seq(MemoryRow) /\ Len(were) = Len(memories) /\ DOMAIN were = DOMAIN memories
  <2>1. DOMAIN were = DOMAIN memories /\ were = [i \in DOMAIN memories |-> were[i]]
    OBVIOUS
  <2> HIDE DEF were
  <2>2. were \in [1..Len(memories) -> MemoryRow] /\ Len(memories) \in Nat
    BY <2>1, <1>2, <1>6, <1>7
  <2>3. were \in Seq(MemoryRow)
    BY <2>2, SeqDef
  <2> QED
    BY <2>1, <2>2, <2>3, <1>2
<1> HIDE DEF row, were
<1>9. /\ memories' \in Seq(MemoryRow) /\ DOMAIN memories' = DOMAIN memories \cup {n}
      /\ memories'[n] = row /\ \A i \in DOMAIN memories : memories'[i] = were[i]
  BY <1>1, <1>5, <1>6, <1>8
<1>10. saving' \in [Saver -> Saving] /\ saving'[s] = NoSave /\ \A o \in Saver : o # s => saving'[o] = saving[o]
  BY <1>1, <1>2
<1>11. \A i \in DOMAIN memories' : memories'[i].source = "ai" => memories'[i].flagged
  BY <1>5, <1>7, <1>9 DEF MemoryInv
<1>12. separate' => OneOfEach(memories')
  <2> SUFFICES ASSUME separate PROVE OneOfEach(memories')
    BY <1>1
  <2>1. \A i \in DOMAIN memories : Counts(were[i]) => were[i].content # row.content
    BY <1>1, <1>5, <1>7 DEF MemoryInv, OneAtATime
  <2>2. \A i, j \in DOMAIN memories : Counts(were[i]) /\ Counts(were[j]) /\ were[i].content = were[j].content => i = j
    BY <1>7 DEF MemoryInv, OneOfEach
  <2> QED
    BY <1>9, <2>1, <2>2 DEF OneOfEach
<1>13. separate' => OneAtATime(memories', saving')
  BY <1>1, <1>2, <1>10 DEF MemoryInv, OneAtATime
<1>14. ReadRight(memories', pruning')
  BY <1>1, <1>7, <1>9 DEF MemoryInv, ReadRight
<1> QED
  BY <1>1, <1>7, <1>9, <1>10, <1>11, <1>12, <1>13, <1>14 DEF MemoryInv

(* The user decides, or time passes: one row changes.                      *)
LEMMA DecisionOnRow ==
  ASSUME MemoryInv, NEW i \in 1..MaxMemories, confirm(i) \/ markUncertain(i) \/ remove(i) \/ Ages(i)
  PROVE  MemoryInv' /\ (decisions' = decisions => \A j \in DOMAIN memories : memories'[j].deleted = memories[j].deleted)
<1>1. i \in DOMAIN memories /\ memories \in Seq(MemoryRow) /\ decisions \in Int
  BY DEF confirm, markUncertain, remove, Ages, Decides, MemoryInv
<1>2. memories[i] \in MemoryRow /\ (memories[i].source = "ai" => memories[i].flagged)
  BY <1>1 DEF MemoryInv
<1>3. UNCHANGED <<saving, pruning, separate>> /\ decisions' \in Int /\ ReadRight(memories, pruning')
  BY <1>1 DEF confirm, markUncertain, remove, Ages, Decides, MemoryInv
<1>4. \E r : /\ Becomes(i, r) /\ SameMemory(memories[i], r)
             /\ decisions' = decisions => r.deleted = memories[i].deleted
  <2>1. CASE confirm(i)
    <3> DEFINE r == [memories[i] EXCEPT !.sure = "confirmed", !.flagged = FALSE, !.source = "user", !.old = FALSE, !.said = TRUE]
    <3>1. Becomes(i, r)
      BY <2>1 DEF confirm
    <3>2. /\ r \in MemoryRow /\ r.content = memories[i].content /\ r.next = memories[i].next
          /\ r.deleted = memories[i].deleted /\ r.source = "user"
      BY <1>2 DEF MemoryRow
    <3> HIDE DEF r
    <3> QED
      BY <1>2, <3>1, <3>2, StillTheSame
  <2>2. CASE markUncertain(i)
    <3> DEFINE r == [memories[i] EXCEPT !.sure = "uncertain", !.flagged = TRUE, !.old = FALSE]
    <3>1. Becomes(i, r)
      BY <2>2 DEF markUncertain
    <3>2. /\ r \in MemoryRow /\ r.content = memories[i].content /\ r.next = memories[i].next
          /\ r.deleted = memories[i].deleted /\ r.source = memories[i].source /\ r.flagged
      BY <1>2 DEF MemoryRow
    <3> HIDE DEF r
    <3> QED
      BY <1>2, <3>1, <3>2, StillTheSame
  <2>3. CASE remove(i)
    <3> DEFINE r == [memories[i] EXCEPT !.deleted = TRUE]
    <3>1. Becomes(i, r) /\ decisions' # decisions
      BY <2>3, <1>1 DEF remove, Decides
    <3>2. /\ r \in MemoryRow /\ r.content = memories[i].content /\ r.next = memories[i].next
          /\ r.deleted /\ r.source = memories[i].source /\ r.flagged = memories[i].flagged
      BY <1>2 DEF MemoryRow
    <3> HIDE DEF r
    <3> QED
      BY <1>2, <3>1, <3>2, StillTheSame
  <2>4. CASE Ages(i)
    <3> DEFINE r == [memories[i] EXCEPT !.old = TRUE]
    <3>1. Becomes(i, r)
      BY <2>4 DEF Ages
    <3>2. /\ r \in MemoryRow /\ r.content = memories[i].content /\ r.next = memories[i].next
          /\ r.deleted = memories[i].deleted /\ r.source = memories[i].source /\ r.flagged = memories[i].flagged
      BY <1>2 DEF MemoryRow
    <3> HIDE DEF r
    <3> QED
      BY <1>2, <3>1, <3>2, StillTheSame
  <2> QED
    BY <2>1, <2>2, <2>3, <2>4
<1>5. PICK r : /\ Becomes(i, r) /\ SameMemory(memories[i], r)
               /\ decisions' = decisions => r.deleted = memories[i].deleted
  BY <1>4
<1>6. \A j \in DOMAIN memories : memories'[j] = IF j = i THEN r ELSE memories[j]
  BY <1>1, <1>5 DEF Becomes
<1> QED
  BY <1>1, <1>3, <1>5, <1>6, RowChanges

(* The retention policy takes a row only after reading that it may.        *)
LEMMA PruneStep ==
  ASSUME MemoryInv, prune \/ Pruned
  PROVE  MemoryInv' /\ \A i \in DOMAIN memories :
            memories'[i].deleted /\ ~memories[i].deleted => memories[i].content \notin Decision
<1>1. memories \in Seq(MemoryRow) /\ decisions \in Int
  BY DEF MemoryInv
<1>2. CASE prune
  <2>1. ReadRight(memories, pruning') /\ UNCHANGED <<memories, saving, separate, decisions>>
    BY <1>2 DEF prune, ReadRight
  <2> QED
    BY <2>1, <1>2 DEF MemoryInv
<1>3. CASE Pruned
  <2>1. PICK p \in pruning \ Off :
           /\ pruning' = pruning \ {p}
           /\ IF Keeps(p[2]) THEN UNCHANGED memories
              ELSE Becomes(p[1], [memories[p[1]] EXCEPT !.deleted = TRUE])
           /\ UNCHANGED <<saving, separate, decisions>>
    BY <1>3 DEF Pruned
  <2>2. ReadRight(memories, pruning') /\ p[1] \in DOMAIN memories /\ p[2].content = memories[p[1]].content
    BY <2>1 DEF MemoryInv, ReadRight
  <2>3. CASE Keeps(p[2])
    BY <2>1, <2>2, <2>3 DEF MemoryInv
  <2>4. CASE ~Keeps(p[2])
    <3> DEFINE i == p[1]
               r == [memories[i] EXCEPT !.deleted = TRUE]
    <3>1. memories[i] \in MemoryRow /\ (memories[i].source = "ai" => memories[i].flagged) /\ memories[i].content \notin Decision
      BY <1>1, <2>2, <2>4 DEF MemoryInv, Keeps
    <3>2. Becomes(i, r)
      BY <2>1, <2>4
    <3>3. /\ r \in MemoryRow /\ r.content = memories[i].content /\ r.next = memories[i].next
          /\ r.deleted /\ r.source = memories[i].source /\ r.flagged = memories[i].flagged
      BY <3>1 DEF MemoryRow
    <3> HIDE DEF r
    <3>4. SameMemory(memories[i], r)
      BY <3>1, <3>3, StillTheSame
    <3>5. \A j \in DOMAIN memories : memories'[j] = IF j = i THEN r ELSE memories[j]
      BY <1>1, <2>2, <3>2 DEF Becomes
    <3> QED
      BY <1>1, <2>1, <2>2, <3>1, <3>2, <3>4, <3>5, RowChanges
  <2> QED
    BY <2>3, <2>4
<1> QED
  BY <1>2, <1>3

LEMMA SaveDeletesNothing ==
  ASSUME MemoryInv, NEW s \in Saver, save(s), NEW i \in DOMAIN memories
  PROVE  memories'[i].deleted = memories[i].deleted
<1>1. memories \in Seq(MemoryRow) /\ memories[i] \in MemoryRow
  BY DEF MemoryInv
<1>2. CASE UNCHANGED memories
  BY <1>2
<1>3. ASSUME NEW j \in DOMAIN memories, NEW a, NEW b,
             memories' = [memories EXCEPT ![j].sure = a, ![j].old = FALSE, ![j].said = b]
      PROVE  memories'[i].deleted = memories[i].deleted
  <2>1. memories[j] \in MemoryRow
    BY <1>1
  <2>2. memories'[i] = IF i = j THEN [memories[j] EXCEPT !.sure = a, !.old = FALSE, !.said = b] ELSE memories[i]
    BY <1>1, <1>3
  <2> QED
    BY <1>1, <2>1, <2>2 DEF MemoryRow
<1>4. (UNCHANGED memories) \/ \E in \in Extraction \cup SaveTool : \E j \in DOMAIN memories :
         memories' = [memories EXCEPT ![j].sure = IF in.source = "user" THEN "confirmed" ELSE @,
                                      ![j].old = FALSE, ![j].said = @ \/ in.said]
  BY DEF save, Existing
<1>5. CASE \E in \in Extraction \cup SaveTool : \E j \in DOMAIN memories :
         memories' = [memories EXCEPT ![j].sure = IF in.source = "user" THEN "confirmed" ELSE @,
                                      ![j].old = FALSE, ![j].said = @ \/ in.said]
  <2>1. PICK in \in Extraction \cup SaveTool, j \in DOMAIN memories :
          memories' = [memories EXCEPT ![j].sure = IF in.source = "user" THEN "confirmed" ELSE @,
                                       ![j].old = FALSE, ![j].said = @ \/ in.said]
    BY <1>5
  <2> DEFINE a == IF in.source = "user" THEN "confirmed" ELSE memories[j].sure
             b == memories[j].said \/ in.said
  <2>2. memories' = [memories EXCEPT ![j].sure = a, ![j].old = FALSE, ![j].said = b]
    BY <2>1
  <2> QED
    BY <2>2, <1>3
<1> QED
  BY <1>2, <1>4, <1>5

LEMMA MemoryStep ==
  MemoryInv /\ [MemoryNext]_memoryVars =>
     /\ MemoryInv'
     /\ \A i \in DOMAIN memories :
          memories'[i].deleted /\ ~memories[i].deleted /\ decisions' = decisions => memories[i].content \notin Decision
<1> SUFFICES ASSUME MemoryInv, [MemoryNext]_memoryVars
             PROVE  /\ MemoryInv'
                    /\ \A i \in DOMAIN memories :
                         memories'[i].deleted /\ ~memories[i].deleted /\ decisions' = decisions
                            => memories[i].content \notin Decision
  OBVIOUS
<1>1. CASE UNCHANGED memoryVars
  BY <1>1 DEF memoryVars, MemoryInv
<1>2. CASE prune \/ Pruned
  BY <1>2, PruneStep
<1>3. CASE \E s \in Saver : save(s)
  BY <1>3, SaveStep, SaveDeletesNothing
<1>4. CASE \E s \in Saver : Inserted(s)
  BY <1>4, InsertedStep
<1>5. CASE \E i \in 1..MaxMemories : confirm(i) \/ markUncertain(i) \/ remove(i) \/ Ages(i)
  BY <1>5, DecisionOnRow
<1> QED
  BY <1>1, <1>2, <1>3, <1>4, <1>5 DEF MemoryNext

(* However saves, extractions, decisions of the user and the retention     *)
(* policy interleave: a text has one active memory unless two saves of it  *)
(* overlapped, what the model inferred stays flagged until the user        *)
(* confirmed it, and the policy takes no decision of the user              *)
(* (MemoryService.save, prune).                                            *)
THEOREM MemorySafety == MemorySpec => MemoriesAreTrue
<1>1. MemoryInv => OneActive /\ InferredIsFlagged
  BY DEF MemoryInv, OneOfEach, OneActive, InferredIsFlagged, Active, Counts
<1>2. MemoryInv /\ [MemoryNext]_memoryVars =>
         [\A i \in DOMAIN memories :
            memories'[i].deleted /\ ~memories[i].deleted /\ decisions' = decisions
               => memories[i].content \notin Decision]_memoryVars
  BY MemoryStep
<1>3. MemorySpec => []MemoryInv
  BY MemoryStarts, MemoryStep, PTL DEF MemorySpec
<1> QED
  BY <1>1, <1>2, <1>3, PTL DEF MemorySpec, MemoriesAreTrue, HistoryIsKept
-----------------------------------------------------------------------------
(* A start of the app: where it is in bootstrapApp, and what the files and *)
(* the tables are by then.                                                 *)

Checking == {"check", "repair", "recheck"}
Starting == {"schema", "snapshot", "days", "mark", "backup", "enable", "ready"}
Booting == {"defaults", "preferences", "register", "others", "current"}

LaunchTypes ==
    /\ pc \in {"off", "migrate"} \union Booting \union Checking \union Starting
    /\ disk \in [version : Nat, tables : Nat]
    /\ devices \subseteq [id : {Self, Stranger}, current : BOOLEAN]
    /\ There \subseteq Cell /\ refs \in [There -> SUBSET Cell]
    /\ todo \subseteq Cell \X Cell
    /\ checked \in [damaged : BOOLEAN, ok : BOOLEAN]
    /\ date \in Nat /\ asOf \in Nat /\ flag \in Nat \union {Nowhere} /\ next \in Nat

(* A migration is in its transaction, or all of it is on disk.             *)
SchemaIsWhole ==
    /\ disk.version = disk.tables
    /\ open # Nowhere => /\ pc = "migrate" /\ disk.version < Current
                         /\ open = [version |-> disk.version, tables |-> disk.tables + 1]
    /\ pc \notin {"off", "migrate"} => disk.version = Current

(* From registerDevice on this device is there, and the others give way.   *)
OneDevice ==
    /\ pc \in {"others", "current"} => \E v \in devices : v.id = Self
    /\ pc = "current" => \A v \in devices : v.id # Self => ~v.current
    /\ pc \in Checking \union Starting => {v \in devices : v.current} = {[id |-> Self, current |-> TRUE]}

(* What the repair has still to do covers what is wrong; then nothing is.  *)
RepairIsComplete ==
    /\ pc = "repair" => Violations \subseteq todo
    /\ pc \in Starting \union {"recheck"} => Violations = {}
    /\ pc \in Starting => (checked.damaged => issues # {})

(* The flag is of no later day, and the days before its own are done.      *)
SnapshotsAreKept ==
    /\ asOf <= date /\ (flag = Nowhere \/ flag <= date)
    /\ flag = date => \A i \in 1..3 : date - i \in snaps
    /\ pc = "days" /\ asOf = date => \A i \in 1..3 : i < next => date - i \in snaps

LaunchInv == LaunchTypes /\ SchemaIsWhole /\ OneDevice /\ RepairIsComplete /\ SnapshotsAreKept
-----------------------------------------------------------------------------
(* What a DELETE takes with it: the levels of the cascade grow until one   *)
(* adds nothing, which is so after as many as there are rows.              *)

(* Induction up to a bound. *)
LEMMA Upwards ==
  ASSUME NEW n \in Nat, NEW T, 0 \in T, \A k \in 1..n : k - 1 \in T => k \in T
  PROVE  0..n \subseteq T
<1> DEFINE S == {k \in 0..n : k \notin T}
<1> SUFFICES ASSUME S # {} PROVE FALSE
  OBVIOUS
<1>1. IsWellFoundedOn(OpToRel(<, Nat), Nat)
  BY NatLessThanWellFounded
<1>2. S \subseteq Nat
  OBVIOUS
<1>3. PICK i \in S : \A j \in S : ~(<<j, i>> \in OpToRel(<, Nat))
  BY <1>1, <1>2, WFMin
<1>4. \A j \in S : ~(j < i)
  BY <1>2, <1>3 DEF OpToRel
<1>5. i \in 1..n /\ i - 1 \in 0..n /\ i - 1 < i
  <2>1. i \in 0..n /\ i # 0
    BY <1>3
  <2> QED
    BY <2>1
<1>6. i - 1 \in T
  BY <1>4, <1>5
<1> QED
  BY <1>3, <1>5, <1>6

(* The levels of a cascade by what the level before adds. *)
Levels(level, n, first, step) == level = [k \in 0..n |-> IF k = 0 THEN first ELSE step[level[k - 1]]]

LEMMA LevelsExist ==
  ASSUME NEW n \in Nat, NEW S, NEW first \in S, NEW step \in [S -> S]
  PROVE  \E level \in [0..n -> S] : Levels(level, n, first, step)
<1> DEFINE Runs(m, f) == /\ f \in [0..m -> S]
                         /\ f[0] = first
                         /\ \A k \in 1..m : f[k] = step[f[k - 1]]
           T == {m \in 0..n : \E f : Runs(m, f)}
<1>1. 0 \in T
  <2>1. Runs(0, [k \in 0..0 |-> first])
    OBVIOUS
  <2> HIDE DEF Runs
  <2>2. \E f : Runs(0, f)
    BY <2>1
  <2> QED
    BY <2>2
<1>2. ASSUME NEW m \in 1..n, m - 1 \in T PROVE m \in T
  <2>1. PICK f : Runs(m - 1, f)
    BY <1>2
  <2> DEFINE g == [k \in 0..m |-> IF k = m THEN step[f[m - 1]] ELSE f[k]]
  <2>2. f[m - 1] \in S /\ step[f[m - 1]] \in S
    BY <2>1
  <2>3. g \in [0..m -> S]
    BY <2>1, <2>2
  <2>4. g[0] = first
    BY <2>1
  <2>5. ASSUME NEW k \in 1..m PROVE g[k] = step[g[k - 1]]
    <3>1. CASE k = m
      BY <3>1
    <3>2. CASE k # m
      <4>1. k \in 1..m - 1 /\ k - 1 \in 0..m - 1
        BY <3>2
      <4> QED
        BY <2>1, <4>1
    <3> QED
      BY <3>1, <3>2
  <2> HIDE DEF g
  <2>6. Runs(m, g)
    BY <2>3, <2>4, <2>5
  <2> HIDE DEF Runs
  <2>7. \E h : Runs(m, h)
    BY <2>6
  <2> QED
    BY <2>7
<1> HIDE DEF T
<1>3. n \in T
  <2>1. 0..n \subseteq T
    BY <1>1, <1>2, Upwards
  <2> QED
    BY <2>1
<1>4. PICK f : Runs(n, f)
  BY <1>3 DEF T
<1>5. Levels(f, n, first, step)
  BY <1>4 DEF Levels
<1> QED
  BY <1>4, <1>5

(* Sets that only grow, within a set of n elements, have stopped after n.  *)
LEMMA LevelsStop ==
  ASSUME NEW S, IsFiniteSet(S), NEW first \in S, NEW step \in [SUBSET S -> SUBSET S],
         \A rows \in SUBSET S : rows \subseteq step[rows],
         NEW n, n = Cardinality(S),
         NEW level \in [0..n -> SUBSET S], Levels(level, n, {first}, step)
  PROVE  first \in level[n] /\ step[level[n]] \subseteq level[n]
<1> DEFINE T == {k \in 0..n : first \in level[k] /\ (step[level[k]] = level[k] \/ Cardinality(level[k]) > k)}
<1>1. n \in Nat
  BY FS_CardinalityType
<1>2. \A rows \in SUBSET S : IsFiniteSet(rows) /\ Cardinality(rows) \in Nat /\ Cardinality(rows) <= n
  BY FS_Subset, FS_CardinalityType, <1>1
<1>3. level[0] = {first} /\ \A k \in 1..n : level[k] = step[level[k - 1]]
  <2>1. level = [k \in 0..n |-> IF k = 0 THEN {first} ELSE step[level[k - 1]]]
    BY DEF Levels
  <2>2. 0 \in 0..n /\ \A k \in 1..n : k \in 0..n /\ k # 0
    BY <1>1
  <2> QED
    BY <2>1, <2>2, Zenon
<1>4. 0 \in T
  <2>1. Cardinality({first}) = 1
    BY FS_Singleton
  <2>2. 0 \in 0..n /\ first \in level[0] /\ Cardinality(level[0]) > 0
    BY <1>1, <1>3, <2>1
  <2> QED
    BY <2>2
<1>5. ASSUME NEW k \in 1..n, k - 1 \in T PROVE k \in T
  <2> DEFINE was == level[k - 1]
             is == level[k]
  <2>1. was \in SUBSET S /\ is \in SUBSET S /\ is = step[was] /\ was \subseteq is
    BY <1>1, <1>3
  <2>2. first \in is
    BY <1>5, <2>1
  <2>3. CASE is = was
    <3>1. k \in 0..n
      BY <1>1
    <3>2. step[level[k]] = level[k]
      BY <2>1, <2>3, Zenon
    <3> QED
      BY <2>2, <3>1, <3>2
  <2>4. CASE is # was
    <3>1. Cardinality(was) > k - 1
      BY <1>5, <2>1, <2>4
    <3>2. Cardinality(was) < Cardinality(is)
      <4>1. was \in SUBSET is /\ IsFiniteSet(is)
        BY <1>2, <2>1
      <4>2. Cardinality(was) <= Cardinality(is) /\ Cardinality(was) # Cardinality(is)
        BY <2>4, <4>1, FS_Subset
      <4> QED
        BY <1>2, <2>1, <4>2
    <3>3. Cardinality(was) \in Nat /\ Cardinality(is) \in Nat
      BY <1>2, <2>1
    <3>4. Cardinality(is) > k
      BY <3>1, <3>2, <3>3
    <3> QED
      BY <2>2, <3>4
  <2> QED
    BY <2>3, <2>4
<1> HIDE DEF T
<1>6. n \in T
  <2>1. 0..n \subseteq T
    BY <1>1, <1>4, <1>5, Upwards
  <2> QED
    BY <1>1, <2>1
<1>7. first \in level[n] /\ (step[level[n]] = level[n] \/ Cardinality(level[n]) > n)
  BY <1>6 DEF T
<1>8. level[n] \in SUBSET S /\ n \in 0..n
  BY <1>1
<1>9. ~(Cardinality(level[n]) > n)
  BY <1>1, <1>2, <1>8
<1> QED
  BY <1>7, <1>9

(* What lies below a row is there, the row among it, and no row is left    *)
(* whose key would keep it from going.                                     *)
LEMMA BelowIsClosed ==
  ASSUME There \subseteq Cell, NEW row \in There
  PROVE  /\ row \in Below(row)
         /\ \A c \in There \ Loose : refs[c] \intersect Below(row) # {} => c \in Below(row)
<1> DEFINE Owned(rows) == {c \in There \ Loose : refs[c] \intersect rows # {}}
           n == Cardinality(Cell)
           step == [rows \in SUBSET Cell |-> rows \union Owned(rows)]
           Level(f) == f = [k \in 0..n |-> IF k = 0 THEN {row} ELSE f[k - 1] \union Owned(f[k - 1])]
           level == CHOOSE f : Level(f)
<1>1. IsFiniteSet(Cell) /\ n \in Nat
  BY LaunchAssumption, FS_CardinalityType
<1>2. step \in [SUBSET Cell -> SUBSET Cell] /\ {row} \in SUBSET Cell
  OBVIOUS
<1>3. \A rows \in SUBSET Cell : step[rows] = rows \union Owned(rows)
  OBVIOUS
<1>4. Below(row) = level[n]
  BY DEF Below
<1> HIDE DEF step, n, Owned
<1>5. PICK f \in [0..n -> SUBSET Cell] : Levels(f, n, {row}, step)
  BY <1>1, <1>2, LevelsExist
<1>6. \A g \in [0..n -> SUBSET Cell] : Levels(g, n, {row}, step) => Level(g)
  <2> SUFFICES ASSUME NEW g \in [0..n -> SUBSET Cell], Levels(g, n, {row}, step) PROVE Level(g)
    OBVIOUS
  <2>1. \A k \in 0..n : k # 0 => k - 1 \in 0..n
    BY <1>1
  <2>2. \A k \in 0..n : k # 0 => step[g[k - 1]] = g[k - 1] \union Owned(g[k - 1])
    BY <1>3, <2>1
  <2>3. g = [k \in 0..n |-> IF k = 0 THEN {row} ELSE step[g[k - 1]]]
    BY DEF Levels
  <2> QED
    BY <2>2, <2>3
<1>7. Level(level)
  BY <1>5, <1>6
<1> HIDE DEF level
<1>8. level \in [0..n -> SUBSET Cell]
  <2> DEFINE T == {k \in 0..n : level[k] \in SUBSET Cell}
  <2>1. 0 \in T
    BY <1>1, <1>2, <1>7
  <2>2. \A k \in 1..n : k - 1 \in T => k \in T
    <3> TAKE k \in 1..n
    <3> HAVE k - 1 \in T
    <3>1. k \in 0..n /\ k # 0
      BY <1>1
    <3>2. level[k] = level[k - 1] \union Owned(level[k - 1])
      BY <1>7, <3>1
    <3>3. level[k - 1] \in SUBSET Cell
      OBVIOUS
    <3>4. Owned(level[k - 1]) \subseteq Cell
      BY DEF Owned
    <3> QED
      BY <3>1, <3>2, <3>3, <3>4
  <2> HIDE DEF T
  <2>3. 0..n \subseteq T
    BY <1>1, <2>1, <2>2, Upwards
  <2>4. \A k \in 0..n : level[k] \in SUBSET Cell
    BY <2>3 DEF T
  <2>5. level = [k \in 0..n |-> level[k]]
    BY <1>7
  <2> QED
    BY <2>4, <2>5
<1>9. Levels(level, n, {row}, step)
  <2>1. \A k \in 0..n : k # 0 => k - 1 \in 0..n
    BY <1>1
  <2>2. \A k \in 0..n : k # 0 => step[level[k - 1]] = level[k - 1] \union Owned(level[k - 1])
    BY <1>3, <1>8, <2>1
  <2> QED
    BY <1>7, <2>2 DEF Levels
<1>10. row \in level[n] /\ step[level[n]] \subseteq level[n]
  <2>1. \A rows \in SUBSET Cell : rows \subseteq step[rows]
    BY <1>3
  <2>2. row \in Cell
    OBVIOUS
  <2>3. n = Cardinality(Cell)
    BY DEF n
  <2> QED
    BY <1>1, <1>2, <1>8, <1>9, <2>1, <2>2, <2>3, LevelsStop
<1>11. Owned(level[n]) \subseteq level[n]
  BY <1>1, <1>3, <1>8, <1>10
<1> QED
  BY <1>4, <1>10, <1>11 DEF Owned
-----------------------------------------------------------------------------
LEMMA LaunchStart ==
  ASSUME LaunchInit
  PROVE  LaunchInv
<1>1. CASE NewDatabase
  <2>1. There = {} /\ refs \in [There -> SUBSET Cell]
    BY <1>1 DEF NewDatabase, There
  <2>2. Violations = {}
    BY <2>1 DEF Violations
  <2>3. LaunchTypes
    BY <1>1, <2>1 DEF LaunchInit, NewDatabase, LaunchTypes, Booting, Checking, Starting
  <2> QED
    BY <1>1, <2>3, LaunchAssumption DEF LaunchInit, NewDatabase, LaunchInv, SchemaIsWhole, OneDevice, RepairIsComplete, SnapshotsAreKept, Booting, Checking, Starting
<1>2. ASSUME NEW build \in {Current, Current + 1}, Used(build) PROVE LaunchInv
  <2>1. There \subseteq Cell /\ refs \in [There -> SUBSET Cell]
    <3>1. PICK rows \in SUBSET Cell : refs = [c \in rows |-> Keys[c]]
      BY <1>2 DEF Used
    <3> QED
      BY <3>1, LaunchAssumption DEF There
  <2>2. disk = [version |-> build, tables |-> build] /\ build \in Nat
    BY <1>2, LaunchAssumption DEF Used
  <2>3. devices \subseteq [id : {Self, Stranger}, current : BOOLEAN]
    <3>1. \A id \in {Self, Stranger} : [id |-> id, current |-> TRUE] \in [id : {Self, Stranger}, current : BOOLEAN]
      OBVIOUS
    <3> QED
      BY <1>2, <3>1 DEF Used
  <2>4. LaunchTypes
    BY <2>1, <2>2, <2>3 DEF LaunchInit, LaunchTypes, Booting, Checking, Starting
  <2> QED
    BY <2>2, <2>4, LaunchAssumption DEF LaunchInit, LaunchInv, SchemaIsWhole, OneDevice, RepairIsComplete, SnapshotsAreKept, Booting, Checking, Starting
<1> QED
  BY <1>1, <1>2 DEF LaunchInit

LEMMA SameRows ==
  ASSUME refs' = refs
  PROVE  Violations' = Violations
BY DEF Violations, There

LEMMA LaunchMigrates ==
  ASSUME LaunchInv, BootstrapApp \/ Refuse \/ BeginMigration \/ CommitMigration \/ Migrated
  PROVE  LaunchInv'
<1>1. Violations' = Violations /\ There' = There
  BY SameRows DEF BootstrapApp, Refuse, BeginMigration, CommitMigration, Migrated, repairVars, There
<1> USE DEF LaunchInv, LaunchTypes, SchemaIsWhole, OneDevice, RepairIsComplete, SnapshotsAreKept, schemaVars, bootVars, repairVars, snapVars, Booting, Checking, Starting
<1>2. CASE BootstrapApp
  BY <1>1, <1>2 DEF BootstrapApp
<1>3. CASE Refuse
  <2>1. open = Nowhere
    BY <1>3, LaunchAssumption DEF Refuse
  <2> QED
    BY <1>1, <1>3, <2>1 DEF Refuse
<1>4. CASE BeginMigration
  BY <1>1, <1>4 DEF BeginMigration
<1>5. CASE CommitMigration
  BY <1>1, <1>5 DEF CommitMigration
<1>6. CASE Migrated
  <2>1. open = Nowhere
    BY <1>6, LaunchAssumption DEF Migrated
  <2> QED
    BY <1>1, <1>6, <2>1 DEF Migrated
<1> QED
  BY <1>2, <1>3, <1>4, <1>5, <1>6

LEMMA DeviceMarked ==
  ASSUME NEW ids, NEW v \in [id : ids, current : BOOLEAN], NEW on
  PROVE  [v EXCEPT !.current = on] = [id |-> v.id, current |-> on]
OBVIOUS

LEMMA LaunchBoots ==
  ASSUME LaunchInv, EnsureDefaults \/ InsertPreference \/ RegisterDevice \/ MarkOthers \/ MarkCurrent
  PROVE  LaunchInv'
<1>1. Violations' = Violations /\ There' = There
  BY SameRows DEF EnsureDefaults, InsertPreference, RegisterDevice, MarkOthers, MarkCurrent, repairVars, There
<1> USE DEF LaunchInv, LaunchTypes, SchemaIsWhole, OneDevice, RepairIsComplete, SnapshotsAreKept, schemaVars, bootVars, repairVars, snapVars, Booting, Checking, Starting
<1>2. CASE EnsureDefaults
  BY <1>1, <1>2 DEF EnsureDefaults
<1>3. CASE InsertPreference
  BY <1>1, <1>3 DEF InsertPreference
<1>4. CASE RegisterDevice
  <2> DEFINE own == [id |-> Self, current |-> TRUE]
  <2>1. own \in [id : {Self, Stranger}, current : BOOLEAN] /\ own.id = Self
    OBVIOUS
  <2> HIDE DEF own
  <2>2. devices' = devices \/ devices' = devices \union {own}
    BY <1>4 DEF RegisterDevice, own
  <2>3. devices' \subseteq [id : {Self, Stranger}, current : BOOLEAN] /\ \E v \in devices' : v.id = Self
    BY <1>4, <2>1, <2>2 DEF RegisterDevice, own
  <2> QED
    BY <1>1, <1>4, <2>3 DEF RegisterDevice
<1>5. CASE MarkOthers
  <2> DEFINE aside(v) == [v EXCEPT !.current = FALSE]
  <2>1. \A v \in devices : aside(v) \in [id : {Self, Stranger}, current : BOOLEAN] /\ aside(v).id = v.id /\ ~aside(v).current
    OBVIOUS
  <2> HIDE DEF aside
  <2>2. devices' = {IF v.id = Self THEN v ELSE aside(v) : v \in devices}
    BY <1>5 DEF MarkOthers, aside
  <2>3. devices' \subseteq [id : {Self, Stranger}, current : BOOLEAN] /\ \A v \in devices' : v.id # Self => ~v.current
    BY <2>1, <2>2
  <2>4. \E v \in devices' : v.id = Self
    <3>1. PICK v \in devices : v.id = Self
      BY <1>5 DEF MarkOthers
    <3>2. v \in devices'
      BY <2>2, <3>1
    <3> QED
      BY <3>1, <3>2
  <2> QED
    BY <1>1, <1>5, <2>3, <2>4 DEF MarkOthers
<1>6. CASE MarkCurrent
  <2> DEFINE own == [id |-> Self, current |-> TRUE]
             up(v) == [v EXCEPT !.current = TRUE]
  <2>1. \A v \in devices : v.id = Self => up(v) = own
    <3>1. devices \subseteq [id : {Self, Stranger}, current : BOOLEAN]
      OBVIOUS
    <3> TAKE v \in devices
    <3>2. v \in [id : {Self, Stranger}, current : BOOLEAN]
      BY <3>1
    <3>3. up(v) = [id |-> v.id, current |-> TRUE]
      BY <3>2, DeviceMarked
    <3> HIDE DEF up
    <3> QED
      BY <3>3
  <2>2. own \in [id : {Self, Stranger}, current : BOOLEAN] /\ own.current /\ own.id = Self
    OBVIOUS
  <2>3. devices' = {IF v.id = Self THEN up(v) ELSE v : v \in devices}
    BY <1>6 DEF MarkCurrent
  <2> HIDE DEF own, up
  <2>4. devices' = {IF v.id = Self THEN own ELSE v : v \in devices}
    BY <2>1, <2>3
  <2>5. devices' \subseteq [id : {Self, Stranger}, current : BOOLEAN]
    BY <2>2, <2>4
  <2>6. \A v \in devices' : v.current => v = own
    BY <1>6, <2>4 DEF MarkCurrent
  <2>7. own \in devices'
    <3>1. PICK v \in devices : v.id = Self
      BY <1>6 DEF MarkCurrent
    <3> QED
      BY <2>4, <3>1
  <2>8. {v \in devices' : v.current} = {own}
    BY <2>2, <2>6, <2>7
  <2> QED
    BY <1>1, <1>6, <2>5, <2>8 DEF MarkCurrent, own
<1> QED
  BY <1>2, <1>3, <1>4, <1>5, <1>6

LEMMA LaunchFinishes ==
  ASSUME LaunchInv, FirstLaunchBackup \/ EnableSync \/ ConfigureSync \/ PushBegins \/ CloseApp \/ Die \/ ResetStuckSync
  PROVE  LaunchInv'
<1>1. Violations' = Violations /\ There' = There
  BY SameRows DEF FirstLaunchBackup, EnableSync, ConfigureSync, PushBegins, CloseApp, Die, ResetStuckSync, repairVars, There
<1> USE DEF LaunchInv, LaunchTypes, SchemaIsWhole, OneDevice, RepairIsComplete, SnapshotsAreKept, schemaVars, bootVars, repairVars, snapVars, Booting, Checking, Starting
<1>2. CASE FirstLaunchBackup
  BY <1>1, <1>2 DEF FirstLaunchBackup
<1>3. CASE EnableSync
  BY <1>1, <1>3 DEF EnableSync
<1>4. CASE ConfigureSync
  BY <1>1, <1>4 DEF ConfigureSync
<1>5. CASE PushBegins
  BY <1>1, <1>5 DEF PushBegins
<1>6. CASE CloseApp
  BY <1>1, <1>6 DEF CloseApp
<1>7. CASE Die
  BY <1>1, <1>7 DEF Die
<1>8. CASE ResetStuckSync
  BY <1>1, <1>8 DEF ResetStuckSync
<1> QED
  BY <1>2, <1>3, <1>4, <1>5, <1>6, <1>7, <1>8

LEMMA LaunchSnapshots ==
  ASSUME LaunchInv, EnsureSnapshot \/ CreateSnapshot \/ SetFlag \/ SetState \/ Midnight
  PROVE  LaunchInv'
<1>1. Violations' = Violations /\ There' = There
  BY SameRows DEF EnsureSnapshot, CreateSnapshot, SetFlag, SetState, Midnight, repairVars, There
<1> USE DEF LaunchInv, LaunchTypes, SchemaIsWhole, OneDevice, RepairIsComplete, SnapshotsAreKept, schemaVars, bootVars, repairVars, snapVars, Booting, Checking, Starting
<1>2. CASE EnsureSnapshot
  BY <1>1, <1>2 DEF EnsureSnapshot
<1>3. CASE CreateSnapshot
  BY <1>1, <1>3 DEF CreateSnapshot
<1>4. CASE SetFlag
  BY <1>1, <1>4 DEF SetFlag
<1>5. CASE SetState
  BY <1>1, <1>5 DEF SetState
<1>6. CASE Midnight
  BY <1>1, <1>6, LaunchAssumption DEF Midnight
<1> QED
  BY <1>2, <1>3, <1>4, <1>5, <1>6

LEMMA LaunchChecks ==
  ASSUME LaunchInv, CheckIntegrity \/ Recheck
  PROVE  LaunchInv'
<1>1. Violations' = Violations /\ There' = There
  BY SameRows DEF CheckIntegrity, Recheck, repairVars, There
<1> USE DEF LaunchInv, LaunchTypes, SchemaIsWhole, OneDevice, RepairIsComplete, SnapshotsAreKept, schemaVars, bootVars, repairVars, snapVars, Booting, Checking, Starting
<1>2. CASE CheckIntegrity
  <2>1. Violations \subseteq Cell \X Cell
    BY DEF Violations
  <2> QED
    BY <1>1, <1>2, <2>1 DEF CheckIntegrity, IntegrityOk
<1>3. CASE Recheck
  BY <1>1, <1>3 DEF Recheck, IntegrityOk
<1> QED
  BY <1>2, <1>3

(* A deletion leaves no new row with a key that names nothing.             *)
LEMMA DeletionLeavesNoOrphan ==
  ASSUME There \subseteq Cell, refs \in [There -> SUBSET Cell], NEW row \in There, refs' = AfterDelete(row)
  PROVE  /\ There' \subseteq There /\ row \notin There'
         /\ refs' \in [There' -> SUBSET Cell]
         /\ There \ There' \subseteq Below(row)
         /\ Violations' \subseteq {v \in Violations : v[1] # row}
<1> DEFINE gone == Below(row)
<1>1. row \in gone /\ \A c \in There \ Loose : refs[c] \intersect gone # {} => c \in gone
  BY BelowIsClosed
<1> HIDE DEF gone
<1>2. refs' = [c \in There \ gone |-> IF c \in Loose THEN refs[c] \ gone ELSE refs[c]]
  BY DEF AfterDelete, gone
<1>3. There' = There \ gone /\ refs' \in [There' -> SUBSET Cell]
  BY <1>2 DEF There
<1>4. ASSUME NEW v \in Violations' PROVE v \in Violations /\ v[1] # row
  <2>1. v \in Cell \X Cell /\ v[1] \in There \ gone /\ v[2] \in refs'[v[1]] /\ v[2] \notin There \ gone
    BY <1>3 DEF Violations
  <2>2. refs'[v[1]] \subseteq refs[v[1]] /\ v[2] \in refs[v[1]]
    BY <1>2, <2>1
  <2>3. v[2] \notin gone
    BY <1>1, <1>2, <2>1, <2>2
  <2> QED
    BY <1>1, <2>1, <2>2, <2>3 DEF Violations
<1> QED
  BY <1>1, <1>3, <1>4 DEF gone

LEMMA LaunchRepairs ==
  ASSUME LaunchInv, RepairForeignKeys
  PROVE  LaunchInv'
<1> USE DEF LaunchInv, LaunchTypes, SchemaIsWhole, OneDevice, RepairIsComplete, SnapshotsAreKept, schemaVars, bootVars, repairVars, snapVars, Booting, Checking, Starting
<1>1. CASE todo = {}
  <2>1. Violations' = Violations /\ There' = There
    BY <1>1, SameRows DEF RepairForeignKeys, There
  <2> QED
    BY <1>1, <2>1 DEF RepairForeignKeys
<1>2. CASE todo # {}
  <2>1. PICK v \in todo : Quarantine(v) /\ todo' = todo \ {v} /\ UNCHANGED pc
    BY <1>2 DEF RepairForeignKeys
  <2>2. There' \subseteq There /\ refs' \in [There' -> SUBSET Cell] /\ Violations' \subseteq {w \in Violations : w # v}
    <3>1. CASE v[1] \in There
      <4>1. refs' = AfterDelete(v[1])
        BY <2>1, <3>1 DEF Quarantine
      <4> QED
        BY <3>1, <4>1, DeletionLeavesNoOrphan
    <3>2. CASE v[1] \notin There
      <4>1. refs' = refs
        BY <2>1, <3>2 DEF Quarantine
      <4>2. \A w \in Violations : w[1] \in There
        BY DEF Violations
      <4> QED
        BY <3>2, <4>1, <4>2, SameRows DEF There
    <3> QED
      BY <3>1, <3>2
  <2> QED
    BY <2>1, <2>2 DEF RepairForeignKeys
<1> QED
  BY <1>1, <1>2

LEMMA LaunchStep ==
  ASSUME LaunchInv, [LaunchNext]_launchVars
  PROVE  LaunchInv'
<1>1. CASE UNCHANGED launchVars
  <2>1. Violations' = Violations /\ There' = There
    BY <1>1, SameRows DEF launchVars, repairVars, There
  <2> QED
    BY <1>1, <2>1 DEF launchVars, LaunchInv, LaunchTypes, SchemaIsWhole, OneDevice, RepairIsComplete, SnapshotsAreKept, schemaVars, bootVars, repairVars, snapVars
<1>2. CASE LaunchNext
  BY <1>2, LaunchMigrates, LaunchBoots, LaunchFinishes, LaunchSnapshots, LaunchChecks, LaunchRepairs DEF LaunchNext
<1> QED
  BY <1>1, <1>2

LEMMA OrphansStep ==
  ASSUME LaunchInv, [LaunchNext]_launchVars
  PROVE  [LET Written(c) == [row |-> c, whole |-> TRUE] \in journal' IN
          \A c \in There \ DOMAIN refs' :
            Written(c) \/ \E v \in todo : v[1] # c /\ c \in Below(v[1]) /\ Written(v[1])]_launchVars
<1>1. CASE refs' = refs
  BY <1>1 DEF There
<1>2. CASE refs' # refs
  <2>1. RepairForeignKeys
    BY <1>2 DEF LaunchNext, launchVars, repairVars, BootstrapApp, Refuse, BeginMigration, CommitMigration, Migrated, EnsureDefaults, InsertPreference, RegisterDevice, MarkOthers, MarkCurrent, CheckIntegrity, Recheck, ResetStuckSync, EnsureSnapshot, CreateSnapshot, SetFlag, SetState, FirstLaunchBackup, EnableSync, ConfigureSync, PushBegins, CloseApp, Die, Midnight
  <2>2. PICK v \in todo : Quarantine(v)
    BY <1>2, <2>1 DEF RepairForeignKeys
  <2>3. v[1] \in There /\ refs' = AfterDelete(v[1]) /\ [row |-> v[1], whole |-> TRUE] \in journal'
    BY <1>2, <2>2 DEF Quarantine
  <2>4. There \ There' \subseteq Below(v[1])
    BY <2>3, DeletionLeavesNoOrphan DEF LaunchInv, LaunchTypes
  <2> QED
    BY <2>3, <2>4 DEF There
<1> QED
  BY <1>1, <1>2

LEMMA LaunchImplies == LaunchInv => LaunchIsSound
BY DEF LaunchInv, LaunchTypes, SchemaIsWhole, OneDevice, RepairIsComplete, SnapshotsAreKept, LaunchIsSound, AReadyAppIsSound, TheFlagMeansSnapshots, Booting, Checking, Starting

(* Wherever earlier starts died, the version on disk is that of the        *)
(* tables; an app that says it is ready has the schema of its build, this  *)
(* device as the one current device, no key that names a missing row, and  *)
(* a report of what is damaged; and a flag of the day stands for snapshots *)
(* that exist: for any rows, keys and build (database.ts, app.ts,          *)
(* recovery.ts, snapshots.ts).                                             *)
THEOREM LaunchSafety == LaunchSpec => []LaunchIsSound
<1>1. LaunchInit => LaunchInv
  BY LaunchStart
<1>2. LaunchInv /\ [LaunchNext]_launchVars => LaunchInv'
  BY LaunchStep
<1>3. LaunchInv => LaunchIsSound
  BY LaunchImplies
<1> QED
  BY <1>1, <1>2, <1>3, PTL DEF LaunchSpec

(* The repair deletes a row only when it is in the journal with its        *)
(* contents, or lies below one that is, however deep the tables' foreign   *)
(* keys go (recovery.ts, repairForeignKeys).                               *)
THEOREM OrphanSafety == LaunchSpec => OrphansAreWrittenDown
<1>1. LaunchInit => LaunchInv
  BY LaunchStart
<1>2. LaunchInv /\ [LaunchNext]_launchVars => LaunchInv'
  BY LaunchStep
<1>3. LaunchInv /\ [LaunchNext]_launchVars =>
        [LET Written(c) == [row |-> c, whole |-> TRUE] \in journal' IN
         \A c \in There \ DOMAIN refs' :
           Written(c) \/ \E v \in todo : v[1] # c /\ c \in Below(v[1]) /\ Written(v[1])]_launchVars
  BY OrphansStep
<1> QED
  BY <1>1, <1>2, <1>3, PTL DEF LaunchSpec, OrphansAreWrittenDown
=============================================================================
