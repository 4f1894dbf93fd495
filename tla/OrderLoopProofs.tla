--------------------------- MODULE OrderLoopProofs ---------------------------
(* Theorems about OrderLoop, for every number of zones and slots, every set  *)
(* of plannings, orders and times, and whatever freed memory holds.          *)
EXTENDS OrderLoop, Induction

Jobs ==
    {Idle}
    \cup [op : {"data"}, at : Zones, value : Nat]
    \cup [op : {"force"}, at : {0}, value : Known]
    \cup [op : {"first", "free", "release"}, at : {0}, value : PlanIds]
    \cup [op : {"null"}, at : Entries, value : PlanIds]
    \cup [op : {"default"}, at : Zones, value : PlanIds]

\* What the httpd task writes has its type.
SettingsInv ==
    /\ mode \in [Zones -> {"fixed", "planning"}]
    /\ data \in [Zones -> Nat]
    /\ active \in BOOLEAN
    /\ forced \in Known
    /\ plannings \in [Places -> PlanIds \cup {NULL}]
    /\ memory \in [PlanIds -> {"none", "held", "freed"}]
    /\ slots \in [PlanIds -> [Entries -> Slot \cup {NULL, FREED}]]
    /\ job \in Jobs

\* Taken off the list, and not freed yet.
Unlisted(id) == ~IsListed(id) /\ memory[id] = "held"

\* A planning that is listed has memory and an entry of its own, no freed slot, and
\* no two slots at a time.
PlanningsInv ==
    /\ \A id \in PlanIds : memory[id] = "none" => slots[id] = NoSlots
    /\ \A id \in PlanIds : IsListed(id) => memory[id] = "held"
    /\ \A j, k \in Places : plannings[j] = plannings[k] /\ plannings[j] # NULL => j = k
    /\ job.op = "first" => IsListed(job.value) /\ slots[job.value] = NoSlots
    /\ job.op \in {"free", "null", "release", "default"} => Unlisted(job.value)
    /\ job.op = "null" => slots[job.value][job.at] = FREED
    /\ \A id \in PlanIds, k \in Entries : slots[id][k] = FREED => ~IsListed(id)
    /\ \A id \in PlanIds : IsListed(id) =>
          \A k, l \in Entered(id) : slots[id][k].start = slots[id][l].start => k = l

\* Where the main task is, and what its locals may be there.  A slot it found is
\* one still unless it knows better.
LocalsInv ==
    /\ clock \in Times /\ now \in Times
    /\ current \in [Zones -> Nat]
    /\ pc \in {"start", "override", "zone", "fixed", "find", "look", "match", "scan", "take", "apply", "down"}
    /\ over \in BOOLEAN
    /\ sent \in Known
    /\ zone \in 0 .. ZONES
    /\ wanted \in Nat
    /\ place \in 0 .. PLANNINGS
    /\ plan \in PlanIds \cup {NULL}
    /\ entry \in 0 .. SLOTS
    /\ gap \in 0 .. WEEK
    /\ best \in Entries \cup {NULL}
    /\ stale \in BOOLEAN
    /\ pc \in {"fixed", "find", "look", "match", "scan", "take"} => zone < ZONES /\ ~over
    /\ pc \in {"match", "scan", "take"} => plan \in PlanIds
    /\ pc = "match" => place < PLANNINGS
    /\ pc \notin {"look", "match", "down"} => place = 0
    /\ pc \notin {"scan", "take", "down"} => best = NULL
    /\ pc = "take" => entry = SLOTS
    /\ pc = "apply" => zone = ZONES
    /\ plan # NULL /\ best # NULL /\ ~stale => slots[plan][best] \in Slot

TypeInv == SettingsInv /\ PlanningsInv /\ LocalsInv

\* What was read of the override is what it is.
OverrideInv ==
    <<"override", 0>> \notin touched =>
        /\ pc \notin {"start", "down"} => over = active
        /\ pc \notin {"start", "override", "down"} /\ over => sent = forced

\* What was read of the zone at hand is what it is.
ZoneInv ==
    <<"zone", zone>> \notin touched =>
        /\ pc = "fixed" => mode[zone] = "fixed"
        /\ pc = "find" => mode[zone] = "planning"
        /\ pc \in {"look", "match"} => mode[zone] = "planning" /\ data[zone] = wanted
        /\ pc \in {"scan", "take"} =>
              mode[zone] = "planning" /\ (data[zone] = plan \/ \E id \in PlanIds : Vanished(id))

\* The planning at hand is listed, or was taken off during this pass; and the one
\* looked up has not been passed over.
LookInv ==
    /\ pc = "match" =>
          /\ IsListed(plan) \/ <<"plan", plan>> \in touched
          /\ memory[plan] = "freed" => <<"freed", plan>> \in touched
    /\ pc \in {"look", "match"} /\ <<"plan", wanted>> \notin touched =>
          \A k \in Places : plannings[k] = wanted =>
              place <= k /\ (pc = "match" /\ k = place => plan = wanted)

\* The slot found is the most recent one of those scanned.
ScanInv ==
    pc \in {"scan", "take"} /\ <<"plan", plan>> \notin touched =>
        /\ IsListed(plan)
        /\ ~stale
        /\ best = NULL => gap = WEEK
        /\ best # NULL => gap = now - slots[plan][best].start
        /\ \A k \in 0 .. entry - 1 :
              slots[plan][k] # NULL /\ slots[plan][k].start <= now =>
                  best # NULL /\ gap <= now - slots[plan][k].start

Exact(z) == Undisturbed(z) => current[z] = Due(z, now)

\* The zones gone over have the orders they are due.
ExactInv == pc \notin {"start", "override", "down"} => \A z \in 0 .. zone - 1 : Exact(z)

IInv == TypeInv /\ OverrideInv /\ ZoneInv /\ LookInv /\ ScanInv /\ ExactInv
-----------------------------------------------------------------------------
(* Lemmas on types.                                                        *)

LEMMA Nulls ==
    /\ NULL # FREED
    /\ NULL \notin Int /\ FREED \notin Int
    /\ NULL \notin Slot /\ FREED \notin Slot
BY ConstantsAssumption

LEMMA Sizes == /\ ZONES \in Nat \ {0} /\ PLANNINGS \in Nat \ {0} /\ SLOTS \in Nat \ {0}
               /\ WEEK \in Nat \ {0} /\ 0 \in Times /\ Instants \subseteq Times
BY ConstantsAssumption DEF Times

LEMMA PlanIdsNat == PlanIds \subseteq Nat /\ PlanIds \subseteq Int
BY ConstantsAssumption

LEMMA SlotStarts == \A slot \in Slot : slot.start \in Times /\ slot.start \in Nat /\ slot.start \in Int
<1>1. \A slot \in Slot : slot.start \in Times
  BY ConstantsAssumption DEF Slot
<1> QED BY <1>1, Sizes DEF Times

LEMMA JobTypes ==
    ASSUME job \in Jobs
    PROVE  /\ job.op \in Ops
           /\ job.op = "data" => job.at \in Zones /\ job.value \in Nat
           /\ job.op = "force" => job.value \in Known
           /\ job.op \in {"first", "free", "release", "null", "default"} => job.value \in PlanIds
           /\ job.op = "null" => job.at \in Entries
           /\ job.op = "default" => job.at \in Zones
BY DEF Jobs, Idle, Job, Ops

\* What the main task does to settings: nothing.
LEMMA MainLeavesSettings == MainStep \/ Tick \/ UNCHANGED vars => UNCHANGED <<settings, job>>
BY DEF MainStep, Start, ReadOverride, OverrideZone, ReadMode, FixedZone, CallFind, NextPlace, SkipPlace,
       LoadPlanning, Found, MatchPlanning, MatchFreed, NoPlanning,
       ScanSlot, ScanFreed, EndScan, TakeOrder, NoSlot, TakeFreed, Panic, Apply, Sleep, Decide, Tick, vars, settings

-----------------------------------------------------------------------------
(* Settings and plannings.                                                 *)

LEMMA SettingsUnchanged ==
    ASSUME SettingsInv, PlanningsInv, UNCHANGED <<settings, job>>
    PROVE  SettingsInv' /\ PlanningsInv'
BY DEF SettingsInv, PlanningsInv, settings, list, Entered, IsListed, Unlisted

LEMMA SetModeStep ==
    ASSUME SettingsInv, PlanningsInv, NEW z \in Zones, NEW new \in {"fixed", "planning"},
           NEW value \in Nat, SetMode(z, new, value)
    PROVE  SettingsInv' /\ PlanningsInv'
<1>1. job' \in Jobs /\ job'.op = "data"
  BY DEF SetMode, Job, Jobs
<1>2. SettingsInv'
  BY <1>1 DEF SetMode, SettingsInv, list
<1>3. PlanningsInv'
  BY <1>1 DEF SetMode, PlanningsInv, list, Entered, IsListed, Unlisted
<1> QED BY <1>2, <1>3

LEMMA WriteDataStep ==
    ASSUME SettingsInv, PlanningsInv, WriteData
    PROVE  SettingsInv' /\ PlanningsInv'
<1>1. job' \in Jobs /\ job'.op = "idle"
  BY DEF WriteData, Job, Jobs, Idle
<1>2. SettingsInv'
  BY <1>1, JobTypes DEF WriteData, SettingsInv, list
<1>3. PlanningsInv'
  BY <1>1 DEF WriteData, PlanningsInv, list, Entered, IsListed, Unlisted
<1> QED BY <1>2, <1>3

LEMMA SetOverrideStep ==
    ASSUME SettingsInv, PlanningsInv, NEW flag \in BOOLEAN, NEW order \in Known, SetOverride(flag, order)
    PROVE  SettingsInv' /\ PlanningsInv'
<1>1. job' \in Jobs /\ job'.op = "force"
  BY DEF SetOverride, Job, Jobs
<1>2. SettingsInv'
  BY <1>1 DEF SetOverride, SettingsInv, list
<1>3. PlanningsInv'
  BY <1>1 DEF SetOverride, PlanningsInv, list, Entered, IsListed, Unlisted
<1> QED BY <1>2, <1>3

LEMMA WriteForcedStep ==
    ASSUME SettingsInv, PlanningsInv, WriteForced
    PROVE  SettingsInv' /\ PlanningsInv'
<1>1. job' \in Jobs /\ job'.op = "idle"
  BY DEF WriteForced, Job, Jobs, Idle
<1>2. SettingsInv'
  BY <1>1, JobTypes DEF WriteForced, SettingsInv, list
<1>3. PlanningsInv'
  BY <1>1 DEF WriteForced, PlanningsInv, list, Entered, IsListed, Unlisted
<1> QED BY <1>2, <1>3

LEMMA AddPlanningStep ==
    ASSUME SettingsInv, PlanningsInv, NEW id \in PlanIds, AddPlanning(id)
    PROVE  SettingsInv' /\ PlanningsInv'
<1>1. job' \in Jobs /\ job'.op = "first" /\ job'.value = id
  BY DEF AddPlanning, Job, Jobs
<1>2. PICK place1 \in Places : plannings[place1] = NULL /\ plannings' = [plannings EXCEPT ![place1] = id]
  BY DEF AddPlanning
<1>3. /\ memory' = [memory EXCEPT ![id] = "held"] /\ memory[id] = "none"
      /\ UNCHANGED <<mode, data, active, forced, slots>>
  BY DEF AddPlanning
<1>4. SettingsInv'
  BY <1>1, <1>2, <1>3 DEF SettingsInv
<1>5. ~IsListed(id) /\ slots[id] = NoSlots /\ \A k \in Entries : slots[id][k] = NULL
  BY <1>3 DEF PlanningsInv, NoSlots
<1>6. \A other \in PlanIds : IsListed(other)' <=> IsListed(other) \/ other = id
  <2>1. \A k \in Places : plannings'[k] = IF k = place1 THEN id ELSE plannings[k]
    BY <1>2 DEF SettingsInv
  <2>2. NULL \notin PlanIds
    BY Nulls, PlanIdsNat
  <2> QED BY <1>2, <2>1, <2>2 DEF IsListed
<1>7. \A other \in PlanIds : memory'[other] = IF other = id THEN "held" ELSE memory[other]
  BY <1>3 DEF SettingsInv
<1>8. \A j, k \in Places : plannings'[j] = plannings'[k] /\ plannings'[j] # NULL => j = k
  <2>1. \A k \in Places : plannings[k] # id
    BY <1>5 DEF IsListed
  <2> QED BY <1>2, <2>1 DEF SettingsInv, PlanningsInv
<1>9. \A other \in PlanIds : IsListed(other)' =>
         \A k, l \in Entered(other)' : slots'[other][k].start = slots'[other][l].start => k = l
  BY <1>3, <1>5, <1>6 DEF PlanningsInv, Entered
<1>10. \A other \in PlanIds, k \in Entries : slots'[other][k] = FREED => ~IsListed(other)'
  BY <1>3, <1>5, <1>6, Nulls DEF PlanningsInv
<1>11. /\ \A other \in PlanIds : memory'[other] = "none" => slots'[other] = NoSlots
       /\ \A other \in PlanIds : IsListed(other)' => memory'[other] = "held"
  BY <1>3, <1>6, <1>7 DEF PlanningsInv
<1> QED BY <1>1, <1>3, <1>4, <1>5, <1>6, <1>8, <1>9, <1>10, <1>11 DEF PlanningsInv

LEMMA RemovePlanningStep ==
    ASSUME SettingsInv, PlanningsInv, NEW id \in PlanIds, RemovePlanning(id)
    PROVE  SettingsInv' /\ PlanningsInv'
<1>1. job' \in Jobs /\ job'.op = "free" /\ job'.value = id
  BY DEF RemovePlanning, Job, Jobs
<1>2. PICK place1 \in Places : plannings[place1] = id /\ plannings' = [plannings EXCEPT ![place1] = NULL]
  BY DEF RemovePlanning
<1>3. UNCHANGED <<mode, data, active, forced, memory, slots>>
  BY DEF RemovePlanning
<1>4. SettingsInv'
  BY <1>1, <1>2, <1>3 DEF SettingsInv
<1>5. \A other \in PlanIds : IsListed(other)' <=> IsListed(other) /\ other # id
  <2>1. \A k \in Places : plannings'[k] = IF k = place1 THEN NULL ELSE plannings[k]
    BY <1>2 DEF SettingsInv
  <2>2. NULL \notin PlanIds
    BY Nulls, PlanIdsNat
  <2>3. \A k \in Places : plannings[k] = id => k = place1
    BY <1>2, <2>2 DEF PlanningsInv
  <2> QED BY <1>2, <2>1, <2>2, <2>3 DEF IsListed
<1>6. \A j, k \in Places : plannings'[j] = plannings'[k] /\ plannings'[j] # NULL => j = k
  BY <1>2 DEF SettingsInv, PlanningsInv
<1>7. Unlisted(id)'
  BY <1>2, <1>3, <1>5 DEF PlanningsInv, Unlisted, IsListed
<1>8. \A other \in PlanIds : IsListed(other)' =>
         \A k, l \in Entered(other)' : slots'[other][k].start = slots'[other][l].start => k = l
  BY <1>3, <1>5 DEF PlanningsInv, Entered
<1> QED BY <1>1, <1>3, <1>4, <1>5, <1>6, <1>7, <1>8 DEF PlanningsInv

\* A slot written to an entry keeps the types; and, into a planning without another
\* slot at its time, the times apart.
LEMMA WriteSlotStep ==
    ASSUME SettingsInv, PlanningsInv,
           NEW id \in PlanIds, NEW k \in Entries, NEW slot \in Slot \cup {NULL, FREED}, NEW frees,
           WriteSlot(id, k, slot, frees),
           IsListed(id) \/ Unlisted(id),
           slot = FREED => Unlisted(id),
           slot \in Slot /\ IsListed(id) =>
               \A l \in Entered(id) \ {k} : slots[id][l].start # slot.start,
           job' \in Jobs, job'.op # "first",
           job'.op = "null" => job' = Job("null", k, id) /\ slot = FREED,
           job'.op \in {"free", "null", "release", "default"} => job'.value = id /\ Unlisted(id)
    PROVE  SettingsInv' /\ PlanningsInv'
<1>1. /\ slots' = [slots EXCEPT ![id][k] = slot]
      /\ UNCHANGED <<mode, data, active, forced, plannings, memory>>
      /\ \A other : IsListed(other)' = IsListed(other)
  BY DEF WriteSlot, list, IsListed
<1>2. SettingsInv'
  BY <1>1 DEF SettingsInv
<1>3. /\ \A other \in PlanIds, l \in Entries :
            slots'[other][l] = IF other = id /\ l = k THEN slot ELSE slots[other][l]
      /\ \A other \in PlanIds : other # id => slots'[other] = slots[other]
  BY <1>1 DEF SettingsInv
<1>4. ASSUME NEW other \in PlanIds, IsListed(other),
             NEW l \in Entries, NEW m \in Entries,
             slots'[other][l] # NULL, slots'[other][m] # NULL,
             slots'[other][l].start = slots'[other][m].start
      PROVE  l = m
  <2>1. CASE other # id
    BY <1>3, <1>4, <2>1 DEF PlanningsInv, Entered
  <2>2. CASE other = id /\ l # k /\ m # k
    BY <1>3, <1>4, <2>2 DEF PlanningsInv, Entered
  <2>3. CASE other = id /\ (l = k \/ m = k)
    <3>1. slot # NULL => slot \in Slot
      BY <1>4, <2>3 DEF Unlisted
    <3> QED BY <1>3, <1>4, <2>3, <3>1 DEF Entered
  <2> QED BY <2>1, <2>2, <2>3
<1>5. \A other \in PlanIds : IsListed(other)' =>
          \A l, m \in Entered(other)' : slots'[other][l].start = slots'[other][m].start => l = m
  BY <1>1, <1>4 DEF Entered
<1>6. \A other \in PlanIds : memory'[other] = "none" => slots'[other] = NoSlots
  <2>1. memory[id] # "none"
    BY DEF PlanningsInv, Unlisted
  <2> QED BY <1>1, <1>3, <2>1 DEF PlanningsInv
<1>7. \A other \in PlanIds, l \in Entries : slots'[other][l] = FREED => ~IsListed(other)'
  BY <1>1, <1>3 DEF PlanningsInv, Unlisted
<1>8. job'.op = "null" => slots'[job'.value][job'.at] = FREED
  BY <1>3 DEF Job
<1>9. job'.op \in {"free", "null", "release", "default"} => Unlisted(job.value)'
  BY <1>1, Zenon DEF Unlisted
<1>10. PlanningsInv'
  BY <1>1, <1>5, <1>6, <1>7, <1>8, <1>9 DEF PlanningsInv
<1> QED BY <1>2, <1>10

LEMMA AddFirstSlotStep ==
    ASSUME SettingsInv, PlanningsInv, AddFirstSlot
    PROVE  SettingsInv' /\ PlanningsInv'
<1> DEFINE slot == [start |-> 0, order |-> COZY]
<1>1. job.value \in PlanIds /\ 0 \in Entries
  BY JobTypes, ConstantsAssumption DEF AddFirstSlot, SettingsInv, Entries
<1>2. WriteSlot(job.value, 0, slot, FALSE)
  BY DEF AddFirstSlot
<1>3. slot \in Slot
  BY ConstantsAssumption DEF Slot
<1>4. IsListed(job.value) /\ slots[job.value] = NoSlots /\ Entered(job.value) = {}
  BY DEF AddFirstSlot, PlanningsInv, NoSlots, Entered
<1>5. job' \in Jobs /\ job'.op = "idle"
  BY DEF AddFirstSlot, Jobs, Idle, Job
<1> HIDE DEF slot
<1> QED BY <1>1, <1>2, <1>3, <1>4, <1>5, WriteSlotStep, Nulls

LEMMA AddSlotStep ==
    ASSUME SettingsInv, PlanningsInv, NEW id \in PlanIds, NEW start \in Starts, NEW order \in Orders,
           AddSlot(id, [start |-> start, order |-> order])
    PROVE  SettingsInv' /\ PlanningsInv'
<1> DEFINE slot == [start |-> start, order |-> order]
<1>1. slot \in Slot /\ slot.start = start
  BY DEF Slot
<1>2. /\ IsListed(id) /\ job = Idle /\ job' = job
      /\ \A l \in Entered(id) : slots[id][l].start # slot.start
  BY DEF AddSlot, IsListed, TimeUsed
<1>3. PICK k \in Entries : WriteSlot(id, k, slot, FALSE)
  BY DEF AddSlot
<1>4. job' \in Jobs /\ job'.op = "idle"
  BY <1>2 DEF Jobs, Idle, Job
<1> HIDE DEF slot
<1> QED BY <1>1, <1>2, <1>3, <1>4, WriteSlotStep, Nulls

LEMMA MoveSlotStep ==
    ASSUME SettingsInv, PlanningsInv, NEW id \in PlanIds, NEW k \in Entries, NEW start \in Starts,
           MoveSlot(id, k, start)
    PROVE  SettingsInv' /\ PlanningsInv' /\ [slots[id][k] EXCEPT !.start = start] \in Slot
<1> DEFINE slot == [slots[id][k] EXCEPT !.start = start]
<1>1. /\ IsListed(id) /\ job = Idle /\ job' = job
      /\ \A l \in Entered(id) : slots[id][l].start # start
      /\ slots[id][k] # NULL
      /\ WriteSlot(id, k, slot, FALSE)
  BY DEF MoveSlot, IsListed, TimeUsed, Entered
<1>2. slots[id][k] \in Slot
  BY <1>1 DEF SettingsInv, PlanningsInv
<1>3. slot \in Slot /\ slot.start = start
  BY <1>2 DEF Slot
<1>4. job' \in Jobs /\ job'.op = "idle"
  BY <1>1 DEF Jobs, Idle, Job
<1> HIDE DEF slot
<1>5. SettingsInv' /\ PlanningsInv'
  BY <1>1, <1>3, <1>4, WriteSlotStep, Nulls
<1> QED BY <1>3, <1>5 DEF slot

LEMMA RemoveSlotStep ==
    ASSUME SettingsInv, PlanningsInv, NEW id \in PlanIds, NEW k \in Entries, RemoveSlot(id, k)
    PROVE  SettingsInv' /\ PlanningsInv'
<1>1. IsListed(id) /\ job = Idle /\ job' = job /\ WriteSlot(id, k, NULL, TRUE)
  BY DEF RemoveSlot, IsListed
<1>2. job' \in Jobs /\ job'.op = "idle"
  BY <1>1 DEF Jobs, Idle, Job
<1> QED BY <1>1, <1>2, WriteSlotStep, Nulls

\* The job of a removal.
LEMMA RemovalJob ==
    ASSUME NEW op \in {"free", "release"}, NEW id \in PlanIds
    PROVE  Job(op, 0, id) \in Jobs /\ Job(op, 0, id).op = op /\ Job(op, 0, id).value = id
BY DEF Job, Jobs

LEMMA FreeSlotStep ==
    ASSUME SettingsInv, PlanningsInv, FreeSlot
    PROVE  SettingsInv' /\ PlanningsInv'
<1>1. job.value \in PlanIds /\ Unlisted(job.value)
  BY JobTypes DEF FreeSlot, SettingsInv, PlanningsInv
<1>2. PICK k \in Entries : WriteSlot(job.value, k, FREED, TRUE) /\ job' = Job("null", k, job.value)
  BY DEF FreeSlot, Entered
<1>3. job' \in Jobs /\ job'.op = "null" /\ job'.value = job.value
  BY <1>1, <1>2 DEF Job, Jobs
<1> QED BY <1>1, <1>2, <1>3, WriteSlotStep, Nulls

LEMMA ClearEntryStep ==
    ASSUME SettingsInv, PlanningsInv, ClearEntry
    PROVE  SettingsInv' /\ PlanningsInv'
<1>1. job.value \in PlanIds /\ job.at \in Entries /\ Unlisted(job.value)
  BY JobTypes DEF ClearEntry, SettingsInv, PlanningsInv
<1>2. WriteSlot(job.value, job.at, NULL, FALSE)
  BY DEF ClearEntry
<1>3. \E op \in {"free", "release"} : job' = Job(op, 0, job.value)
  BY DEF ClearEntry
<1>4. job' \in Jobs /\ job'.op \in {"free", "release"} /\ job'.value = job.value
  BY <1>1, <1>3, RemovalJob
<1> QED BY <1>1, <1>2, <1>4, WriteSlotStep, Nulls

LEMMA ReleaseZoneStep ==
    ASSUME SettingsInv, PlanningsInv, ReleaseZone
    PROVE  SettingsInv' /\ PlanningsInv'
<1>1. job.value \in PlanIds /\ Unlisted(job.value)
  BY JobTypes DEF ReleaseZone, SettingsInv, PlanningsInv
<1>2. PICK z \in Zones : mode' = [mode EXCEPT ![z] = "fixed"] /\ job' = Job("default", z, job.value)
  BY DEF ReleaseZone, Followers
<1>3. job' \in Jobs /\ job'.op = "default" /\ job'.value = job.value
  BY <1>1, <1>2 DEF Job, Jobs
<1>4. SettingsInv'
  BY <1>2, <1>3 DEF ReleaseZone, SettingsInv, list
<1>5. PlanningsInv'
  BY <1>1, <1>3 DEF ReleaseZone, PlanningsInv, list, Entered, IsListed, Unlisted
<1> QED BY <1>4, <1>5

LEMMA ReleaseDataStep ==
    ASSUME SettingsInv, PlanningsInv, ReleaseData
    PROVE  SettingsInv' /\ PlanningsInv'
<1>1. job.value \in PlanIds /\ job.at \in Zones /\ Unlisted(job.value)
  BY JobTypes DEF ReleaseData, SettingsInv, PlanningsInv
<1>2. job' \in Jobs /\ job'.op = "release" /\ job'.value = job.value
  BY <1>1, RemovalJob DEF ReleaseData
<1>3. COZY \in Nat
  BY ConstantsAssumption DEF Known
<1>4. SettingsInv'
  BY <1>2, <1>3 DEF ReleaseData, SettingsInv, list
<1>5. PlanningsInv'
  BY <1>1, <1>2 DEF ReleaseData, PlanningsInv, list, Entered, IsListed, Unlisted
<1> QED BY <1>4, <1>5

LEMMA FreePlanningStep ==
    ASSUME SettingsInv, PlanningsInv, FreePlanning
    PROVE  SettingsInv' /\ PlanningsInv'
<1>1. job.value \in PlanIds /\ ~IsListed(job.value) /\ memory[job.value] = "held"
  BY JobTypes DEF FreePlanning, SettingsInv, PlanningsInv, Unlisted
<1>2. job' \in Jobs /\ job'.op = "idle"
  BY DEF FreePlanning, Jobs, Idle, Job
<1>3. /\ UNCHANGED <<mode, data, active, forced, plannings, slots>>
      /\ memory' = [memory EXCEPT ![job.value] = "freed"]
      /\ \A other : IsListed(other)' = IsListed(other)
  BY DEF FreePlanning, IsListed
<1>4. SettingsInv'
  BY <1>2, <1>3 DEF SettingsInv
<1>5. \A other \in PlanIds : memory'[other] = IF other = job.value THEN "freed" ELSE memory[other]
  BY <1>1, <1>3 DEF SettingsInv
<1>6. /\ \A id \in PlanIds : memory'[id] = "none" => slots'[id] = NoSlots
      /\ \A id \in PlanIds : IsListed(id)' => memory'[id] = "held"
  BY <1>1, <1>3, <1>5 DEF PlanningsInv
<1>7. \A id \in PlanIds : IsListed(id)' =>
         \A k, l \in Entered(id)' : slots'[id][k].start = slots'[id][l].start => k = l
  BY <1>3 DEF PlanningsInv, Entered
<1> QED BY <1>2, <1>3, <1>4, <1>6, <1>7 DEF PlanningsInv

LEMMA OrdersTyped == /\ Orders \subseteq Known /\ COZY \in Known
                     /\ Orders \subseteq Nat /\ COZY \in Nat /\ PlanIds \subseteq Nat
BY ConstantsAssumption DEF Known

LEMMA SettingsStep ==
    ASSUME SettingsInv, PlanningsInv, [Next]_vars
    PROVE  SettingsInv' /\ PlanningsInv'
<1>1. ASSUME NEW z \in Zones, NEW order \in Orders, SetFixed(z, order)
      PROVE  SettingsInv' /\ PlanningsInv'
  BY <1>1, OrdersTyped, SetModeStep DEF SetFixed
<1>2. ASSUME NEW z \in Zones, NEW id \in PlanIds, SetPlanning(z, id)
      PROVE  SettingsInv' /\ PlanningsInv'
  BY <1>2, OrdersTyped, SetModeStep DEF SetPlanning
<1>3. ASSUME NEW order \in Orders, EnableOverride(order)
      PROVE  SettingsInv' /\ PlanningsInv'
  BY <1>3, OrdersTyped, SetOverrideStep DEF EnableOverride
<1>4. CASE DisableOverride
  BY <1>4, OrdersTyped, SetOverrideStep DEF DisableOverride
<1>5. CASE GetZones
  BY <1>5, SettingsUnchanged DEF GetZones
<1>6. CASE MainStep \/ Tick \/ UNCHANGED vars
  BY <1>6, MainLeavesSettings, SettingsUnchanged
<1>7. CASE GoOn
  BY <1>7, WriteDataStep, WriteForcedStep, AddFirstSlotStep, FreeSlotStep, ClearEntryStep,
     ReleaseZoneStep, ReleaseDataStep, FreePlanningStep DEF GoOn
<1>8. CASE Request
  BY <1>1, <1>2, <1>3, <1>4, <1>5, <1>8, AddPlanningStep, RemovePlanningStep,
     AddSlotStep, MoveSlotStep, RemoveSlotStep DEF Request
<1> QED BY <1>6, <1>7, <1>8 DEF Next
-----------------------------------------------------------------------------
(* The locals of the main task.                                            *)

\* A write to an entry leaves a slot in it, or in its place one the main task
\* knows to be stale, unless there was none.
LEMMA WriteSlotLocals ==
    ASSUME LocalsInv, SettingsInv,
           NEW id \in PlanIds, NEW k \in Entries, NEW slot, NEW frees \in BOOLEAN,
           WriteSlot(id, k, slot, frees),
           frees \/ slot \in Slot \/ slots[id][k] \notin Slot
    PROVE  LocalsInv'
<1>1. /\ UNCHANGED <<current, clock, pc, pass, search>>
      /\ slots' = [slots EXCEPT ![id][k] = slot]
      /\ stale' = (stale \/ (frees /\ plan = id /\ best = k))
      /\ UNCHANGED <<now, over, sent, zone, wanted, place, plan, entry, gap, best>>
  BY DEF WriteSlot, Writes, locals, pass, search
<1>2. stale' \in BOOLEAN
  BY <1>1 DEF LocalsInv
<1>3. ASSUME plan # NULL, best # NULL, ~stale'
      PROVE  slots'[plan][best] \in Slot
  <2>1. plan \in PlanIds /\ best \in Entries /\ ~stale /\ slots[plan][best] \in Slot
    BY <1>1, <1>3 DEF LocalsInv
  <2>2. CASE plan = id /\ best = k
    <3>1. slot \in Slot
      BY <1>1, <1>3, <2>1, <2>2
    <3> QED BY <1>1, <2>1, <2>2, <3>1 DEF SettingsInv
  <2>3. CASE ~(plan = id /\ best = k)
    BY <1>1, <2>1, <2>3 DEF SettingsInv
  <2> QED BY <2>2, <2>3
<1> QED BY <1>1, <1>2, <1>3 DEF LocalsInv

LEMMA DecideLocals ==
    ASSUME LocalsInv, zone < ZONES, NEW order \in Nat, Decide(order)
    PROVE  LocalsInv'
<1>1. zone' \in 0 .. ZONES
  BY ConstantsAssumption DEF Decide, LocalsInv
<1>2. /\ pc' = "zone" /\ plan' = NULL /\ best' = NULL /\ stale' = FALSE
      /\ wanted' \in Nat /\ place' = 0 /\ place' \in 0 .. PLANNINGS
      /\ entry' \in 0 .. SLOTS /\ gap' \in 0 .. WEEK
  BY ConstantsAssumption DEF Decide, NoSearch
<1>3. current' \in [Zones -> Nat]
  BY DEF Decide, LocalsInv
<1> QED BY <1>1, <1>2, <1>3 DEF Decide, LocalsInv

LEMMA MainLocals ==
    ASSUME SettingsInv, PlanningsInv, LocalsInv, MainStep
    PROVE  LocalsInv'
<1> USE DEF LocalsInv
<1>1. CASE Start \/ ReadOverride
  BY <1>1, OrdersTyped, Sizes DEF Start, ReadOverride, SettingsInv, settings, search
<1>2. CASE OverrideZone
  BY <1>2, DecideLocals DEF OverrideZone, Known
<1>3. CASE ReadMode
  BY <1>3 DEF ReadMode, settings, pass, search
<1>4. CASE FixedZone
  <2>1. data[zone] \in Nat /\ zone < ZONES
    BY <1>4, Sizes DEF FixedZone, SettingsInv, Zones
  <2> QED BY <1>4, <2>1, DecideLocals DEF FixedZone
<1>5. CASE CallFind
  <2>1. wanted' \in Nat /\ pc = "find" /\ pc' = "look"
    BY <1>5, Sizes DEF CallFind, SettingsInv, Zones
  <2> QED BY <1>5, <2>1 DEF CallFind, settings, pass
<1>16. CASE LoadPlanning
  <2>1. plan' \in PlanIds /\ pc = "look" /\ pc' = "match" /\ place < PLANNINGS
    BY <1>16, Sizes DEF LoadPlanning, SettingsInv, Places
  <2> QED BY <1>16, <2>1 DEF LoadPlanning, settings, pass
<1>17. ASSUME NextPlace, pc \in {"look", "match"}, place < PLANNINGS PROVE LocalsInv'
  <2>1. place' \in 0 .. PLANNINGS
    BY <1>17, Sizes DEF NextPlace
  <2> QED BY <1>17, <2>1 DEF NextPlace, settings, pass
<1>18. ASSUME Found, pc = "match" PROVE LocalsInv'
  <2>1. /\ wanted' \in Nat /\ place' = 0 /\ place' \in 0 .. PLANNINGS /\ entry' \in 0 .. SLOTS
        /\ gap' \in 0 .. WEEK /\ best' = NULL /\ stale' \in BOOLEAN
    <3>1. /\ wanted' = 0 /\ place' = 0 /\ entry' = 0
          /\ gap' = WEEK /\ best' = NULL /\ stale' = FALSE
      BY <1>18 DEF Found
    <3>2. wanted' \in Nat /\ place' \in 0 .. PLANNINGS /\ entry' \in 0 .. SLOTS /\ gap' \in 0 .. WEEK
      BY <3>1, Sizes
    <3>3. stale' \in BOOLEAN
      BY <3>1
    <3> QED BY <3>1, <3>2, <3>3
  <2>2. pc' = "scan" /\ UNCHANGED <<settings, current, clock, now, over, sent, zone, plan>>
    BY <1>18 DEF Found, pass
  <2> QED BY <1>18, <2>1, <2>2
<1>19. CASE SkipPlace
  BY <1>17, <1>19 DEF SkipPlace
<1>20. CASE MatchPlanning
  BY <1>17, <1>18, <1>20 DEF MatchPlanning
<1>21. CASE MatchFreed
  BY <1>17, <1>18, <1>21 DEF MatchFreed
<1>6. CASE NoPlanning
  BY <1>6, OrdersTyped, DecideLocals DEF NoPlanning
<1>7. CASE ScanSlot
  <2>1. entry \in Entries /\ entry + 1 \in 0 .. SLOTS
    BY <1>7, Sizes DEF ScanSlot, Entries
  <2>. plan \in PlanIds
    BY <1>7 DEF ScanSlot
  <2>2. slots[plan][entry] \in Slot \cup {NULL}
    BY <1>7, <2>1 DEF ScanSlot, SettingsInv
  <2>3. CASE UNCHANGED <<gap, best, stale>>
    BY <1>7, <2>1, <2>3 DEF ScanSlot, settings, pass
  <2>4. CASE /\ slots[plan][entry] # NULL /\ Retained(now - slots[plan][entry].start, gap)
             /\ gap' = now - slots[plan][entry].start /\ best' = entry /\ stale' = FALSE
    <3>1. slots[plan][entry] \in Slot /\ slots[plan][entry].start \in Times
      BY <2>2, <2>4, ConstantsAssumption DEF Slot
    <3>2. gap' \in 0 .. WEEK
      BY <2>4, <3>1, ConstantsAssumption DEF Retained, Times
    <3> QED BY <1>7, <2>1, <2>4, <3>1, <3>2 DEF ScanSlot, settings, pass
  <2> QED BY <1>7, <2>3, <2>4 DEF ScanSlot
<1>8. CASE ScanFreed
  <2>1. entry \in Entries /\ entry + 1 \in 0 .. SLOTS
    BY <1>8, Sizes DEF ScanFreed, Entries
  <2>2. UNCHANGED <<gap, best, stale>> \/ (gap' \in 0 .. WEEK /\ best' = entry /\ stale' = TRUE)
    BY <1>8, Sizes DEF ScanFreed
  <2>3. best' \in Entries \cup {NULL} /\ gap' \in 0 .. WEEK /\ stale' \in BOOLEAN
    BY <2>1, <2>2
  <2>4. /\ UNCHANGED <<clock, now, current, pc, over, sent, zone, wanted, place, plan, slots>>
        /\ pc = "scan" /\ entry' = entry + 1
    BY <1>8 DEF ScanFreed, settings, pass
  <2>5. plan # NULL /\ best' # NULL /\ ~stale' => slots[plan][best'] \in Slot
    BY <2>2
  <2> QED BY <2>1, <2>3, <2>4, <2>5
<1>9. CASE EndScan
  BY <1>9 DEF EndScan, settings, pass, search
<1>10. CASE TakeOrder
  <2>1. pc = "take" /\ best # NULL /\ ~stale
    BY <1>10 DEF TakeOrder
  <2>2. plan # NULL /\ zone < ZONES
    BY <2>1, OrdersTyped, Nulls
  <2>3. slots[plan][best] \in Slot
    BY <2>1, <2>2
  <2>4. slots[plan][best].order \in Nat
    BY <2>3, OrdersTyped DEF Slot
  <2> QED BY <1>10, <2>2, <2>4, DecideLocals DEF TakeOrder
<1>11. CASE NoSlot
  BY <1>11, OrdersTyped, DecideLocals DEF NoSlot
<1>12. CASE TakeFreed
  <2>1. PICK order \in Garbage : Decide(order)
    BY <1>12 DEF TakeFreed
  <2>2. order \in Nat /\ zone < ZONES
    BY <1>12, ConstantsAssumption DEF TakeFreed
  <2> QED BY <2>1, <2>2, DecideLocals
<1>13. CASE Panic
  BY <1>13 DEF Panic, settings, pass, search
<1>14. CASE Apply
  BY <1>14 DEF Apply, settings, pass, search
<1>15. CASE Sleep
  <2>1. /\ UNCHANGED <<clock, current, wanted, place, plan, entry, gap, best, stale, slots>>
        /\ pc = "apply" /\ pc' = "start" /\ now' = 0 /\ over' = FALSE /\ sent' = COZY /\ zone' = 0
    BY <1>15 DEF Sleep, settings, search
  <2>2. now' \in Times /\ sent' \in Known /\ zone' \in 0 .. ZONES
    BY <2>1, OrdersTyped, Sizes
  <2>3. over' \in BOOLEAN
    BY <2>1
  <2> QED BY <2>1, <2>2, <2>3
<1> QED
  BY <1>1, <1>2, <1>3, <1>4, <1>5, <1>6, <1>7, <1>8, <1>9, <1>10, <1>11, <1>12, <1>13, <1>14, <1>15,
     <1>16, <1>19, <1>20, <1>21 DEF MainStep

\* A write that is no write of a slot.
LEMMA PlainWriteLocals ==
    ASSUME LocalsInv, UNCHANGED <<current, clock, locals, slots, stale>>
    PROVE  LocalsInv'
BY DEF LocalsInv, locals, pass, search

LEMMA LocalsStep ==
    ASSUME TypeInv, [Next]_vars
    PROVE  LocalsInv'
<1> USE DEF TypeInv
<1>1. CASE MainStep
  BY <1>1, MainLocals
<1>2. CASE Tick \/ UNCHANGED vars
  <2>1. clock' \in Times
    BY <1>2, Sizes DEF Tick, LocalsInv, vars
  <2> QED
    BY <1>2, <2>1 DEF Tick, LocalsInv, vars, settings, locals, pass, search
<1>3. CASE GetZones
  <2>1. /\ UNCHANGED <<clock, now, current, over, sent, zone, slots>>
        /\ pc' = "down" /\ wanted' = 0 /\ place' = 0 /\ plan' = NULL
        /\ entry' = 0 /\ gap' = WEEK /\ best' = NULL /\ stale' = FALSE
    BY <1>3 DEF GetZones, NoSearch, settings, pass
  <2>2. entry' \in 0 .. SLOTS /\ gap' \in 0 .. WEEK /\ place' \in 0 .. PLANNINGS /\ wanted' \in Nat
    BY <2>1, Sizes
  <2>3. stale' \in BOOLEAN
    BY <2>1
  <2> QED BY <2>1, <2>2, <2>3 DEF LocalsInv
<1>4. CASE WriteData \/ WriteForced \/ ReleaseZone \/ ReleaseData \/ FreePlanning
  BY <1>4, PlainWriteLocals DEF WriteData, WriteForced, ReleaseZone, ReleaseData, FreePlanning, Writes
<1>5. CASE AddFirstSlot
  <2>1. job.value \in PlanIds /\ 0 \in Entries
    BY <1>5, JobTypes, ConstantsAssumption DEF AddFirstSlot, SettingsInv, Entries
  <2>2. [start |-> 0, order |-> COZY] \in Slot
    BY ConstantsAssumption DEF Slot
  <2> QED BY <1>5, <2>1, <2>2, WriteSlotLocals DEF AddFirstSlot
<1>6. CASE FreeSlot
  <2>1. job.value \in PlanIds
    BY <1>6, JobTypes DEF FreeSlot, SettingsInv
  <2>2. PICK k \in Entries : WriteSlot(job.value, k, FREED, TRUE)
    BY <1>6 DEF FreeSlot, Entered
  <2> QED BY <2>1, <2>2, WriteSlotLocals
<1>7. CASE ClearEntry
  <2>1. job.value \in PlanIds /\ job.at \in Entries
    BY <1>7, JobTypes DEF ClearEntry, SettingsInv
  <2>2. slots[job.value][job.at] = FREED
    BY <1>7 DEF ClearEntry, PlanningsInv
  <2> QED BY <1>7, <2>1, <2>2, Nulls, WriteSlotLocals DEF ClearEntry
<1>8. ASSUME NEW z \in Zones, NEW order \in Orders, SetFixed(z, order)
      PROVE  LocalsInv'
  BY <1>8, PlainWriteLocals DEF SetFixed, SetMode, Writes
<1>9. ASSUME NEW z \in Zones, NEW id \in PlanIds, SetPlanning(z, id)
      PROVE  LocalsInv'
  BY <1>9, PlainWriteLocals DEF SetPlanning, SetMode, Writes
<1>10. ASSUME (\E order \in Orders : EnableOverride(order)) \/ DisableOverride
       PROVE  LocalsInv'
  BY <1>10, PlainWriteLocals DEF EnableOverride, DisableOverride, SetOverride, Writes
<1>11. ASSUME NEW id \in PlanIds, AddPlanning(id) \/ RemovePlanning(id)
       PROVE  LocalsInv'
  BY <1>11, PlainWriteLocals DEF AddPlanning, RemovePlanning, Writes
<1>12. ASSUME NEW id \in PlanIds, NEW start \in Starts, NEW order \in Orders,
              AddSlot(id, [start |-> start, order |-> order])
       PROVE  LocalsInv'
  <2>1. PICK k \in Entries : WriteSlot(id, k, [start |-> start, order |-> order], FALSE)
    BY <1>12 DEF AddSlot
  <2>2. [start |-> start, order |-> order] \in Slot
    BY DEF Slot
  <2> QED BY <2>1, <2>2, WriteSlotLocals
<1>13. ASSUME NEW id \in PlanIds, NEW k \in Entries, NEW start \in Starts, MoveSlot(id, k, start)
       PROVE  LocalsInv'
  <2>1. [slots[id][k] EXCEPT !.start = start] \in Slot
    BY <1>13, MoveSlotStep
  <2> QED BY <1>13, <2>1, WriteSlotLocals DEF MoveSlot
<1>14. ASSUME NEW id \in PlanIds, NEW k \in Entries, RemoveSlot(id, k)
       PROVE  LocalsInv'
  BY <1>14, WriteSlotLocals DEF RemoveSlot
<1> QED
  BY <1>1, <1>2, <1>3, <1>4, <1>5, <1>6, <1>7, <1>8, <1>9, <1>10, <1>11, <1>12, <1>13, <1>14
     DEF Next, GoOn, Request

LEMMA TypeStep == TypeInv /\ [Next]_vars => TypeInv'
BY SettingsStep, LocalsStep DEF TypeInv
-----------------------------------------------------------------------------
(* The order a zone is due.                                                *)

\* Due of the values it depends on.
DueOf(flag, order, zmode, zdata, listed, array, time) ==
    LET used == {k \in Entries : array[k] # NULL}
        Latest(k) == /\ k \in used
                     /\ array[k].start <= time
                     /\ \A other \in used : array[other].start \notin array[k].start + 1 .. time
    IN IF flag THEN order
       ELSE IF zmode = "fixed" THEN zdata
       ELSE IF listed /\ \E k \in Entries : Latest(k)
            THEN array[CHOOSE k \in Entries : Latest(k)].order
            ELSE COZY

\* What does not change leaves an order as it is due.
LEMMA DueUnchanged ==
    ASSUME NEW z, UNCHANGED <<active, forced, now>>,
           ~active => UNCHANGED <<mode[z], data[z]>>,
           ~active /\ mode[z] # "fixed" =>
               /\ IsListed(data[z])' = IsListed(data[z])
               /\ IsListed(data[z]) => UNCHANGED slots[data[z]]
    PROVE  Due(z, now)' = Due(z, now)
<1>1. /\ Due(z, now) = DueOf(active, forced, mode[z], data[z], IsListed(data[z]), slots[data[z]], now)
      /\ Due(z, now)' = DueOf(active', forced', mode[z]', data[z]', IsListed(data[z])', slots[data[z]]', now')
  BY DEF Due, DueOf, IsLatest, Entered
<1>2. CASE active \/ mode[z] = "fixed"
  BY <1>1, <1>2 DEF DueOf
<1>3. CASE ~active /\ mode[z] # "fixed" /\ IsListed(data[z])
  <2>1. slots[data[z]]' = slots[data[z]]
    BY <1>3
  <2> QED BY <1>1, <1>3, <2>1
<1>4. CASE ~active /\ mode[z] # "fixed" /\ ~IsListed(data[z])
  BY <1>1, <1>4 DEF DueOf
<1> QED BY <1>2, <1>3, <1>4

LEMMA DueSame ==
    ASSUME UNCHANGED <<settings, now>>
    PROVE  \A z : Due(z, now)' = Due(z, now)
<1> TAKE z
<1>1. UNCHANGED <<active, forced, now, mode[z], data[z], slots[data[z]]>>
  BY DEF settings
<1>2. IsListed(data[z])' = IsListed(data[z])
  BY DEF settings, list, IsListed
<1> QED BY <1>1, <1>2, DueUnchanged
-----------------------------------------------------------------------------
(* The httpd task: what is written is known to be.                         *)

\* A step that changes no settings but what it says.
OnlyWrites(what) ==
    /\ touched' = touched \cup {what}
    /\ UNCHANGED <<current, pc, pass, search>>
    /\ what # <<"override", 0>> => UNCHANGED <<active, forced>>
    /\ \A z \in Zones : what # <<"zone", z>> => UNCHANGED <<mode[z], data[z]>>
    /\ \A id \in Nat, k \in Places : what # <<"plan", id>> => (plannings'[k] = id <=> plannings[k] = id)
    /\ \A id \in PlanIds : what # <<"plan", id>> => UNCHANGED slots[id]
    /\ \A id \in PlanIds : what # <<"freed", id>> => (memory'[id] = "freed" <=> memory[id] = "freed")
    /\ what # <<"plan", plan>> => stale' = stale

\* A planning that is listed stays on the list unless it is written, and so does
\* one that is not.
LEMMA ListedUnchanged ==
    ASSUME NEW what, OnlyWrites(what), NEW id \in Nat, what # <<"plan", id>>
    PROVE  IsListed(id)' = IsListed(id)
BY DEF OnlyWrites, IsListed

\* A planning on the list is one of the plannings.
LEMMA ListedKnown == SettingsInv => \A id \in Nat : IsListed(id) => id \in PlanIds
BY Nulls DEF SettingsInv, IsListed

\* Orders that were due, and still count, are still due.
LEMMA WrittenExact ==
    ASSUME SettingsInv, NEW what, OnlyWrites(what), NEW z \in Zones, Exact(z)
    PROVE  Exact(z)'
<1> SUFFICES ASSUME Undisturbed(z)' PROVE current'[z] = Due(z, now)'
  BY DEF Exact
<1>1. touched' = touched \cup {what} /\ UNCHANGED <<current, now>>
  BY DEF OnlyWrites, pass
<1>2. <<"override", 0>> \notin touched /\ what # <<"override", 0>>
  BY <1>1 DEF Undisturbed
<1>3. UNCHANGED <<active, forced>>
  BY <1>2 DEF OnlyWrites
<1>4. ~active => <<"zone", z>> \notin touched /\ UNCHANGED <<mode[z], data[z]>>
  <2> SUFFICES ASSUME ~active PROVE <<"zone", z>> \notin touched /\ UNCHANGED <<mode[z], data[z]>>
    OBVIOUS
  <2>1. what # <<"zone", z>> /\ <<"zone", z>> \notin touched
    BY <1>1, <1>3 DEF Undisturbed
  <2> QED BY <2>1 DEF OnlyWrites
<1>5. ~active /\ mode[z] = "planning" =>
         /\ <<"plan", data[z]>> \notin touched /\ what # <<"plan", data[z]>>
         /\ ~\E id \in PlanIds : Vanished(id)
  <2> SUFFICES ASSUME ~active, mode[z] = "planning"
               PROVE  /\ <<"plan", data[z]>> \notin touched /\ what # <<"plan", data[z]>>
                      /\ ~\E id \in PlanIds : Vanished(id)
    OBVIOUS
  <2>1. <<"plan", data[z]>> \notin touched' /\ ~\E id \in PlanIds : Vanished(id)'
    BY <1>3, <1>4 DEF Undisturbed
  <2>2. \A id : Vanished(id) => Vanished(id)'
    BY <1>1 DEF Vanished
  <2> QED BY <1>1, <2>1, <2>2
<1>6. Undisturbed(z)
  BY <1>2, <1>4, <1>5 DEF Undisturbed
<1>7. ~active /\ mode[z] # "fixed" =>
         /\ IsListed(data[z])' = IsListed(data[z])
         /\ IsListed(data[z]) => UNCHANGED slots[data[z]]
  <2> SUFFICES ASSUME ~active, mode[z] # "fixed"
               PROVE  /\ IsListed(data[z])' = IsListed(data[z])
                      /\ IsListed(data[z]) => UNCHANGED slots[data[z]]
    OBVIOUS
  <2>1. mode[z] = "planning" /\ data[z] \in Nat
    BY DEF SettingsInv
  <2>2. what # <<"plan", data[z]>> /\ UNCHANGED data[z]
    BY <1>4, <1>5, <2>1
  <2>3. IsListed(data[z])' = IsListed(data[z])
    <3>1. \A k \in Places : plannings'[k] = data[z] <=> plannings[k] = data[z]
      BY <2>1, <2>2 DEF OnlyWrites
    <3> QED BY <2>2, <3>1 DEF IsListed
  <2>4. ASSUME IsListed(data[z]) PROVE UNCHANGED slots[data[z]]
    <3>1. data[z] \in PlanIds
      BY <2>1, <2>4, ListedKnown
    <3> QED BY <2>2, <3>1 DEF OnlyWrites
  <2> QED BY <2>3, <2>4
<1>8. Due(z, now)' = Due(z, now)
  BY <1>1, <1>3, <1>4, <1>7, DueUnchanged
<1> QED BY <1>1, <1>6, <1>8 DEF Exact

LEMMA WrittenKnown ==
    ASSUME TypeInv, OverrideInv, ZoneInv, LookInv, ScanInv, ExactInv, NEW what, OnlyWrites(what)
    PROVE  OverrideInv' /\ ZoneInv' /\ LookInv' /\ ScanInv' /\ ExactInv'
<1>1. /\ touched' = touched \cup {what}
      /\ UNCHANGED <<pc, now, over, sent, zone, wanted, place, plan, entry, gap, best>>
  BY DEF OnlyWrites, pass, search
<1>2. OverrideInv'
  BY <1>1 DEF OnlyWrites, OverrideInv
<1>3. ZoneInv'
  <2> SUFFICES ASSUME <<"zone", zone>> \notin touched', pc \in {"fixed", "find", "look", "match", "scan", "take"}
               PROVE  ZoneInv'
    BY <1>1 DEF ZoneInv
  <2>1. zone \in Zones
    BY Sizes DEF TypeInv, LocalsInv, Zones
  <2>2. UNCHANGED <<mode[zone], data[zone]>>
    BY <1>1, <2>1 DEF OnlyWrites
  <2>3. \A id : Vanished(id) => Vanished(id)'
    BY <1>1 DEF Vanished
  <2> QED BY <1>1, <2>2, <2>3 DEF ZoneInv
<1>4. ScanInv'
  <2> SUFFICES ASSUME <<"plan", plan>> \notin touched', pc \in {"scan", "take"}
               PROVE  ScanInv'
    BY <1>1 DEF ScanInv
  <2>1. plan \in PlanIds /\ plan \in Nat /\ what # <<"plan", plan>>
    BY <1>1, OrdersTyped DEF TypeInv, LocalsInv
  <2>2. UNCHANGED <<slots[plan], stale>>
    BY <1>1, <2>1 DEF OnlyWrites
  <2>3. IsListed(plan)' = IsListed(plan)
    BY <1>1, <2>1 DEF OnlyWrites, IsListed
  <2> QED BY <1>1, <2>2, <2>3 DEF ScanInv
<1>5. ExactInv'
  <2> SUFFICES ASSUME pc \notin {"start", "override", "down"}, NEW z \in 0 .. zone - 1
               PROVE  Exact(z)'
    BY <1>1 DEF ExactInv
  <2>1. z \in Zones
    BY Sizes DEF TypeInv, LocalsInv, Zones
  <2> QED BY <2>1, WrittenExact DEF ExactInv, TypeInv
<1>6. LookInv'
  <2>1. ASSUME pc = "match", <<"plan", plan>> \notin touched' PROVE IsListed(plan)'
    <3>1. plan \in Nat /\ what # <<"plan", plan>> /\ IsListed(plan)
      BY <1>1, <2>1, OrdersTyped DEF TypeInv, LocalsInv, LookInv
    <3> QED BY <1>1, <3>1 DEF OnlyWrites, IsListed
  <2>2. ASSUME pc = "match", <<"freed", plan>> \notin touched' PROVE memory'[plan] # "freed"
    BY <1>1, <2>2 DEF TypeInv, LocalsInv, LookInv, OnlyWrites
  <2>3. ASSUME pc \in {"look", "match"}, <<"plan", wanted>> \notin touched',
               NEW k \in Places, plannings'[k] = wanted
        PROVE  place <= k /\ (pc = "match" /\ k = place => plan = wanted)
    <3>1. wanted \in Nat /\ what # <<"plan", wanted>> /\ plannings[k] = wanted
      BY <1>1, <2>3 DEF TypeInv, LocalsInv, OnlyWrites
    <3> QED BY <1>1, <2>3, <3>1 DEF LookInv
  <2> QED BY <1>1, <2>1, <2>2, <2>3 DEF LookInv
<1> QED BY <1>2, <1>3, <1>4, <1>5, <1>6

LEMMA SlotWritten ==
    ASSUME SettingsInv, LocalsInv, NEW id \in PlanIds, NEW k \in Entries, NEW slot, NEW frees \in BOOLEAN,
           WriteSlot(id, k, slot, frees)
    PROVE  OnlyWrites(<<"plan", id>>)
<1>1. /\ touched' = touched \cup {<<"plan", id>>}
      /\ UNCHANGED <<current, pc, pass, search>>
      /\ UNCHANGED <<mode, data, active, forced, plannings, memory>>
      /\ slots' = [slots EXCEPT ![id][k] = slot]
      /\ stale' = (stale \/ (frees /\ plan = id /\ best = k))
  BY DEF WriteSlot, Writes, locals, list
<1>2. \A other \in PlanIds : <<"plan", id>> # <<"plan", other>> => slots'[other] = slots[other]
  BY <1>1 DEF SettingsInv
<1>3. ASSUME <<"plan", id>> # <<"plan", plan>> PROVE stale' = stale
  <2>1. plan # id
    BY <1>3
  <2> QED BY <1>1, <2>1, Zenon DEF LocalsInv
<1> QED BY <1>1, <1>2, <1>3 DEF OnlyWrites

LEMMA ZoneWritten ==
    ASSUME SettingsInv, NEW z \in Zones, Writes(<<"zone", z>>), NEW v, NEW w,
           \/ mode' = [mode EXCEPT ![z] = v] /\ data' = data
           \/ data' = [data EXCEPT ![z] = w] /\ mode' = mode,
           UNCHANGED <<active, forced, list, slots, stale>>
    PROVE  OnlyWrites(<<"zone", z>>)
<1>1. \A other \in Zones : <<"zone", z>> # <<"zone", other>> => UNCHANGED <<mode[other], data[other]>>
  BY DEF SettingsInv
<1> QED BY <1>1 DEF Writes, locals, list, OnlyWrites

LEMMA OverrideWritten ==
    ASSUME Writes(<<"override", 0>>), UNCHANGED <<mode, data, list, slots, stale>>
    PROVE  OnlyWrites(<<"override", 0>>)
BY DEF Writes, locals, list, OnlyWrites

LEMMA AddPlanningWritten ==
    ASSUME SettingsInv, NEW id \in PlanIds, AddPlanning(id)
    PROVE  OnlyWrites(<<"plan", id>>)
<1>1. PICK k \in Places : plannings[k] = NULL /\ plannings' = [plannings EXCEPT ![k] = id]
  BY DEF AddPlanning
<1>2. /\ memory' = [memory EXCEPT ![id] = "held"] /\ memory[id] = "none"
      /\ UNCHANGED <<mode, data, active, forced, slots, stale>>
      /\ Writes(<<"plan", id>>)
  BY DEF AddPlanning
<1>3. \A other \in Nat, l \in Places :
         <<"plan", id>> # <<"plan", other>> => (plannings'[l] = other <=> plannings[l] = other)
  BY <1>1, Nulls DEF SettingsInv
<1>4. \A other \in PlanIds : memory'[other] = "freed" <=> memory[other] = "freed"
  BY <1>2 DEF SettingsInv
<1> QED BY <1>2, <1>3, <1>4 DEF Writes, locals, OnlyWrites

LEMMA RemovePlanningWritten ==
    ASSUME SettingsInv, NEW id \in PlanIds, RemovePlanning(id)
    PROVE  OnlyWrites(<<"plan", id>>)
<1>1. PICK k \in Places : plannings[k] = id /\ plannings' = [plannings EXCEPT ![k] = NULL]
  BY DEF RemovePlanning
<1>2. /\ UNCHANGED <<mode, data, active, forced, memory, slots, stale>>
      /\ Writes(<<"plan", id>>)
  BY DEF RemovePlanning
<1>3. \A other \in Nat, l \in Places :
         <<"plan", id>> # <<"plan", other>> => (plannings'[l] = other <=> plannings[l] = other)
  BY <1>1, Nulls DEF SettingsInv
<1> QED BY <1>2, <1>3 DEF Writes, locals, OnlyWrites

LEMMA FreePlanningWritten ==
    ASSUME SettingsInv, FreePlanning
    PROVE  OnlyWrites(<<"freed", job.value>>)
<1>1. /\ memory' = [memory EXCEPT ![job.value] = "freed"]
      /\ UNCHANGED <<mode, data, active, forced, plannings, slots, stale>>
      /\ Writes(<<"freed", job.value>>)
  BY DEF FreePlanning
<1>2. \A id \in PlanIds :
         <<"freed", job.value>> # <<"freed", id>> => (memory'[id] = "freed" <=> memory[id] = "freed")
  BY <1>1 DEF SettingsInv
<1> QED BY <1>1, <1>2 DEF Writes, locals, OnlyWrites

\* Every step of the httpd task is one write of one setting.
LEMMA HttpdWrites ==
    ASSUME TypeInv, GoOn \/ (Request /\ ~GetZones)
    PROVE  \E what : OnlyWrites(what)
<1> USE DEF TypeInv
<1>1. CASE WriteData
  BY <1>1, JobTypes, ZoneWritten DEF WriteData, SettingsInv
<1>2. CASE WriteForced
  BY <1>2, OverrideWritten DEF WriteForced
<1>3. CASE AddFirstSlot
  <2>1. job.value \in PlanIds /\ 0 \in Entries
    BY <1>3, JobTypes, Sizes DEF AddFirstSlot, SettingsInv, Entries
  <2> QED BY <1>3, <2>1, SlotWritten DEF AddFirstSlot
<1>4. CASE FreeSlot
  <2>1. job.value \in PlanIds
    BY <1>4, JobTypes DEF FreeSlot, SettingsInv
  <2>2. PICK k \in Entries : WriteSlot(job.value, k, FREED, TRUE)
    BY <1>4 DEF FreeSlot, Entered
  <2> QED BY <2>1, <2>2, SlotWritten
<1>5. CASE ClearEntry
  <2>1. job.value \in PlanIds /\ job.at \in Entries
    BY <1>5, JobTypes DEF ClearEntry, SettingsInv
  <2> QED BY <1>5, <2>1, SlotWritten DEF ClearEntry
<1>6. CASE ReleaseZone
  <2>1. PICK z \in Zones : Writes(<<"zone", z>>) /\ mode' = [mode EXCEPT ![z] = "fixed"]
    BY <1>6 DEF ReleaseZone, Followers
  <2> QED BY <1>6, <2>1, ZoneWritten DEF ReleaseZone
<1>7. CASE ReleaseData
  BY <1>7, JobTypes, ZoneWritten DEF ReleaseData, SettingsInv
<1>8. CASE FreePlanning
  BY <1>8, FreePlanningWritten
<1>9. ASSUME NEW z \in Zones, NEW new, NEW value, SetMode(z, new, value)
      PROVE  \E what : OnlyWrites(what)
  BY <1>9, ZoneWritten DEF SetMode
<1>10. ASSUME NEW flag, NEW order, SetOverride(flag, order)
       PROVE  \E what : OnlyWrites(what)
  BY <1>10, OverrideWritten DEF SetOverride
<1>11. ASSUME NEW id \in PlanIds, AddPlanning(id) \/ RemovePlanning(id)
       PROVE  \E what : OnlyWrites(what)
  BY <1>11, AddPlanningWritten, RemovePlanningWritten
<1>12. ASSUME NEW id \in PlanIds, NEW slot, AddSlot(id, slot)
       PROVE  \E what : OnlyWrites(what)
  BY <1>12, SlotWritten DEF AddSlot
<1>13. ASSUME NEW id \in PlanIds, NEW k \in Entries, NEW start, MoveSlot(id, k, start)
       PROVE  \E what : OnlyWrites(what)
  BY <1>13, SlotWritten DEF MoveSlot
<1>14. ASSUME NEW id \in PlanIds, NEW k \in Entries, RemoveSlot(id, k)
       PROVE  \E what : OnlyWrites(what)
  BY <1>14, SlotWritten DEF RemoveSlot
<1>15. CASE GoOn
  BY <1>15, <1>1, <1>2, <1>3, <1>4, <1>5, <1>6, <1>7, <1>8 DEF GoOn
<1>16. CASE Request /\ ~GetZones
  BY <1>16, <1>9, <1>10, <1>11, <1>12, <1>13, <1>14
     DEF Request, SetFixed, SetPlanning, EnableOverride, DisableOverride
<1> QED BY <1>15, <1>16

-----------------------------------------------------------------------------
(* The main task: what is read, and what comes of it.                      *)

\* A zone gets the order it is due, if nothing it depends on was written.
LEMMA DecideExact ==
    ASSUME TypeInv, ExactInv, pc \notin {"start", "override", "down"}, zone < ZONES, NEW order, Decide(order),
           Undisturbed(zone) => order = Due(zone, now)
    PROVE  ExactInv'
<1>1. /\ UNCHANGED <<settings, now, touched>>
      /\ current' = [current EXCEPT ![zone] = order]
      /\ zone' = zone + 1
  BY DEF Decide
<1>2. zone \in Zones
  BY Sizes DEF TypeInv, LocalsInv, Zones
<1> SUFFICES ASSUME NEW z \in 0 .. zone, Undisturbed(z)'
             PROVE  current'[z] = Due(z, now)'
  BY <1>1, <1>2, Sizes DEF ExactInv, Exact, Zones
<1>3. Undisturbed(z)
  BY <1>1 DEF settings, Undisturbed, Vanished
<1>4. Due(z, now)' = Due(z, now)
  BY <1>1, DueSame
<1>5. CASE z = zone
  BY <1>1, <1>2, <1>3, <1>4, <1>5 DEF TypeInv, LocalsInv
<1>6. CASE z # zone
  <2>1. z \in 0 .. zone - 1
    BY <1>2, <1>6, Sizes DEF Zones
  <2>2. current[z] = Due(z, now)
    BY <1>3, <2>1 DEF ExactInv, Exact
  <2>3. current'[z] = current[z]
    BY <1>1, <1>2, <1>6, <2>1, Sizes DEF TypeInv, LocalsInv, Zones
  <2> QED BY <1>4, <2>2, <2>3
<1> QED BY <1>5, <1>6

\* Two slots of a listed planning are not both the latest.
LEMMA LatestUnique ==
    ASSUME TypeInv, NEW id \in PlanIds, IsListed(id), NEW k \in Entries, NEW l \in Entries,
           IsLatest(id, k, now), IsLatest(id, l, now)
    PROVE  k = l
<1>1. /\ slots[id][k] \in Slot /\ slots[id][l] \in Slot
      /\ slots[id][k].start \in Int /\ slots[id][l].start \in Int /\ now \in Int
  <2>1. slots[id][k] \in Slot /\ slots[id][l] \in Slot
    BY DEF TypeInv, SettingsInv, PlanningsInv, IsLatest, Entered
  <2> QED BY <2>1, SlotStarts, Sizes DEF Times, TypeInv, LocalsInv
<1>2. slots[id][k].start = slots[id][l].start
  BY <1>1 DEF IsLatest
<1> QED BY <1>2 DEF TypeInv, PlanningsInv, IsLatest

LEMMA TakeOrderExact ==
    ASSUME TypeInv, ScanInv, pc = "take", best # NULL, ~active,
           mode[zone] = "planning", data[zone] = plan, <<"plan", plan>> \notin touched
    PROVE  slots[plan][best].order = Due(zone, now)
<1>1. /\ plan \in PlanIds /\ best \in Entries /\ entry = SLOTS /\ now \in Int
      /\ IsListed(plan) /\ ~stale
      /\ gap = now - slots[plan][best].start /\ gap \in 0 .. WEEK
  BY DEF TypeInv, LocalsInv, Times, ScanInv
<1>2. slots[plan][best] \in Slot
  BY <1>1, OrdersTyped, Nulls DEF TypeInv, LocalsInv
<1>3. slots[plan][best].start \in Int /\ slots[plan][best].start <= now
  BY <1>1, <1>2, Sizes, SlotStarts
<1>4. ASSUME NEW other \in Entered(plan)
      PROVE  slots[plan][other].start \notin slots[plan][best].start + 1 .. now
  <2>1. other \in 0 .. entry - 1 /\ slots[plan][other] # NULL
    BY <1>1, <1>4 DEF Entered, Entries
  <2>2. slots[plan][other] \in Slot
    BY <1>1, <1>4 DEF Entered, TypeInv, SettingsInv, PlanningsInv
  <2>3. slots[plan][other].start \in Int
    BY <2>2, SlotStarts
  <2>4. slots[plan][other].start <= now => gap <= now - slots[plan][other].start
    BY <2>1 DEF ScanInv
  <2> QED BY <1>1, <1>3, <2>3, <2>4
<1>5. IsLatest(plan, best, now)
  BY <1>1, <1>2, <1>3, <1>4, Nulls DEF IsLatest, Entered
<1>6. (CHOOSE k \in Entries : IsLatest(plan, k, now)) = best
  BY <1>1, <1>5, LatestUnique
<1>7. \E k \in Entries : IsLatest(data[zone], k, now)
  BY <1>1, <1>5
<1>8. Due(zone, now) = slots[data[zone]][CHOOSE k \in Entries : IsLatest(data[zone], k, now)].order
  BY <1>1, <1>7 DEF Due
<1> QED BY <1>1, <1>6, <1>8

LEMMA NoSlotExact ==
    ASSUME TypeInv, ScanInv, pc = "take", best = NULL, ~active,
           mode[zone] = "planning", data[zone] = plan, <<"plan", plan>> \notin touched
    PROVE  COZY = Due(zone, now)
<1>1. entry = SLOTS /\ mode[zone] = "planning" /\ data[zone] = plan
  BY DEF TypeInv, LocalsInv
<1>2. ~\E k \in Entries : IsLatest(plan, k, now)
  BY <1>1 DEF IsLatest, Entered, Entries, ScanInv
<1> QED BY <1>1, <1>2 DEF Due

LEMMA ScanSlotStep ==
    ASSUME TypeInv, ScanInv, ScanSlot
    PROVE  ScanInv'
<1> SUFFICES ASSUME <<"plan", plan>> \notin touched PROVE ScanInv'
  BY DEF ScanSlot, ScanInv
<1>1. /\ UNCHANGED <<slots, now, plan, pc, touched>>
      /\ pc = "scan" /\ entry < SLOTS /\ entry' = entry + 1
      /\ slots[plan][entry] # FREED
      /\ IsListed(plan)' = IsListed(plan)
  BY DEF ScanSlot, settings, list, pass, IsListed
<1>2. /\ plan \in PlanIds /\ entry \in Entries /\ gap \in Int /\ now \in Int
      /\ now < WEEK /\ WEEK \in Int
  BY <1>1, Sizes DEF TypeInv, LocalsInv, Entries, Times
<1>3. ASSUME NEW k \in 0 .. entry, slots[plan][k] # NULL
      PROVE  slots[plan][k].start \in Nat
  <2>1. k \in Entries
    BY <1>1, <1>2, Sizes DEF Entries
  <2>2. slots[plan][k] \in Slot
    BY <1>1, <1>3, <2>1, <1>2 DEF TypeInv, SettingsInv, PlanningsInv, ScanInv
  <2> QED BY <2>2, SlotStarts
<1>4. CASE /\ slots[plan][entry] # NULL /\ Retained(now - slots[plan][entry].start, gap)
           /\ gap' = now - slots[plan][entry].start /\ best' = entry /\ stale' = FALSE
  <2>1. best' # NULL
    BY <1>2, <1>4, Nulls DEF Entries
  <2> entry \in 0 .. entry
    BY <1>2, Sizes DEF Entries
  <2> slots[plan][entry].start \in Nat
    BY <1>3, <1>4
  <2>2. gap' <= gap /\ gap' \in Int
    BY <1>2, <1>4 DEF Retained
  <2>3. ASSUME NEW k \in 0 .. entry, slots[plan][k] # NULL, slots[plan][k].start <= now
        PROVE  gap' <= now - slots[plan][k].start
    <3>1. CASE k = entry
      BY <1>2, <1>3, <1>4, <2>3, <3>1
    <3>2. CASE k # entry
      <4>1. k \in 0 .. entry - 1
        BY <1>2, <3>2 DEF Entries
      <4>2. gap <= now - slots[plan][k].start
        BY <1>1, <2>3, <4>1 DEF ScanInv
      <4> QED BY <1>2, <1>3, <2>2, <2>3, <4>2
    <3> QED BY <3>1, <3>2
  <2>4. 0 .. entry' - 1 = 0 .. entry
    BY <1>1, <1>2 DEF Entries
  <2> QED BY <1>1, <1>4, <2>1, <2>3, <2>4 DEF ScanInv
<1>5. CASE /\ ~(slots[plan][entry] # NULL /\ Retained(now - slots[plan][entry].start, gap))
           /\ UNCHANGED <<gap, best, stale>>
  <2>1. ASSUME NEW k \in 0 .. entry, slots[plan][k] # NULL, slots[plan][k].start <= now
        PROVE  best # NULL /\ gap <= now - slots[plan][k].start
    <3>1. CASE k = entry
      <4>1. gap < now - slots[plan][k].start
        BY <1>2, <1>3, <1>5, <2>1, <3>1 DEF Retained
      <4>2. gap # WEEK
        BY <1>2, <1>3, <2>1, <4>1
      <4> QED BY <1>1, <1>2, <1>3, <2>1, <4>1, <4>2 DEF ScanInv
    <3>2. CASE k # entry
      <4>1. k \in 0 .. entry - 1
        BY <1>2, <3>2 DEF Entries
      <4> QED BY <1>1, <2>1, <4>1 DEF ScanInv
    <3> QED BY <3>1, <3>2
  <2>2. 0 .. entry' - 1 = 0 .. entry
    BY <1>1, <1>2 DEF Entries
  <2> QED BY <1>1, <1>5, <2>1, <2>2 DEF ScanInv
<1> QED BY <1>4, <1>5 DEF ScanSlot

\* Where no planning that the search met vanished, a planning found is the one that
\* was looked up.
LEMMA FoundRight ==
    ASSUME ZoneInv, pc \in {"scan", "take"}, ~active, Undisturbed(zone)
    PROVE  mode[zone] = "planning" /\ data[zone] = plan /\ <<"plan", plan>> \notin touched
BY DEF ZoneInv, Undisturbed

\* The search goes on from an entry that is not the one looked for.
LEMMA NextPlaceLook ==
    ASSUME TypeInv, LookInv, NextPlace, pc \in {"look", "match"}, place < PLANNINGS,
           <<"plan", wanted>> \notin touched => plannings[place] # wanted
    PROVE  LookInv'
<1>1. /\ UNCHANGED <<plannings, memory, wanted, touched>>
      /\ pc' = "look" /\ place' = place + 1
  BY DEF NextPlace, settings, list
<1>2. ASSUME <<"plan", wanted>> \notin touched, NEW k \in Places, plannings[k] = wanted
      PROVE  place + 1 <= k
  <2>1. place <= k /\ k # place
    BY <1>2 DEF LookInv
  <2> QED BY <2>1, Sizes DEF TypeInv, LocalsInv, Places
<1> QED BY <1>1, <1>2 DEF LookInv

\* A planning freed while its id was about to be read was taken off the list and
\* freed in this pass.
LEMMA FreedVanished ==
    ASSUME TypeInv, LookInv, pc = "match", memory[plan] = "freed"
    PROVE  Vanished(plan) /\ plan \in PlanIds
<1>1. plan \in PlanIds /\ ~IsListed(plan)
  BY DEF TypeInv, LocalsInv, PlanningsInv
<1> QED BY <1>1 DEF LookInv, Vanished

\* A planning whose slots are about to be scanned.
LEMMA FoundScan ==
    ASSUME TypeInv, Found, <<"plan", plan>> \in touched \/ IsListed(plan)
    PROVE  ScanInv'
<1>1. /\ UNCHANGED <<plan, touched>> /\ IsListed(plan)' = IsListed(plan)
      /\ entry' = 0 /\ gap' = WEEK /\ best' = NULL /\ stale' = FALSE
  BY DEF Found, settings, list, IsListed
<1>2. 0 .. entry' - 1 = {}
  BY <1>1
<1> QED BY <1>1, <1>2 DEF ScanInv

\* What is known of the zone at hand while its planning is looked up.
LEMMA LookZone ==
    ASSUME ZoneInv, pc \in {"look", "match"}, UNCHANGED <<mode, data, zone, touched>>
    PROVE  /\ pc' \in {"look", "match"} /\ wanted' = wanted => ZoneInv'
           /\ pc' = "scan" /\ (plan' = wanted \/ \E id \in PlanIds : Vanished(id)) => ZoneInv'
BY DEF ZoneInv, Vanished

KnownInv == OverrideInv /\ ZoneInv /\ LookInv /\ ScanInv /\ ExactInv

\* The main task gives the zone at hand an order.
LEMMA DecideKnown ==
    ASSUME IInv, NEW order, Decide(order), pc \notin {"start", "override", "down"}, zone < ZONES,
           Undisturbed(zone) => order = Due(zone, now)
    PROVE  KnownInv'
<1>1. /\ UNCHANGED <<active, forced, over, sent, touched>>
      /\ pc' = "zone"
  BY DEF Decide, settings
<1>2. OverrideInv'
  BY <1>1 DEF IInv, OverrideInv
<1>3. ZoneInv' /\ LookInv' /\ ScanInv'
  BY <1>1 DEF ZoneInv, LookInv, ScanInv
<1>4. ExactInv'
  BY DecideExact DEF IInv
<1> QED BY <1>2, <1>3, <1>4 DEF KnownInv

\* Or goes on without.
LEMMA GoOnKnown ==
    ASSUME IInv, UNCHANGED <<settings, current, now, over, sent, zone, touched>>,
           pc \notin {"start", "override", "down"}, pc' \notin {"start", "override", "down"}
    PROVE  OverrideInv' /\ ExactInv'
<1>1. OverrideInv'
  BY DEF settings, IInv, OverrideInv
<1>2. ASSUME NEW z \in 0 .. zone - 1, Exact(z)
      PROVE  Exact(z)'
  <2>1. Due(z, now)' = Due(z, now)
    BY DueSame
  <2>2. Undisturbed(z)' = Undisturbed(z)
    BY DEF settings, Undisturbed, Vanished
  <2> QED BY <1>2, <2>1, <2>2 DEF Exact
<1>3. ExactInv'
  BY <1>2 DEF IInv, ExactInv
<1> QED BY <1>1, <1>3

LEMMA SearchKnown ==
    ASSUME IInv, CallFind \/ SkipPlace \/ LoadPlanning \/ MatchPlanning \/ MatchFreed
    PROVE  KnownInv'
<1> USE DEF IInv
<1>1. /\ UNCHANGED <<settings, current, pass, touched>>
      /\ pc \in {"find", "look", "match"} /\ pc' \in {"look", "match", "scan"}
  BY DEF CallFind, NextPlace, SkipPlace, LoadPlanning, Found, MatchPlanning, MatchFreed
<1>2. UNCHANGED <<mode, data, plannings, memory, now, over, sent, zone>>
  BY <1>1 DEF settings, list, pass
<1>3. OverrideInv' /\ ExactInv'
  BY <1>1, <1>2, GoOnKnown
<1> SUFFICES ZoneInv' /\ LookInv' /\ ScanInv'
  BY <1>3 DEF KnownInv
<1>4. CASE CallFind
  <2>1. pc = "find" /\ wanted' = data[zone] /\ pc' = "look" /\ place' = 0
    BY <1>4 DEF CallFind, TypeInv, LocalsInv
  <2>2. ZoneInv' /\ ScanInv'
    BY <1>1, <1>2, <2>1 DEF ZoneInv, ScanInv
  <2>3. LookInv'
    BY <1>2, <2>1, Sizes DEF LookInv, Places
  <2> QED BY <2>2, <2>3
<1>5. ASSUME NextPlace, pc \in {"look", "match"}, place < PLANNINGS,
             <<"plan", wanted>> \notin touched => plannings[place] # wanted
      PROVE  ZoneInv' /\ LookInv' /\ ScanInv'
  <2>1. pc' = "look" /\ wanted' = wanted
    BY <1>5 DEF NextPlace
  <2>2. ZoneInv'
    BY <1>1, <1>2, <1>5, <2>1, LookZone
  <2>3. ScanInv'
    BY <2>1 DEF ScanInv
  <2> QED BY <1>5, <2>2, <2>3, NextPlaceLook
<1>6. ASSUME Found, pc = "match", plan = wanted \/ Vanished(plan)
      PROVE  ZoneInv' /\ LookInv' /\ ScanInv'
  <2>1. pc' = "scan" /\ plan' = plan /\ plan \in PlanIds
    BY <1>6 DEF Found, TypeInv, LocalsInv
  <2>2. ZoneInv'
    BY <1>1, <1>2, <1>6, <2>1, LookZone
  <2>3. <<"plan", plan>> \in touched \/ IsListed(plan)
    BY <1>6 DEF LookInv
  <2> QED BY <1>6, <2>1, <2>2, <2>3, FoundScan DEF LookInv
<1>7. CASE SkipPlace
  <2>1. wanted # NULL
    BY Nulls DEF TypeInv, LocalsInv
  <2> QED BY <1>5, <1>7, <2>1 DEF SkipPlace
<1>8. CASE LoadPlanning
  <2>1. /\ pc = "look" /\ place < PLANNINGS /\ place \in Places
        /\ plan' = plannings[place] /\ plan' \in PlanIds
        /\ pc' = "match" /\ UNCHANGED <<wanted, place>>
    BY <1>8, Sizes DEF LoadPlanning, TypeInv, LocalsInv, SettingsInv, Places
  <2>2. IsListed(plan)'
    BY <1>2, <2>1 DEF IsListed
  <2>3. memory'[plan'] # "freed"
    <3>1. IsListed(plan')
      BY <2>1 DEF IsListed
    <3> QED BY <1>2, <2>1, <3>1 DEF TypeInv, PlanningsInv
  <2>4. LookInv'
    BY <1>1, <1>2, <2>1, <2>2, <2>3 DEF LookInv, IsListed
  <2>5. ZoneInv'
    BY <1>1, <1>2, <2>1, LookZone
  <2> QED BY <2>1, <2>4, <2>5 DEF ScanInv
<1>9. ASSUME pc = "match", plan # wanted \/ <<"plan", plan>> \in touched, NextPlace
      PROVE  ZoneInv' /\ LookInv' /\ ScanInv'
  <2>1. place < PLANNINGS /\ place \in Places
    BY <1>9, Sizes DEF TypeInv, LocalsInv, Places
  <2>2. <<"plan", wanted>> \notin touched => plannings[place] # wanted
    BY <1>9, <2>1 DEF LookInv
  <2> QED BY <1>5, <1>9, <2>1, <2>2
<1>10. CASE MatchPlanning
  BY <1>6, <1>9, <1>10 DEF MatchPlanning
<1>11. CASE MatchFreed
  <2>1. pc = "match" /\ Vanished(plan) /\ <<"plan", plan>> \in touched
    BY <1>11, FreedVanished DEF MatchFreed, Vanished
  <2> QED BY <1>6, <1>9, <1>11, <2>1 DEF MatchFreed
<1> QED BY <1>4, <1>7, <1>8, <1>10, <1>11

LEMMA MainKnown ==
    ASSUME IInv, MainStep
    PROVE  KnownInv'
<1>1. CASE Start
  BY <1>1 DEF Start, settings, KnownInv, OverrideInv, ZoneInv, LookInv, ScanInv, ExactInv
<1>2. CASE ReadOverride
  <2>1. OverrideInv'
    BY <1>2 DEF ReadOverride, settings, IInv, OverrideInv
  <2>2. ExactInv'
    BY <1>2 DEF ReadOverride, ExactInv
  <2> QED BY <1>2, <2>1, <2>2 DEF ReadOverride, KnownInv, ZoneInv, LookInv, ScanInv
<1>3. CASE OverrideZone
  <2>1. Undisturbed(zone) => sent = Due(zone, now)
    BY <1>3 DEF OverrideZone, IInv, OverrideInv, Undisturbed, Due
  <2> QED BY <1>3, <2>1, DecideKnown DEF OverrideZone
<1>4. CASE ReadMode
  <2>1. zone \in Zones
    BY <1>4, Sizes DEF ReadMode, IInv, TypeInv, LocalsInv, Zones
  <2>2. ZoneInv'
    BY <1>4, <2>1 DEF ReadMode, settings, pass, IInv, TypeInv, SettingsInv, ZoneInv
  <2>3. ScanInv' /\ LookInv'
    BY <1>4 DEF ReadMode, ScanInv, LookInv
  <2> QED BY <1>4, <2>2, <2>3, GoOnKnown DEF ReadMode, pass, KnownInv
<1>5. ASSUME pc \in {"fixed", "find", "look", "match", "scan", "take"}, Undisturbed(zone)
      PROVE  ~active /\ <<"zone", zone>> \notin touched
  BY <1>5 DEF IInv, TypeInv, LocalsInv, SettingsInv, OverrideInv, Undisturbed
<1>6. CASE FixedZone
  <2>1. Undisturbed(zone) => data[zone] = Due(zone, now)
    BY <1>5, <1>6 DEF FixedZone, IInv, ZoneInv, Due
  <2>2. zone < ZONES
    BY <1>6 DEF FixedZone, IInv, TypeInv, LocalsInv
  <2> QED BY <1>6, <2>1, <2>2, DecideKnown DEF FixedZone
<1>7. CASE CallFind \/ SkipPlace \/ LoadPlanning \/ MatchPlanning \/ MatchFreed
  BY <1>7, SearchKnown
<1>8. CASE NoPlanning
  <2>1. ASSUME Undisturbed(zone) PROVE COZY = Due(zone, now)
    <3>1. ~active /\ mode[zone] = "planning" /\ data[zone] = wanted /\ <<"plan", wanted>> \notin touched
      BY <1>5, <1>8, <2>1 DEF NoPlanning, IInv, ZoneInv, Undisturbed
    <3>2. \A k \in Places : plannings[k] # wanted
      BY <1>8, <3>1, Sizes DEF NoPlanning, IInv, LookInv, Places
    <3>3. ~IsListed(data[zone])
      BY <3>1, <3>2 DEF IsListed
    <3> QED BY <3>1, <3>3 DEF Due
  <2>2. zone < ZONES
    BY <1>8 DEF NoPlanning, IInv, TypeInv, LocalsInv
  <2> QED BY <1>8, <2>1, <2>2, DecideKnown DEF NoPlanning
<1>9. ASSUME UNCHANGED <<settings, current, pass, plan, touched>>, pc \in {"scan", "take"}, pc' \in {"scan", "take"}, ScanInv'
      PROVE  KnownInv'
  <2>1. UNCHANGED <<mode, data, zone, touched, now, over, sent>>
    BY <1>9 DEF settings, pass
  <2>2. OverrideInv' /\ ExactInv'
    BY <1>9, <2>1, GoOnKnown
  <2>3. ZoneInv'
    BY <1>9, <2>1 DEF IInv, ZoneInv, Vanished
  <2> QED BY <1>9, <2>2, <2>3 DEF KnownInv, LookInv
<1>10. CASE ScanSlot
  BY <1>9, <1>10, ScanSlotStep DEF ScanSlot, IInv
<1>11. CASE ScanFreed
  <2>1. ~IsListed(plan)
    BY <1>11, Sizes DEF ScanFreed, IInv, TypeInv, LocalsInv, PlanningsInv, Entries
  <2>2. <<"plan", plan>> \in touched /\ UNCHANGED <<plan, touched>>
    BY <1>11, <2>1 DEF ScanFreed, IInv, ScanInv
  <2>3. ScanInv'
    BY <2>2 DEF ScanInv
  <2> QED BY <1>9, <1>11, <2>3 DEF ScanFreed
<1>12. CASE EndScan
  <2>1. UNCHANGED <<settings, current, pass, search, stale, touched>> /\ pc = "scan" /\ pc' = "take"
    BY <1>12 DEF EndScan
  <2>2. UNCHANGED <<now, slots, plan, entry, gap, best>> /\ IsListed(plan)' = IsListed(plan)
    BY <2>1 DEF settings, list, pass, search, IsListed
  <2>3. ScanInv'
    BY <2>1, <2>2 DEF IInv, ScanInv
  <2> QED BY <1>9, <2>1, <2>2, <2>3
<1>13. CASE TakeOrder
  <2>1. Undisturbed(zone) => slots[plan][best].order = Due(zone, now)
    BY <1>5, <1>13, FoundRight, TakeOrderExact DEF TakeOrder, IInv
  <2>2. zone < ZONES
    BY <1>13 DEF TakeOrder, IInv, TypeInv, LocalsInv
  <2> QED BY <1>13, <2>1, <2>2, DecideKnown DEF TakeOrder
<1>14. CASE NoSlot
  <2>1. Undisturbed(zone) => COZY = Due(zone, now)
    BY <1>5, <1>14, FoundRight, NoSlotExact DEF NoSlot, IInv
  <2>2. zone < ZONES
    BY <1>14 DEF NoSlot, IInv, TypeInv, LocalsInv
  <2> QED BY <1>14, <2>1, <2>2, DecideKnown DEF NoSlot
<1>15. CASE TakeFreed
  <2>1. pc = "take" /\ <<"plan", plan>> \in touched
    BY <1>15 DEF TakeFreed, IInv, ScanInv
  <2>2. ~Undisturbed(zone)
    BY <1>5, <2>1, FoundRight DEF IInv
  <2>3. zone < ZONES
    BY <2>1 DEF IInv, TypeInv, LocalsInv
  <2> QED BY <1>15, <2>1, <2>2, <2>3, DecideKnown DEF TakeFreed
<1>16. CASE Panic \/ Sleep
  BY <1>16 DEF Panic, Sleep, KnownInv, OverrideInv, ZoneInv, LookInv, ScanInv, ExactInv
<1>17. CASE Apply
  <2>1. ZoneInv' /\ LookInv' /\ ScanInv'
    BY <1>17 DEF Apply, ZoneInv, LookInv, ScanInv
  <2> QED BY <1>17, <2>1, GoOnKnown DEF Apply, pass, KnownInv
<1> QED
  BY <1>1, <1>2, <1>3, <1>4, <1>6, <1>7, <1>8, <1>10, <1>11, <1>12, <1>13, <1>14, <1>15, <1>16, <1>17
     DEF MainStep
-----------------------------------------------------------------------------
(* The relays.                                                             *)

\* The half waves of a zone.
Halves == BOOLEAN \X BOOLEAN

\* Half waves of the two pulses.
WavesOf(order, brief, long) ==
    CASE order = 0 -> <<TRUE, FALSE>>
      [] order = 1 -> <<FALSE, TRUE>>
      [] order = 2 -> <<TRUE, TRUE>>
      [] order = 3 -> <<FALSE, FALSE>>
      [] order = 4 -> <<brief, brief>>
      [] order = 5 -> <<long, long>>

LEMMA WavesOfTyped ==
    ASSUME NEW order \in Known, NEW brief \in BOOLEAN, NEW long \in BOOLEAN
    PROVE  WavesOf(order, brief, long) \in Halves
<1>1. order \in {0, 1, 2, 3, 4, 5}
  BY DEF Known
<1>2. ASSUME NEW pos \in BOOLEAN, NEW neg \in BOOLEAN PROVE <<pos, neg>> \in Halves
  BY DEF Halves
<1>3. CASE order = 0
  BY <1>2, <1>3 DEF WavesOf
<1>4. CASE order = 1
  BY <1>2, <1>4 DEF WavesOf
<1>5. CASE order = 2
  BY <1>2, <1>5 DEF WavesOf
<1>6. CASE order = 3
  BY <1>2, <1>6 DEF WavesOf
<1>7. CASE order = 4
  <2>1. WavesOf(order, brief, long) = <<brief, brief>>
    BY <1>7 DEF WavesOf
  <2> QED BY <1>2, <2>1
<1>8. CASE order = 5
  <2>1. WavesOf(order, brief, long) = <<long, long>>
    BY <1>8 DEF WavesOf
  <2> QED BY <1>2, <2>1
<1> QED
  BY <1>1, <1>3, <1>4, <1>5, <1>6, <1>7, <1>8

LEMMA WavesAre ==
    ASSUME NEW order, NEW time
    PROVE  Waves(order, time) = WavesOf(order, Pulse(time, BRIEF), Pulse(time, LONG))
BY DEF Waves, WavesOf

\* Every known order has half waves.
LEMMA WavesTyped ==
    ASSUME NEW order \in Known, NEW time \in Nat
    PROVE  Waves(order, time) \in Halves
<1> DEFINE brief == Pulse(time, BRIEF)
           long == Pulse(time, LONG)
<1>1. brief \in BOOLEAN /\ long \in BOOLEAN
  BY DEF Pulse
<1>2. Waves(order, time) = WavesOf(order, brief, long)
  BY WavesAre
<1> HIDE DEF brief, long
<1> QED BY <1>1, <1>2, WavesOfTyped

\* What is latched after so many zones have been pushed.
LEMMA ShiftedUp ==
    ASSUME NEW orders \in [Zones -> Nat], NEW time \in Nat
    PROVE  \E latched \in [0 .. ZONES -> [Zones -> Halves]] :
              /\ latched[0] = [z \in Zones |-> <<FALSE, FALSE>>]
              /\ \A k \in 1 .. ZONES :
                    latched[k] = IF orders[ZONES - k] \in Known
                                 THEN [i \in Zones |-> IF i = 0 THEN Waves(orders[ZONES - k], time)
                                                                ELSE latched[k - 1][i - 1]]
                                 ELSE latched[k - 1]
              /\ Shifted(orders, time) = latched[ZONES]
<1> DEFINE V == [Zones -> Halves]
           base == [z \in Zones |-> <<FALSE, FALSE>>]
           zones == [i \in 1 .. ZONES |-> ZONES - i]
           Op(old, z) == IF orders[z] \in Known
                          THEN [i \in Zones |-> IF i = 0 THEN Waves(orders[z], time) ELSE old[i - 1]]
                          ELSE old
           step == [k \in 1 .. ZONES |-> [old \in V |-> Op(old, zones[k])]]
           fold == CHOOSE iter : iter = [s \in SUBSET (1 .. ZONES) |->
                      IF s = {} THEN base ELSE Op(iter[s \ {Max(s)}], zones[Max(s)])]
           latched == Upward(fold, ZONES)
<1>1. ZONES \in Nat /\ base \in V
  BY Sizes DEF Halves
<1>2. \A old \in V, z \in Zones : Op(old, z) \in V
  <2>1. ASSUME NEW old \in V, NEW z \in Zones, orders[z] \in Known
        PROVE  [i \in Zones |-> IF i = 0 THEN Waves(orders[z], time) ELSE old[i - 1]] \in V
    <3>1. Waves(orders[z], time) \in Halves
      BY <2>1, WavesTyped
    <3>2. \A i \in Zones : i # 0 => i - 1 \in Zones
      BY Sizes DEF Zones
    <3> QED BY <3>1, <3>2
  <2> QED BY <2>1
<1>3. \A k \in 1 .. ZONES : zones[k] \in Zones
  BY Sizes DEF Zones
<1>4. step \in [1 .. ZONES -> [V -> V]]
  <2> HIDE DEF V, Op, zones
  <2> QED BY <1>2, <1>3
<1>5. \A k \in 1 .. ZONES, old \in V : step[k][old] = Op(old, zones[k])
  <2> HIDE DEF V, Op, zones
  <2> QED OBVIOUS
<1>6. fold = [s \in SUBSET (1 .. ZONES) |-> IF s = {} THEN base ELSE Op(fold[s \ {Max(s)}], zones[Max(s)])]
  <2> HIDE DEF V, Op, zones, base, step
  <2>1. PICK iter \in [SUBSET (1 .. ZONES) -> V] : Folds(iter, base, step, ZONES)
    BY <1>1, <1>4, FoldExists
  <2>2. ASSUME NEW s \in SUBSET (1 .. ZONES), s # {}
        PROVE  iter[s] = Op(iter[s \ {Max(s)}], zones[Max(s)])
    BY <1>1, <1>5, <2>1, <2>2, MaxOfSet DEF Folds
  <2>3. iter = [s \in SUBSET (1 .. ZONES) |-> IF s = {} THEN base ELSE Op(iter[s \ {Max(s)}], zones[Max(s)])]
    BY <2>1, <2>2 DEF Folds
  <2> QED BY <2>3
<1>7. latched \in [0 .. ZONES -> V] /\ GoesUp(latched, base, step, ZONES)
  <2> HIDE DEF V, Op, zones, base, step, fold
  <2>1. \A t \in SUBSET (1 .. ZONES) : t # {} => Max(t) \in 1 .. ZONES
    BY <1>1, MaxOfSet
  <2>2. FoldsWithin(fold, V, base, step, ZONES)
    BY <1>5, <1>6, <2>1 DEF FoldsWithin
  <2> QED BY <1>1, <1>4, <2>2, FoldUp
<1>8. Shifted(orders, time) = fold[DOMAIN zones]
  BY DEF Shifted, FoldLeft, MapThenFoldSet
<1>9. \A k \in 1 .. ZONES : latched[k] = Op(latched[k - 1], ZONES - k)
  <2> HIDE DEF V, Op, base, step, latched
  <2>1. \A k \in 1 .. ZONES : latched[k - 1] \in V
    BY <1>1, <1>7
  <2> QED BY <1>5, <1>7, <2>1 DEF GoesUp
<1>10. latched[0] = base /\ fold[DOMAIN zones] = latched[ZONES]
  <2> HIDE DEF fold, base, step
  <2> QED BY <1>1, <1>7 DEF GoesUp, Upward
<1> HIDE DEF latched, fold, step
<1> QED BY <1>7, <1>8, <1>9, <1>10

\* When every zone has an order with half waves, each gets its own.
LEMMA ShiftedInPlace ==
    ASSUME NEW orders \in [Zones -> Known], NEW time \in Nat
    PROVE  Shifted(orders, time) = [z \in Zones |-> Waves(orders[z], time)]
<1>1. orders \in [Zones -> Nat] /\ ZONES \in Nat
  BY Sizes DEF Known
<1>2. PICK latched \in [0 .. ZONES -> [Zones -> Halves]] :
        /\ latched[0] = [z \in Zones |-> <<FALSE, FALSE>>]
        /\ \A k \in 1 .. ZONES :
              latched[k] = IF orders[ZONES - k] \in Known
                           THEN [i \in Zones |-> IF i = 0 THEN Waves(orders[ZONES - k], time)
                                                          ELSE latched[k - 1][i - 1]]
                           ELSE latched[k - 1]
        /\ Shifted(orders, time) = latched[ZONES]
  BY <1>1, ShiftedUp
<1> DEFINE W(z) == Waves(orders[z], time)
           holds == {k \in 0 .. ZONES : \A i \in 0 .. k - 1 : latched[k][i] = W(ZONES - k + i)}
<1>3. 0 \in holds
  BY <1>1
<1>4. ASSUME NEW k \in 0 .. ZONES - 1, k \in holds PROVE k + 1 \in holds
  <2> HIDE DEF W
  <2>1. k + 1 \in 1 .. ZONES /\ (k + 1) - 1 = k /\ ZONES - (k + 1) \in Zones
    BY <1>1 DEF Zones
  <2>2. latched[k + 1] = [i \in Zones |-> IF i = 0 THEN W(ZONES - (k + 1)) ELSE latched[k][i - 1]]
    BY <1>2, <2>1 DEF W
  <2>3. ASSUME NEW i \in 0 .. k PROVE latched[k + 1][i] = W(ZONES - (k + 1) + i)
    <3>1. i \in Zones
      BY <1>1, <2>1 DEF Zones
    <3>2. CASE i = 0
      <4>1. ZONES - (k + 1) + i = ZONES - (k + 1)
        BY <1>1, <3>2
      <4> QED BY <2>2, <3>1, <3>2, <4>1
    <3>3. CASE i # 0
      <4>1. i - 1 \in 0 .. k - 1 /\ ZONES - k + (i - 1) = ZONES - (k + 1) + i
        BY <1>1, <3>3
      <4>2. latched[k][i - 1] = W(ZONES - k + (i - 1))
        BY <1>4, <4>1
      <4> QED BY <2>2, <3>1, <3>3, <4>1, <4>2
    <3> QED BY <3>2, <3>3
  <2> QED BY <2>1, <2>3
<1>5. ZONES \in holds
  <2> HIDE DEF holds
  <2>1. \A k \in 0 .. ZONES : k \in holds
    BY <1>1, <1>3, <1>4, UpTo
  <2> QED BY <1>1, <2>1
<1>6. ASSUME NEW z \in Zones PROVE latched[ZONES][z] = W(z)
  <2> HIDE DEF W
  <2>1. z \in 0 .. ZONES - 1 /\ ZONES - ZONES + z = z
    BY <1>1 DEF Zones
  <2> QED BY <1>5, <2>1
<1>7. latched[ZONES] \in [Zones -> Halves]
  BY <1>1, <1>2
<1>8. latched[ZONES] = [z \in Zones |-> W(z)]
  <2> HIDE DEF W
  <2> QED BY <1>6, <1>7
<1> QED
  BY <1>2, <1>8

\* Where no request is about to write it, the data of a zone in fixed mode is an order.
DataInv ==
    /\ \A z \in Zones :
          mode[z] = "fixed" /\ ~(job.op \in {"data", "default"} /\ job.at = z) => data[z] \in Known
    /\ job.op = "data" /\ mode[job.at] = "fixed" => job.value \in Known

RelaysInv == relays \in [Zones -> Halves] /\ UndisturbedRelaysExact

LEMMA SetModeData ==
    ASSUME TypeInv, DataInv, NEW z \in Zones, NEW new \in {"fixed", "planning"}, NEW value,
           new = "fixed" => value \in Known, SetMode(z, new, value)
    PROVE  DataInv'
<1>1. /\ mode' = [mode EXCEPT ![z] = new] /\ data' = data
      /\ job'.op = "data" /\ job'.at = z /\ job'.value = value
      /\ job.op = "idle"
  BY DEF SetMode, Job, Idle
<1> QED
  BY <1>1 DEF DataInv, TypeInv, SettingsInv

LEMMA DataStep == TypeInv /\ DataInv /\ [Next]_vars => DataInv'
<1> SUFFICES ASSUME TypeInv, DataInv, [Next]_vars PROVE DataInv'
  OBVIOUS
<1>1. ASSUME NEW z \in Zones, NEW order \in Orders, SetFixed(z, order) PROVE DataInv'
  BY <1>1, OrdersTyped, SetModeData DEF SetFixed
<1>2. ASSUME NEW z \in Zones, NEW id \in PlanIds, SetPlanning(z, id) PROVE DataInv'
  BY <1>2, SetModeData DEF SetPlanning
<1>3. CASE WriteData
  <2>1. data' = [data EXCEPT ![job.at] = job.value] /\ mode' = mode /\ job.op = "data" /\ job'.op = "idle"
    BY <1>3 DEF WriteData, Idle, Job
  <2> QED BY <2>1 DEF DataInv, TypeInv, SettingsInv
<1>4. CASE ReleaseZone
  <2>1. PICK z \in Zones : mode' = [mode EXCEPT ![z] = "fixed"] /\ job' = Job("default", z, job.value)
    BY <1>4 DEF ReleaseZone, Followers
  <2>2. data' = data /\ job.op = "release" /\ job'.op = "default" /\ job'.at = z
    BY <1>4, <2>1 DEF ReleaseZone, Job
  <2> QED BY <2>1, <2>2 DEF DataInv, TypeInv, SettingsInv
<1>5. CASE ReleaseData
  <2>1. data' = [data EXCEPT ![job.at] = COZY] /\ mode' = mode /\ job.op = "default" /\ job'.op = "release"
    BY <1>5 DEF ReleaseData, Job
  <2> QED BY <2>1, OrdersTyped DEF DataInv, TypeInv, SettingsInv
<1> DEFINE Others == /\ UNCHANGED <<mode, data>>
                     /\ job' = job \/ (job.op \notin {"data", "default"} /\ job'.op \notin {"data", "default"})
<1>6. Others => DataInv'
  BY DEF DataInv
<1>7. CASE MainStep \/ Tick \/ UNCHANGED vars
  BY <1>6, <1>7, MainLeavesSettings DEF settings
<1>8. CASE WriteForced \/ AddFirstSlot \/ FreeSlot \/ ClearEntry \/ FreePlanning
  <2>1. job.op \notin {"data", "default"}
    BY <1>8 DEF WriteForced, AddFirstSlot, FreeSlot, ClearEntry, FreePlanning
  <2>2. \E op \in {"idle", "null", "free", "release"} : \E at, value : job' = Job(op, at, value)
    BY <1>8 DEF WriteForced, AddFirstSlot, FreeSlot, ClearEntry, FreePlanning, Idle
  <2>3. job'.op \notin {"data", "default"}
    BY <2>2 DEF Job
  <2>4. UNCHANGED <<mode, data>>
    BY <1>8 DEF WriteForced, AddFirstSlot, FreeSlot, ClearEntry, FreePlanning, WriteSlot
  <2> QED BY <1>6, <2>1, <2>3, <2>4
<1>9. CASE (\E order \in Orders : EnableOverride(order)) \/ DisableOverride
  BY <1>6, <1>9 DEF EnableOverride, DisableOverride, SetOverride, Job, Idle
<1>10. ASSUME NEW id \in PlanIds, AddPlanning(id) \/ RemovePlanning(id) PROVE DataInv'
  BY <1>6, <1>10 DEF AddPlanning, RemovePlanning, Job, Idle
<1>11. ASSUME NEW id \in PlanIds, NEW start \in Starts, NEW order \in Orders,
              AddSlot(id, [start |-> start, order |-> order])
       PROVE  DataInv'
  BY <1>6, <1>11 DEF AddSlot, WriteSlot
<1>12. ASSUME NEW id \in PlanIds, NEW k \in Entries, NEW start \in Starts, MoveSlot(id, k, start)
       PROVE  DataInv'
  BY <1>6, <1>12 DEF MoveSlot, WriteSlot
<1>13. ASSUME NEW id \in PlanIds, NEW k \in Entries, RemoveSlot(id, k) PROVE DataInv'
  BY <1>6, <1>13 DEF RemoveSlot, WriteSlot
<1>14. CASE GetZones
  BY <1>6, <1>14 DEF GetZones, settings
<1> QED
  BY <1>1, <1>2, <1>3, <1>4, <1>5, <1>7, <1>8, <1>9, <1>10, <1>11, <1>12, <1>13, <1>14
     DEF Next, GoOn, Request

\* Between two requests every zone is due an order that is known.
LEMMA DueKnown ==
    ASSUME TypeInv, DataInv, job = Idle, NEW z \in Zones, NEW time
    PROVE  Due(z, time) \in Known
<1>1. forced \in Known /\ COZY \in Known
  BY OrdersTyped DEF TypeInv, SettingsInv
<1>2. mode[z] = "fixed" => data[z] \in Known
  BY DEF DataInv, Idle, Job
<1>3. CASE IsListed(data[z]) /\ \E k \in Entries : IsLatest(data[z], k, time)
  <2> DEFINE latest == CHOOSE k \in Entries : IsLatest(data[z], k, time)
  <2>1. data[z] \in PlanIds /\ IsListed(data[z])
    BY <1>3, ListedKnown DEF TypeInv, SettingsInv
  <2>2. latest \in Entries /\ slots[data[z]][latest] # NULL
    BY <1>3 DEF IsLatest, Entered
  <2> HIDE DEF latest
  <2>3. slots[data[z]][latest] \in Slot
    BY <2>1, <2>2 DEF TypeInv, SettingsInv, PlanningsInv
  <2>4. slots[data[z]][latest].order \in Known
    BY <2>3, OrdersTyped DEF Slot
  <2> QED BY <1>1, <1>2, <2>4 DEF Due, latest
<1>4. CASE ~(IsListed(data[z]) /\ \E k \in Entries : IsLatest(data[z], k, time))
  BY <1>1, <1>2, <1>4 DEF Due
<1> QED BY <1>3, <1>4

\* What is latched at the end of a pass.
LEMMA ApplyRelays ==
    ASSUME IInv, DataInv, Apply
    PROVE  RelaysInv'
<1>1. relays' = Shifted(current, now)
  BY DEF Apply
<1>2. /\ current \in [Zones -> Nat] /\ zone = ZONES /\ pc = "zone" /\ now \in Nat
      /\ UNCHANGED <<settings, now, job, touched>>
  BY Sizes DEF Apply, pass, IInv, TypeInv, LocalsInv, Times
<1>3. relays' \in [Zones -> Halves]
  <2>1. PICK latched \in [0 .. ZONES -> [Zones -> Halves]] : Shifted(current, now) = latched[ZONES]
    BY <1>2, ShiftedUp
  <2> QED BY <1>1, <2>1, Sizes
<1>4. ASSUME job = Idle, touched = {}
      PROVE  \A z \in Zones : Due(z, now) \in Known /\ relays'[z] = Waves(Due(z, now), now)
  <2>1. \A z \in Zones : current[z] = Due(z, now)
    <3>1. \A z \in Zones : z \in 0 .. zone - 1
      BY <1>2 DEF Zones
    <3>2. \A z : Undisturbed(z)
      BY <1>4 DEF Undisturbed, Vanished
    <3> QED BY <1>2, <3>1, <3>2 DEF IInv, ExactInv, Exact
  <2>2. \A z \in Zones : Due(z, now) \in Known
    BY <1>4, DueKnown DEF IInv
  <2>3. current \in [Zones -> Known]
    BY <1>2, <2>1, <2>2
  <2>4. relays' = [z \in Zones |-> Waves(current[z], now)]
    BY <1>1, <1>2, <2>3, ShiftedInPlace
  <2> QED BY <2>1, <2>2, <2>4
<1>5. \A z : Due(z, now)' = Due(z, now)
  BY <1>2, DueSame
<1>6. UndisturbedRelaysExact'
  BY <1>2, <1>4, <1>5 DEF UndisturbedRelaysExact
<1> QED BY <1>3, <1>6 DEF RelaysInv

\* A step that latches nothing leaves them, and a write ends what is said of them.
LEMMA RelaysStep == IInv /\ DataInv /\ RelaysInv /\ [Next]_vars => RelaysInv'
<1> SUFFICES ASSUME IInv, DataInv, RelaysInv, [Next]_vars PROVE RelaysInv'
  OBVIOUS
<1>1. CASE Apply
  BY <1>1, ApplyRelays
<1>2. ASSUME UNCHANGED relays, pc' # "apply" PROVE RelaysInv'
  BY <1>2 DEF RelaysInv, UndisturbedRelaysExact
<1>3. ASSUME UNCHANGED relays, touched' # {} PROVE RelaysInv'
  BY <1>3 DEF RelaysInv, UndisturbedRelaysExact
<1>4. CASE Tick \/ UNCHANGED vars
  <2>1. UNCHANGED <<settings, locals, relays, job, touched>>
    BY <1>4 DEF Tick, vars
  <2>2. \A z : Due(z, now)' = Due(z, now)
    BY <2>1, DueSame DEF locals, pass
  <2> QED BY <2>1, <2>2 DEF RelaysInv, UndisturbedRelaysExact, locals, pass
<1>5. CASE MainStep /\ ~Apply
  <2>1. UNCHANGED relays /\ pc' # "apply"
    BY <1>5 DEF MainStep, Start, ReadOverride, OverrideZone, ReadMode, FixedZone, CallFind, NextPlace, SkipPlace,
       LoadPlanning, Found, MatchPlanning, MatchFreed, NoPlanning, ScanSlot, ScanFreed, EndScan, TakeOrder, NoSlot, TakeFreed, Panic, Sleep, Decide
  <2> QED BY <1>2, <2>1
<1>6. CASE GetZones
  BY <1>2, <1>6 DEF GetZones
<1>7. CASE GoOn \/ (Request /\ ~GetZones)
  <2>1. PICK what : Writes(what)
    BY <1>7 DEF GoOn, Request, SetFixed, SetPlanning, SetMode, WriteData, EnableOverride, DisableOverride,
       SetOverride, WriteForced, AddPlanning, RemovePlanning, AddFirstSlot, AddSlot, MoveSlot, RemoveSlot,
       FreeSlot, ClearEntry, ReleaseZone, ReleaseData, FreePlanning, WriteSlot
  <2> QED BY <1>3, <2>1 DEF Writes
<1> QED BY <1>1, <1>4, <1>5, <1>6, <1>7 DEF Next
-----------------------------------------------------------------------------
(* The theorems.                                                           *)

LEMMA KnownStep == IInv /\ [Next]_vars => KnownInv'
<1> SUFFICES ASSUME IInv, [Next]_vars PROVE KnownInv'
  OBVIOUS
<1>1. CASE MainStep
  BY <1>1, MainKnown
<1>2. CASE Tick \/ UNCHANGED vars
  <2>1. UNCHANGED <<settings, current, locals, stale, touched>>
    BY <1>2 DEF Tick, vars
  <2>2. /\ UNCHANGED <<mode, data, active, forced, plannings, memory, slots>>
        /\ UNCHANGED <<pc, now, over, sent, zone, wanted, place, plan, entry, gap, best>>
    BY <2>1 DEF settings, list, locals, pass, search
  <2>3. \A id : Vanished(id)' = Vanished(id) /\ IsListed(id)' = IsListed(id)
    BY <2>1, <2>2 DEF Vanished, IsListed
  <2>4. OverrideInv' /\ ZoneInv'
    BY <2>1, <2>2, <2>3 DEF IInv, OverrideInv, ZoneInv
  <2>5. LookInv' /\ ScanInv'
    BY <2>1, <2>2, <2>3 DEF IInv, LookInv, ScanInv
  <2>6. ASSUME NEW z, Exact(z) PROVE Exact(z)'
    <3>1. Due(z, now)' = Due(z, now)
      BY <2>1, <2>2, DueSame
    <3>2. Undisturbed(z)' = Undisturbed(z)
      BY <2>1, <2>2 DEF Undisturbed, Vanished
    <3> QED BY <2>1, <2>6, <3>1, <3>2 DEF Exact
  <2>7. ExactInv'
    BY <2>2, <2>6 DEF IInv, ExactInv
  <2> QED BY <2>4, <2>5, <2>7 DEF KnownInv
<1>3. CASE GetZones
  BY <1>3 DEF GetZones, KnownInv, OverrideInv, ZoneInv, LookInv, ScanInv, ExactInv
<1>4. CASE GoOn \/ (Request /\ ~GetZones)
  BY <1>4, HttpdWrites, WrittenKnown DEF IInv, KnownInv
<1> QED BY <1>1, <1>2, <1>3, <1>4 DEF Next

LEMMA InitIInv == Init => IInv
<1> SUFFICES ASSUME Init PROVE IInv
  OBVIOUS
<1> USE DEF Init
<1>1. SettingsInv
  BY OrdersTyped, Nulls DEF SettingsInv, Jobs, NoSlots
<1>2. PlanningsInv
  <2>1. \A id \in PlanIds : ~IsListed(id)
    BY Nulls, OrdersTyped DEF IsListed
  <2> QED BY <2>1, Nulls DEF PlanningsInv, NoSlots, Idle, Job
<1>3. LocalsInv
  <2>1. zone \in 0 .. ZONES /\ entry \in 0 .. SLOTS /\ gap \in 0 .. WEEK /\ clock \in Times /\ now \in Times
        /\ wanted \in Nat /\ place \in 0 .. PLANNINGS
    BY Sizes
  <2>2. current \in [Zones -> Nat] /\ sent \in Known
    BY OrdersTyped
  <2>3. over \in BOOLEAN /\ stale \in BOOLEAN
    OBVIOUS
  <2> QED BY <2>1, <2>2, <2>3 DEF LocalsInv
<1>4. OverrideInv /\ ZoneInv /\ LookInv /\ ScanInv /\ ExactInv
  BY DEF OverrideInv, ZoneInv, LookInv, ScanInv, ExactInv
<1> QED BY <1>1, <1>2, <1>3, <1>4 DEF IInv, TypeInv

LEMMA Invariant == Spec => []IInv
<1>1. IInv /\ [Next]_vars => IInv'
  BY TypeStep, KnownStep DEF IInv, KnownInv
<1> QED BY InitIInv, <1>1, PTL DEF Spec

\* Whatever the httpd task writes between two reads of the main task, in whatever
\* entries of the list, a zone whose own settings were left alone has the order it
\* is due once the loop has gone over the zones, unless it follows a planning and
\* one was removed from end to end in that pass.
THEOREM UndisturbedExact == Spec => []UndisturbedZonesExact
<1>1. IInv => UndisturbedZonesExact
  <2> SUFFICES ASSUME IInv, pc = "apply", NEW z \in Zones, Undisturbed(z)
               PROVE  current[z] = Due(z, now)
    BY DEF UndisturbedZonesExact
  <2>1. zone = ZONES
    BY DEF IInv, TypeInv, LocalsInv
  <2> QED BY <2>1 DEF IInv, ExactInv, Exact, Zones
<1> QED BY <1>1, Invariant, PTL

\* Types hold, whatever is freed under the main task: a slot it found is one, or it
\* is known that its memory went; and a listed planning has no slot that was freed
\* and no two at the same time.
THEOREM LocalsSound == Spec => []TypeInv
<1>1. IInv => TypeInv
  BY DEF IInv
<1> QED BY <1>1, Invariant, PTL

LEMMA RelaysInvariant == Spec => [](IInv /\ DataInv /\ RelaysInv)
<1>1. Init => DataInv
  BY OrdersTyped DEF Init, DataInv, Idle, Job
<1>2. Init => RelaysInv
  <2>1. <<FALSE, FALSE>> \in Halves
    BY DEF Halves
  <2> QED BY <2>1 DEF Init, RelaysInv, UndisturbedRelaysExact
<1>3. IInv /\ DataInv /\ RelaysInv /\ [Next]_vars => (IInv /\ DataInv /\ RelaysInv)'
  <2>1. IInv /\ DataInv /\ [Next]_vars => IInv' /\ DataInv'
    BY TypeStep, KnownStep, DataStep DEF IInv, KnownInv
  <2> QED BY <2>1, RelaysStep
<1> QED BY InitIInv, <1>1, <1>2, <1>3, PTL DEF Spec

\* The main task latches for every zone the half waves that the order it is due has
\* at that time, unless a request is in the middle of it: for any number of zones at
\* any orders, the extended ones together as well, the registers the orders are
\* shifted through end up with each in its place.
THEOREM RelaysExact == Spec => []UndisturbedRelaysExact
<1>1. RelaysInv => UndisturbedRelaysExact
  BY DEF RelaysInv
<1> QED BY <1>1, RelaysInvariant, PTL

\* All of the state has its type, the relays' included, wherever freed memory made
\* the orders come from.
THEOREM TypeCorrect == Spec => []TypeOK
<1>1. SettingsInv => job \in [op : Ops, at : Nat, value : Nat]
  <2>1. Zones \subseteq Nat /\ Entries \subseteq Nat /\ PlanIds \subseteq Nat /\ Known \subseteq Nat
    BY OrdersTyped DEF Zones, Entries, Known
  <2>2. Idle \in [op : Ops, at : Nat, value : Nat]
    BY DEF Idle, Job, Ops
  <2>3. ASSUME NEW j \in Jobs PROVE j \in [op : Ops, at : Nat, value : Nat]
    <3>1. CASE j \in [op : {"data"}, at : Zones, value : Nat]
      BY <2>1, <3>1 DEF Ops
    <3>2. CASE j \in [op : {"force"}, at : {0}, value : Known]
      <4>1. j.at = 0 /\ j.at \in Nat
        BY <3>2
      <4>2. j = [op |-> j.op, at |-> j.at, value |-> j.value] /\ j.op \in Ops /\ j.value \in Nat
        BY <2>1, <3>2 DEF Ops
      <4> QED BY <4>1, <4>2
    <3>3. CASE j \in [op : {"first", "free", "release"}, at : {0}, value : PlanIds]
      <4>1. j.at = 0 /\ j.at \in Nat
        BY <3>3
      <4>2. j = [op |-> j.op, at |-> j.at, value |-> j.value] /\ j.op \in Ops /\ j.value \in Nat
        BY <2>1, <3>3 DEF Ops
      <4> QED BY <4>1, <4>2
    <3>4. CASE j \in [op : {"null"}, at : Entries, value : PlanIds]
      BY <2>1, <3>4 DEF Ops
    <3>5. CASE j \in [op : {"default"}, at : Zones, value : PlanIds]
      BY <2>1, <3>5 DEF Ops
    <3> QED BY <2>2, <3>1, <3>2, <3>3, <3>4, <3>5 DEF Jobs
  <2> QED BY <2>3 DEF SettingsInv
<1>2. SettingsInv /\ LocalsInv /\ RelaysInv /\ job \in [op : Ops, at : Nat, value : Nat] => TypeOK
  BY DEF SettingsInv, LocalsInv, RelaysInv, Halves, TypeOK
<1>3. IInv /\ RelaysInv => TypeOK
  BY <1>1, <1>2 DEF IInv, TypeInv
<1> QED BY <1>3, RelaysInvariant, PTL
=============================================================================
