--------------------------- MODULE PlanningsProofs ---------------------------
(* Theorems about Plannings, for every value of its constants. *)
EXTENDS Plannings, TLAPS

-----------------------------------------------------------------------------
(* Lemmas about the data. *)

\* A slot built from an id and a stored value is a slot, and its value is the
\* one it was built from.
LEMMA SlotOfType ==
    ASSUME NEW id \in SlotIds, NEW value \in SlotValue
    PROVE  /\ SlotOf(id, value) \in Slot
           /\ SlotOf(id, value).id = id
           /\ ValueOf(SlotOf(id, value)) = value
BY DEF SlotOf, ValueOf, Slot, SlotValue

\* The value of a slot is a value NVS can hold.
LEMMA ValueOfType ==
    ASSUME NEW slot \in Slot
    PROVE  ValueOf(slot) \in SlotValue
BY DEF ValueOf, Slot, SlotValue

\* The value of the first slot is a slot value.
LEMMA FirstValueType == FirstValue \in SlotValue
BY ValuesAssumption DEF FirstValue, SlotValue

\* Changing the slots of a planning keeps it a planning with its id.
LEMMA WithSlotsType ==
    ASSUME NEW plan \in Planning, NEW max \in -1 .. MAX_SLOT_ID,
           NEW slots \in [SlotIdx -> Slot \cup {NULL}]
    PROVE  /\ WithSlots(plan, max, slots) \in Planning
           /\ WithSlots(plan, max, slots).id = plan.id
           /\ WithSlots(plan, max, slots).name = plan.name
           /\ WithSlots(plan, max, slots).max_slot_id = max
           /\ WithSlots(plan, max, slots).slots = slots
BY DEF WithSlots, Planning

\* Replacing an entry keeps the array an array of slots.
LEMMA EntryType ==
    ASSUME NEW plan \in Planning, NEW k \in SlotIdx, NEW entry \in Slot \cup {NULL}
    PROVE  [plan.slots EXCEPT ![k] = entry] \in [SlotIdx -> Slot \cup {NULL}]
BY DEF Planning

\* The two together.
LEMMA WithEntryType ==
    ASSUME NEW plan \in Planning, NEW k \in SlotIdx, NEW entry \in Slot \cup {NULL}
    PROVE  /\ WithEntry(plan, k, entry) \in Planning
           /\ WithEntry(plan, k, entry).id = plan.id
           /\ WithEntry(plan, k, entry).name = plan.name
           /\ WithEntry(plan, k, entry).max_slot_id = plan.max_slot_id
           /\ WithEntry(plan, k, entry).slots = [plan.slots EXCEPT ![k] = entry]
<1>1. plan.max_slot_id \in -1 .. MAX_SLOT_ID
  BY DEF Planning
<1> QED BY <1>1, EntryType, WithSlotsType DEF WithEntry

\* Storing or purging one slot value keeps the stored slots well typed.
LEMMA WithStoredType ==
    ASSUME TypeOK, NEW id \in PlanIds, NEW sid \in SlotIds, NEW value \in SlotValue \cup {NULL}
    PROVE  WithStored(id, sid, value) \in [PlanIds -> [SlotIds -> SlotValue \cup {NULL}]]
<1>1. [nvs_slots[id] EXCEPT ![sid] = value] \in [SlotIds -> SlotValue \cup {NULL}]
  BY DEF TypeOK
<1> QED BY <1>1 DEF TypeOK, WithStored

-----------------------------------------------------------------------------
(* The inductive invariant. *)

\* The request in service and the boot, as far as types depend on them.
Coherent ==
    /\ phase = "loading" => op = "idle"
    /\ phase = "running" => unread = {}
    /\ op \in {"purge", "erase"} => doomed # NULL
    /\ \A id \in unread : nvs_plan[id] # NULL

TypeInv == TypeOK /\ Coherent

\* Every stored id is counted, or still to be read.
CoveredIds ==
    /\ \A id \in PlanIds : nvs_plan[id] # NULL => id \in unread \/ id <= max_id
    /\ \A i \in Used(plannings) :
          /\ plannings[i].id \notin unread
          /\ \A s \in SlotIds :
                nvs_slots[plannings[i].id][s] # NULL => s <= plannings[i].max_slot_id

\* A planning being removed is off the list, keeps its key until the end, and
\* has no slot stored any more when the key goes.
DoomedStored ==
    op \in {"purge", "erase"} =>
        /\ nvs_plan[doomed.id] # NULL
        /\ ~Listed(doomed.id)
        /\ op = "erase" => nvs_slots[doomed.id] = NoStoredSlots

\* A zone follows a planning of the list, or the one being removed.
ZoneRefs ==
    phase = "running" =>
        \A z \in Zones : zones[z].mode = "planning" =>
            Listed(zones[z].value) \/ (op = "purge" /\ zones[z].value = doomed.id)

IInv ==
    /\ TypeInv
    /\ UniqueIds
    /\ CoveredIds
    /\ MemoryIsStored
    /\ DoomedStored
    /\ NoLeftoverSlots
    /\ ZoneRefs

-----------------------------------------------------------------------------
(* Facts about well typed states. *)

\* An entry in use is a planning, and a slot entry in use is a slot.
LEMMA EntryFacts ==
    ASSUME TypeOK
    PROVE  /\ Used(plannings) = {i \in PlanIdx : plannings[i] # NULL}
           /\ \A i \in Used(plannings) :
                /\ plannings[i] \in Planning
                /\ plannings[i].id \in PlanIds
                /\ plannings[i].name \in Names
                /\ plannings[i].max_slot_id \in -1 .. MAX_SLOT_ID
                /\ plannings[i].slots \in [SlotIdx -> Slot \cup {NULL}]
                /\ Used(plannings[i].slots) = {k \in SlotIdx : plannings[i].slots[k] # NULL}
                /\ \A k \in Used(plannings[i].slots) :
                     plannings[i].slots[k] \in Slot /\ plannings[i].slots[k].id \in SlotIds
<1>1. Used(plannings) = {i \in PlanIdx : plannings[i] # NULL}
  BY DEF TypeOK, Used
<1>2. ASSUME NEW i \in Used(plannings)
      PROVE  /\ plannings[i] \in Planning
             /\ plannings[i].id \in PlanIds
             /\ plannings[i].name \in Names
             /\ plannings[i].max_slot_id \in -1 .. MAX_SLOT_ID
             /\ plannings[i].slots \in [SlotIdx -> Slot \cup {NULL}]
  <2>1. plannings[i] \in Planning
    BY <1>1 DEF TypeOK
  <2> QED BY <2>1 DEF Planning
<1>3. ASSUME NEW i \in Used(plannings)
      PROVE  /\ Used(plannings[i].slots) = {k \in SlotIdx : plannings[i].slots[k] # NULL}
             /\ \A k \in Used(plannings[i].slots) :
                  plannings[i].slots[k] \in Slot /\ plannings[i].slots[k].id \in SlotIds
  <2>1. Used(plannings[i].slots) = {k \in SlotIdx : plannings[i].slots[k] # NULL}
    BY <1>2 DEF Used
  <2>2. \A k \in Used(plannings[i].slots) : plannings[i].slots[k] \in Slot
    BY <2>1, <1>2
  <2> QED BY <2>1, <2>2 DEF Slot
<1> QED BY <1>1, <1>2, <1>3

\* A step that adds a slot keeps the list and the stored slots well typed.
LEMMA AddSlotType ==
    ASSUME TypeOK, NEW i \in Used(plannings), NEW value \in SlotValue, AddSlot(i, value)
    PROVE  /\ plannings' \in [PlanIdx -> Planning \cup {NULL}]
           /\ nvs_slots' \in [PlanIds -> [SlotIds -> SlotValue \cup {NULL}]]
<1> DEFINE plan == plannings[i]
           sid == plan.max_slot_id + 1
<1>1. i \in PlanIdx /\ plan \in Planning
  BY DEF TypeOK, Used
<1>2. sid \in SlotIds
  BY <1>1, SizesAssumption DEF AddSlot, Planning, SlotIds
<1>3. PICK k \in SlotIdx : plannings' = [plannings EXCEPT ![i] =
                  WithSlots(plan, sid, [plan.slots EXCEPT ![k] = SlotOf(sid, value)])]
  BY DEF AddSlot
<1>4. WithSlots(plan, sid, [plan.slots EXCEPT ![k] = SlotOf(sid, value)]) \in Planning
  <2>1. sid \in -1 .. MAX_SLOT_ID
    BY <1>2, SizesAssumption DEF SlotIds
  <2>2. SlotOf(sid, value) \in Slot
    BY <1>2, SlotOfType
  <2> HIDE DEF plan, sid
  <2> QED BY <1>1, <2>1, <2>2, EntryType, WithSlotsType
<1>5. plannings' \in [PlanIdx -> Planning \cup {NULL}]
  BY <1>1, <1>3, <1>4 DEF TypeOK
<1>6. nvs_slots' = WithStored(plan.id, sid, value)
  BY DEF AddSlot
<1>7. plan.id \in PlanIds
  BY <1>1 DEF Planning
<1> QED BY <1>2, <1>5, <1>6, <1>7, WithStoredType

-----------------------------------------------------------------------------
(* Each action keeps the types. *)

LEMMA InitTypes == Init => TypeInv
<1> SUFFICES ASSUME Init PROVE TypeInv
  OBVIOUS
<1>1. [p \in PlanIds |-> NoStoredSlots] \in [PlanIds -> [SlotIds -> SlotValue \cup {NULL}]]
  BY DEF NoStoredSlots
<1>2. Default \in ZoneConfig
  BY ValuesAssumption DEF Default, ZoneConfig
<1>3. NoPatch \in Patch
  BY SizesAssumption DEF NoPatch, Fields, Patch, SlotIds
<1>4. 0 \in PlanIds /\ max_id \in -1 .. MAX_PLANNING_ID
  BY SizesAssumption DEF Init, PlanIds
<1> QED BY <1>1, <1>2, <1>3, <1>4 DEF Init, TypeInv, TypeOK, Coherent, Ops

LEMMA PostPlanningTypes ==
    ASSUME TypeInv, NEW name \in Names, PostPlanning(name)
    PROVE  TypeInv'
<1>1. max_id + 1 \in PlanIds /\ max_id + 1 \in -1 .. MAX_PLANNING_ID
  BY SizesAssumption DEF TypeInv, TypeOK, PostPlanning, PlanIds
<1>2. NewPlanning(max_id + 1, name) \in Planning
  BY <1>1, SizesAssumption DEF NewPlanning, Planning, EmptySlots
<1>3. plannings' \in [PlanIdx -> Planning \cup {NULL}]
  BY <1>2 DEF PostPlanning, TypeInv, TypeOK
<1>4. nvs_plan' \in [PlanIds -> Names \cup {NULL}]
  BY <1>1 DEF PostPlanning, TypeInv, TypeOK
<1> QED BY <1>1, <1>3, <1>4 DEF PostPlanning, TypeInv, TypeOK, Coherent, Idle, Ops

LEMMA PostPlanningFullTypes ==
    ASSUME TypeInv, NEW name \in Names, PostPlanningFull(name)
    PROVE  TypeInv'
<1>1. max_id + 1 \in PlanIds /\ max_id + 1 \in -1 .. MAX_PLANNING_ID
  BY SizesAssumption DEF TypeInv, TypeOK, PostPlanningFull, PlanIds
<1>2. nvs_plan' \in [PlanIds -> Names \cup {NULL}]
  BY <1>1 DEF PostPlanningFull, TypeInv, TypeOK
<1> QED BY <1>1, <1>2 DEF PostPlanningFull, TypeInv, TypeOK, Coherent, Idle, request

LEMMA AddFirstSlotTypes ==
    ASSUME TypeInv, AddFirstSlot
    PROVE  TypeInv'
<1>1. PICK i \in WithId(plannings, target) : AddSlot(i, FirstValue)
  BY DEF AddFirstSlot
<1>2. i \in Used(plannings)
  BY DEF WithId
<1>3. /\ plannings' \in [PlanIdx -> Planning \cup {NULL}]
      /\ nvs_slots' \in [PlanIds -> [SlotIds -> SlotValue \cup {NULL}]]
  BY <1>1, <1>2, FirstValueType, AddSlotType DEF TypeInv
<1>4. 0 \in PlanIds
  BY SizesAssumption DEF PlanIds
<1> QED BY <1>3, <1>4 DEF AddFirstSlot, TypeInv, TypeOK, Coherent, Ops

LEMMA PatchPlanningTypes ==
    ASSUME TypeInv, NEW id \in PlanIds, NEW name \in Names, PatchPlanning(id, name)
    PROVE  TypeInv'
<1>1. PICK i \in PlanIdx : /\ i \in WithId(plannings, id)
                           /\ plannings' = [plannings EXCEPT ![i] = Renamed(plannings[i], name)]
  BY DEF PatchPlanning, IsFirst
<1>2. plannings[i] \in Planning
  BY <1>1, EntryFacts DEF WithId, TypeInv
<1>3. Renamed(plannings[i], name) \in Planning
  BY <1>2 DEF Renamed, Planning
<1>4. plannings' \in [PlanIdx -> Planning \cup {NULL}]
  BY <1>1, <1>3 DEF TypeInv, TypeOK
<1>5. nvs_plan' \in [PlanIds -> Names \cup {NULL}]
  BY DEF PatchPlanning, TypeInv, TypeOK
<1>6. \A p \in unread' : nvs_plan'[p] # NULL
  BY DEF PatchPlanning, TypeInv, TypeOK, Coherent, Idle
<1> QED BY <1>4, <1>5, <1>6 DEF PatchPlanning, TypeInv, TypeOK, Coherent, request

LEMMA DeletePlanningTypes ==
    ASSUME TypeInv, NEW id \in PlanIds, DeletePlanning(id)
    PROVE  TypeInv'
<1>1. PICK i \in PlanIdx : /\ i \in WithId(plannings, id)
                           /\ doomed' = plannings[i]
                           /\ plannings' = [plannings EXCEPT ![i] = NULL]
  BY DEF DeletePlanning, IsFirst
<1>2. plannings[i] \in Planning /\ plannings[i] # NULL
  BY <1>1, EntryFacts, NullAssumption DEF WithId, TypeInv
<1> QED BY <1>1, <1>2 DEF DeletePlanning, TypeInv, TypeOK, Coherent, Idle, nvs, Ops

LEMMA PurgeSlotTypes ==
    ASSUME TypeInv, PurgeSlot
    PROVE  TypeInv'
<1>1. doomed \in Planning
  BY DEF PurgeSlot, TypeInv, TypeOK, Coherent
<1>2. PICK k \in SlotIdx :
          /\ k \in Used(doomed.slots)
          /\ nvs_slots' = WithStored(doomed.id, doomed.slots[k].id, NULL)
          /\ doomed' = WithEntry(doomed, k, NULL)
  BY DEF PurgeSlot, IsFirst
<1>3. doomed.id \in PlanIds /\ doomed.slots[k] \in Slot
  BY <1>1, <1>2 DEF Planning, Used
<1>4. doomed.slots[k].id \in SlotIds
  BY <1>3 DEF Slot
<1>5. nvs_slots' \in [PlanIds -> [SlotIds -> SlotValue \cup {NULL}]]
  BY <1>2, <1>3, <1>4, WithStoredType DEF TypeInv
<1>6. doomed' \in Planning
  BY <1>1, <1>2, WithEntryType
<1> QED BY <1>5, <1>6, NullAssumption DEF PurgeSlot, TypeInv, TypeOK, Coherent, memory

LEMMA ClearSlotsTypes ==
    ASSUME TypeInv, ClearSlots
    PROVE  TypeInv'
<1>1. doomed \in Planning
  BY DEF ClearSlots, TypeInv, TypeOK, Coherent
<1>2. doomed.id \in PlanIds
  BY <1>1 DEF Planning
<1>3. Default \in ZoneConfig
  BY ValuesAssumption DEF Default, ZoneConfig
<1>4. zones' \in [Zones -> ZoneConfig]
  BY <1>3 DEF ClearSlots, ReleasedZones, TypeInv, TypeOK
<1>5. nvs_slots' \in [PlanIds -> [SlotIds -> SlotValue \cup {NULL}]]
  BY <1>2 DEF ClearSlots, NoStoredSlots, TypeInv, TypeOK
<1> QED BY <1>4, <1>5 DEF ClearSlots, TypeInv, TypeOK, Coherent, Ops

LEMMA EraseKeyTypes ==
    ASSUME TypeInv, EraseKey
    PROVE  TypeInv'
<1>1. phase = "running" /\ unread = {}
  BY DEF EraseKey, TypeInv, TypeOK, Coherent
<1> QED BY <1>1 DEF EraseKey, TypeInv, TypeOK, Coherent, Ops, memory

LEMMA PostSlotTypes ==
    ASSUME TypeInv, NEW id \in PlanIds, NEW value \in SlotValue, PostSlot(id, value)
    PROVE  TypeInv'
<1>1. PICK i \in PlanIdx : i \in WithId(plannings, id) /\ AddSlot(i, value)
  BY DEF PostSlot, IsFirst
<1>2. i \in Used(plannings)
  BY <1>1 DEF WithId
<1>3. /\ plannings' \in [PlanIdx -> Planning \cup {NULL}]
      /\ nvs_slots' \in [PlanIds -> [SlotIds -> SlotValue \cup {NULL}]]
  BY <1>1, <1>2, AddSlotType DEF TypeInv
<1> QED BY <1>3 DEF PostSlot, TypeInv, TypeOK, Coherent, request

LEMMA PostSlotFullTypes ==
    ASSUME TypeInv, NEW id \in PlanIds, NEW value \in SlotValue, PostSlotFull(id, value)
    PROVE  TypeInv'
<1>1. PICK i \in PlanIdx :
          /\ i \in WithId(plannings, id)
          /\ plannings[i].max_slot_id < MAX_SLOT_ID
          /\ nvs_slots' = WithStored(id, plannings[i].max_slot_id + 1, value)
          /\ plannings' = [plannings EXCEPT ![i] =
                WithSlots(plannings[i], plannings[i].max_slot_id + 1, plannings[i].slots)]
  BY DEF PostSlotFull, IsFirst
<1>2. i \in Used(plannings)
  BY <1>1 DEF WithId
<1>3. /\ plannings[i].max_slot_id + 1 \in SlotIds
      /\ plannings[i].max_slot_id + 1 \in -1 .. MAX_SLOT_ID
  BY <1>1, <1>2, EntryFacts, SizesAssumption DEF TypeInv, SlotIds
<1>4. WithSlots(plannings[i], plannings[i].max_slot_id + 1, plannings[i].slots) \in Planning
  BY <1>2, <1>3, EntryFacts, WithSlotsType DEF TypeInv
<1>5. plannings' \in [PlanIdx -> Planning \cup {NULL}]
  BY <1>1, <1>4 DEF TypeInv, TypeOK
<1>6. nvs_slots' \in [PlanIds -> [SlotIds -> SlotValue \cup {NULL}]]
  BY <1>1, <1>3, WithStoredType DEF TypeInv
<1> QED BY <1>5, <1>6 DEF PostSlotFull, TypeInv, TypeOK, Coherent, request

LEMMA DeleteSlotTypes ==
    ASSUME TypeInv, NEW id \in PlanIds, NEW sid \in SlotIds, DeleteSlot(id, sid)
    PROVE  TypeInv'
<1>1. PICK i \in PlanIdx, k \in SlotIdx :
          /\ i \in WithId(plannings, id)
          /\ plannings' = [plannings EXCEPT ![i] = WithEntry(plannings[i], k, NULL)]
  BY DEF DeleteSlot, IsFirst
<1>2. plannings[i] \in Planning
  BY <1>1, EntryFacts DEF WithId, TypeInv
<1>3. plannings' \in [PlanIdx -> Planning \cup {NULL}]
  BY <1>1, <1>2, WithEntryType DEF TypeInv, TypeOK
<1>4. nvs_slots' \in [PlanIds -> [SlotIds -> SlotValue \cup {NULL}]]
  BY WithStoredType DEF DeleteSlot, TypeInv
<1> QED BY <1>3, <1>4 DEF DeleteSlot, TypeInv, TypeOK, Coherent, request

LEMMA PatchSlotTypes ==
    ASSUME TypeInv, NEW id \in PlanIds, NEW fields \in Patch, PatchSlot(id, fields)
    PROVE  TypeInv'
BY DEF PatchSlot, TypeInv, TypeOK, Coherent, Idle, memory, nvs, Ops

\* What a setter changes, given that the new slot and the fields left are well
\* typed.
LEMMA SetFieldTypes ==
    ASSUME TypeInv, NEW i \in PlanIdx, NEW k \in SlotIdx, NEW new \in Slot,
           NEW shielded \in BOOLEAN, NEW left \in Patch, SetField(i, k, new, shielded, left)
    PROVE  TypeInv'
<1>1. i \in Used(plannings) /\ phase = "running" /\ op = "patch"
  BY DEF SetField, IsFirst, WithId, TypeInv, TypeOK, Coherent
<1>2. \/ UNCHANGED <<plannings, nvs_slots>>
      \/ /\ plannings' = [plannings EXCEPT ![i] = WithEntry(plannings[i], k, new)]
         /\ nvs_slots' = WithStored(target, patch.slot, ValueOf(new))
  BY DEF SetField
<1>3. /\ plannings' \in [PlanIdx -> Planning \cup {NULL}]
      /\ nvs_slots' \in [PlanIds -> [SlotIds -> SlotValue \cup {NULL}]]
  <2>1. WithEntry(plannings[i], k, new) \in Planning
    BY <1>1, EntryFacts, WithEntryType DEF TypeInv
  <2>2. target \in PlanIds /\ patch.slot \in SlotIds
    BY DEF TypeInv, TypeOK, Patch
  <2>3. WithStored(target, patch.slot, ValueOf(new)) \in [PlanIds -> [SlotIds -> SlotValue \cup {NULL}]]
    BY <2>2, ValueOfType, WithStoredType DEF TypeInv
  <2> QED BY <1>2, <2>1, <2>3 DEF TypeInv, TypeOK
<1>4. NoPatch \in Patch /\ 0 \in PlanIds
  BY SizesAssumption DEF NoPatch, Fields, Patch, SlotIds, PlanIds
<1>5. op' \in {"idle", "patch"} /\ target' \in PlanIds /\ patch' \in Patch
  BY <1>4 DEF SetField, GoOn, GiveUp, TypeInv, TypeOK
<1>6. UNCHANGED <<phase, unread, max_id, zones, nvs_plan, nvs_zone, doomed>>
  BY DEF SetField
<1> QED BY <1>1, <1>3, <1>5, <1>6 DEF TypeInv, TypeOK, Coherent, Ops

\* Every setter is such a step.
LEMMA SetSlotShape ==
    ASSUME TypeInv, SetSlot
    PROVE  \E i \in PlanIdx, k \in SlotIdx, new \in Slot, shielded \in BOOLEAN, left \in Patch :
              SetField(i, k, new, shielded, left) /\ new.id = plannings[i].slots[k].id
<1>1. PICK i \in PlanIdx, k \in SlotIdx :
          SetDow(i, k) \/ SetHour(i, k) \/ SetMinute(i, k) \/ SetOrder(i, k)
  BY DEF SetSlot
<1> DEFINE slot == plannings[i].slots[k]
<1>2. i \in Used(plannings) /\ k \in Used(plannings[i].slots)
  BY <1>1 DEF SetDow, SetHour, SetMinute, SetOrder, SetField, IsFirst, WithId
<1>3. slot \in Slot
  BY <1>2, EntryFacts DEF TypeInv
<1>4. patch \in Patch /\ NULL \notin Int
  BY NullAssumption DEF TypeInv, TypeOK
<1>5. CASE SetDow(i, k)
  <2>1. SlotWith(slot, patch.dow, slot.hour, slot.minute, slot.order) \in Slot
    BY <1>3, <1>4, <1>5 DEF SetDow, SlotWith, Slot, Patch
  <2>2. Fields(patch.slot, NULL, patch.hour, patch.minute, patch.order) \in Patch
    BY <1>4 DEF Fields, Patch
  <2>3. SlotWith(slot, patch.dow, slot.hour, slot.minute, slot.order).id = slot.id
    BY DEF SlotWith
  <2> QED BY <1>5, <2>1, <2>2, <2>3 DEF SetDow
<1>6. CASE SetHour(i, k)
  <2>1. SlotWith(slot, slot.dow, patch.hour, slot.minute, slot.order) \in Slot
    BY <1>3, <1>4, <1>6 DEF SetHour, SlotWith, Slot, Patch
  <2>2. Fields(patch.slot, NULL, NULL, patch.minute, patch.order) \in Patch
    BY <1>4 DEF Fields, Patch
  <2>3. SlotWith(slot, slot.dow, patch.hour, slot.minute, slot.order).id = slot.id
    BY DEF SlotWith
  <2> QED BY <1>6, <2>1, <2>2, <2>3 DEF SetHour
<1>7. CASE SetMinute(i, k)
  <2>1. SlotWith(slot, slot.dow, slot.hour, patch.minute, slot.order) \in Slot
    BY <1>3, <1>4, <1>7 DEF SetMinute, SlotWith, Slot, Patch
  <2>2. Fields(patch.slot, NULL, NULL, NULL, patch.order) \in Patch
    BY <1>4 DEF Fields, Patch
  <2>3. SlotWith(slot, slot.dow, slot.hour, patch.minute, slot.order).id = slot.id
    BY DEF SlotWith
  <2> QED BY <1>7, <2>1, <2>2, <2>3 DEF SetMinute
<1>8. CASE SetOrder(i, k)
  <2>1. SlotWith(slot, slot.dow, slot.hour, slot.minute, patch.order) \in Slot
    BY <1>3, <1>4, <1>8 DEF SetOrder, SlotWith, Slot, Patch
  <2>2. Fields(patch.slot, NULL, NULL, NULL, NULL) \in Patch
    BY <1>4 DEF Fields, Patch
  <2>3. SlotWith(slot, slot.dow, slot.hour, slot.minute, patch.order).id = slot.id
    BY DEF SlotWith
  <2> QED BY <1>8, <2>1, <2>2, <2>3 DEF SetOrder
<1> QED BY <1>1, <1>5, <1>6, <1>7, <1>8

LEMMA PatchZoneTypes ==
    ASSUME TypeInv, NEW z \in Zones, NEW config \in ZoneConfig, PatchZone(z, config)
    PROVE  TypeInv'
BY DEF PatchZone, TypeInv, TypeOK, Coherent, request

LEMMA DescribeZoneTypes ==
    ASSUME TypeInv, NEW z \in Zones, DescribeZone(z)
    PROVE  TypeInv'
BY DEF DescribeZone, TypeInv, TypeOK, Coherent, memory, request

LEMMA RestartTypes ==
    ASSUME TypeInv, Restart
    PROVE  TypeInv'
<1>1. NoPatch \in Patch
  BY SizesAssumption DEF NoPatch, Fields, Patch, SlotIds
<1>2. 0 \in PlanIds /\ -1 \in -1 .. MAX_PLANNING_ID
  BY SizesAssumption DEF PlanIds
<1> QED BY <1>1, <1>2 DEF Restart, TypeInv, TypeOK, Coherent, Ops, nvs

\* The slots a load leaves are slots.
LEMMA LoadedSlotsType ==
    ASSUME TypeOK, NEW id \in PlanIds, NEW ids \in [SlotIdx -> StoredSlotIds(id) \cup {NULL}]
    PROVE  LoadedSlots(id, ids) \in [SlotIdx -> Slot \cup {NULL}]
<1>1. ASSUME NEW k \in SlotIdx, ids[k] # NULL
      PROVE  SlotOf(ids[k], nvs_slots[id][ids[k]]) \in Slot
  <2>1. ids[k] \in SlotIds /\ nvs_slots[id][ids[k]] # NULL
    BY <1>1 DEF StoredSlotIds
  <2>2. nvs_slots[id][ids[k]] \in SlotValue
    BY <2>1 DEF TypeOK
  <2> QED BY <2>1, <2>2, SlotOfType
<1> QED BY <1>1 DEF LoadedSlots

LEMMA LoadPlanningTypes ==
    ASSUME TypeInv, NEW id \in PlanIds, LoadPlanning(id)
    PROVE  TypeInv'
<1>1. PICK i \in PlanIdx,
           ids \in [SlotIdx -> StoredSlotIds(id) \cup {NULL}],
           m \in -1 .. MAX_SLOT_ID :
             plannings' = [plannings EXCEPT ![i] =
                [id |-> id, name |-> nvs_plan[id], max_slot_id |-> m,
                 slots |-> LoadedSlots(id, ids)]]
  BY DEF LoadPlanning
<1>2. nvs_plan[id] \in Names
  BY DEF LoadPlanning, TypeInv, TypeOK, Coherent
<1>4. LoadedSlots(id, ids) \in [SlotIdx -> Slot \cup {NULL}]
  BY LoadedSlotsType DEF TypeInv
<1>5. [id |-> id, name |-> nvs_plan[id], max_slot_id |-> m,
       slots |-> LoadedSlots(id, ids)] \in Planning
  BY <1>2, <1>4 DEF Planning
<1>6. plannings' \in [PlanIdx -> Planning \cup {NULL}]
  BY <1>1, <1>5 DEF TypeInv, TypeOK
<1>7. max_id' \in -1 .. MAX_PLANNING_ID
  BY DEF LoadPlanning, Counted, TypeInv, TypeOK, PlanIds
<1> QED BY <1>6, <1>7 DEF LoadPlanning, TypeInv, TypeOK, Coherent, request, nvs

LEMMA DropPlanningTypes ==
    ASSUME TypeInv, NEW id \in PlanIds, DropPlanning(id)
    PROVE  TypeInv'
<1>1. max_id' \in -1 .. MAX_PLANNING_ID
  BY DEF DropPlanning, Counted, TypeInv, TypeOK, PlanIds
<1> QED BY <1>1 DEF DropPlanning, TypeInv, TypeOK, Coherent, request, nvs

LEMMA LoadZonesTypes ==
    ASSUME TypeInv, LoadZones
    PROVE  TypeInv'
<1>1. Default \in ZoneConfig
  BY ValuesAssumption DEF Default, ZoneConfig
<1>2. zones' \in [Zones -> ZoneConfig]
  BY <1>1 DEF LoadZones, LoadedZone, TypeInv, TypeOK
<1> QED BY <1>2 DEF LoadZones, TypeInv, TypeOK, Coherent, request, nvs

\* Every step does.
LEMMA NextTypes == TypeInv /\ [Next]_vars => TypeInv'
<1> SUFFICES ASSUME TypeInv, [Next]_vars PROVE TypeInv'
  OBVIOUS
<1>1. CASE Requests
  BY <1>1, PostPlanningTypes, PatchPlanningTypes, DeletePlanningTypes, PostSlotTypes,
     DeleteSlotTypes, PatchSlotTypes, PatchZoneTypes, DescribeZoneTypes DEF Requests
<1>2. CASE FullRequests
  BY <1>2, PostPlanningFullTypes, PostSlotFullTypes DEF FullRequests
<1>3. CASE Finish
  <2>1. CASE SetSlot
    BY <2>1, SetSlotShape, SetFieldTypes
  <2> QED BY <1>3, <2>1, AddFirstSlotTypes, PurgeSlotTypes, ClearSlotsTypes, EraseKeyTypes DEF Finish
<1>4. CASE Load
  BY <1>4, LoadPlanningTypes, DropPlanningTypes, LoadZonesTypes DEF Load
<1>5. CASE AbortOnHour \/ Restart
  BY <1>5, RestartTypes DEF AbortOnHour
<1>6. CASE UNCHANGED vars
  BY <1>6 DEF vars, memory, request, nvs, TypeInv, TypeOK, Coherent
<1> QED BY <1>1, <1>2, <1>3, <1>4, <1>5, <1>6 DEF Next

\* Every variable keeps its type: in particular the entries read back from NVS
\* are plannings and slots the code could have written, and ids stay in bounds.
THEOREM TypeCorrect == Spec => []TypeOK
<1>1. Init => TypeInv
  BY InitTypes
<1>2. TypeInv /\ [Next]_vars => TypeInv'
  BY NextTypes
<1>3. TypeInv => TypeOK
  BY DEF TypeInv
<1> QED BY <1>1, <1>2, <1>3, PTL DEF Spec

-----------------------------------------------------------------------------
(* What changing one planning, or one stored slot, leaves alone. *)

\* Storing or purging a slot changes one key of one namespace.
LEMMA WithStoredEffect ==
    ASSUME TypeOK, NEW id \in PlanIds, NEW sid \in SlotIds, NEW value
    PROVE  /\ WithStored(id, sid, value)[id][sid] = value
           /\ \A s \in SlotIds : s # sid => WithStored(id, sid, value)[id][s] = nvs_slots[id][s]
           /\ \A p \in PlanIds : p # id => WithStored(id, sid, value)[p] = nvs_slots[p]
BY DEF WithStored, TypeOK

\* The same planning with the same entries: what is listed does not change.
LEMMA SameIdsListed ==
    ASSUME Used(plannings)' = Used(plannings),
           \A i \in Used(plannings) : plannings'[i].id = plannings[i].id,
           NEW id
    PROVE  Listed(id)' <=> Listed(id)
BY DEF Listed, WithId

\* Replacing the planning of an entry by one with the same id.
LEMMA ReplaceEffect ==
    ASSUME TypeOK, NEW i \in Used(plannings), NEW plan \in Planning,
           plan.id = plannings[i].id,
           plannings' = [plannings EXCEPT ![i] = plan]
    PROVE  /\ Used(plannings)' = Used(plannings)
           /\ plannings'[i] = plan
           /\ \A j \in Used(plannings) : j # i => plannings'[j] = plannings[j]
           /\ \A j \in Used(plannings) : plannings'[j].id = plannings[j].id
           /\ \A id : Listed(id)' <=> Listed(id)
<1>1. i \in PlanIdx /\ plannings[i] # NULL /\ plan # NULL
  BY NullAssumption DEF Used, TypeOK
<1>2. Used(plannings)' = Used(plannings)
  BY <1>1 DEF Used, TypeOK
<1>3. plannings'[i] = plan /\ \A j \in Used(plannings) : j # i => plannings'[j] = plannings[j]
  BY <1>1, EntryFacts DEF TypeOK
<1>4. \A j \in Used(plannings) : plannings'[j].id = plannings[j].id
  BY <1>3
<1>5. \A id : Listed(id)' <=> Listed(id)
  BY <1>2, <1>4, SameIdsListed
<1> QED BY <1>2, <1>3, <1>4, <1>5

\* The entries in use after one is replaced.
LEMMA EntryEffect ==
    ASSUME NEW plan \in Planning, NEW k \in SlotIdx, NEW entry \in Slot \cup {NULL},
           NEW slots, slots = [plan.slots EXCEPT ![k] = entry]
    PROVE  /\ slots[k] = entry
           /\ \A l \in SlotIdx : l # k => slots[l] = plan.slots[l]
           /\ entry = NULL => Used(slots) = Used(plan.slots) \ {k}
           /\ entry # NULL => Used(slots) = Used(plan.slots) \cup {k}
BY DEF Planning, Used

-----------------------------------------------------------------------------
(* Each action keeps the invariant. *)

\* Adding a slot: its id is above every id stored for the planning.
LEMMA AddSlotKeeps ==
    ASSUME IInv, NEW i \in Used(plannings), NEW value \in SlotValue, AddSlot(i, value),
           UNCHANGED <<unread, max_id, nvs_plan>>
    PROVE  /\ UniqueIds'
           /\ CoveredIds'
           /\ MemoryIsStored'
           /\ NoLeftoverSlots'
           /\ \A id : Listed(id)' <=> Listed(id)
<1> DEFINE plan == plannings[i]
           sid == plan.max_slot_id + 1
<1> USE DEF IInv, TypeInv
<1>1. /\ plan \in Planning /\ plan.id \in PlanIds
      /\ plan.max_slot_id \in -1 .. MAX_SLOT_ID
      /\ sid \in SlotIds
  BY EntryFacts, SizesAssumption DEF AddSlot, SlotIds
<1>2. PICK k \in SlotIdx :
          /\ k \in Free(plan.slots)
          /\ plannings' = [plannings EXCEPT ![i] =
                 WithSlots(plan, sid, [plan.slots EXCEPT ![k] = SlotOf(sid, value)])]
  BY DEF AddSlot, IsFirst
<1> DEFINE slots == [plan.slots EXCEPT ![k] = SlotOf(sid, value)]
           new == WithSlots(plan, sid, slots)
<1>3. /\ SlotOf(sid, value) \in Slot
      /\ SlotOf(sid, value).id = sid
      /\ ValueOf(SlotOf(sid, value)) = value
      /\ SlotOf(sid, value) # NULL
  BY <1>1, SlotOfType, NullAssumption
<1>4. /\ slots[k] = SlotOf(sid, value)
      /\ \A l \in SlotIdx : l # k => slots[l] = plan.slots[l]
      /\ Used(slots) = Used(plan.slots) \cup {k}
  <2> HIDE DEF plan, sid
  <2> QED BY <1>1, <1>3, EntryEffect
<1>5. new \in Planning /\ new.id = plan.id /\ new.name = plan.name /\ new.max_slot_id = sid
      /\ new.slots = slots
  <2>1. slots \in [SlotIdx -> Slot \cup {NULL}] /\ sid \in -1 .. MAX_SLOT_ID
    BY <1>1, <1>3, EntryType, SizesAssumption DEF SlotIds
  <2> HIDE DEF slots, plan, sid
  <2> QED BY <1>1, <2>1, WithSlotsType
<1>6. /\ Used(plannings)' = Used(plannings)
      /\ plannings'[i] = new
      /\ \A j \in Used(plannings) : j # i => plannings'[j] = plannings[j]
      /\ \A j \in Used(plannings) : plannings'[j].id = plannings[j].id
      /\ \A id : Listed(id)' <=> Listed(id)
  <2> HIDE DEF new
  <2> QED BY <1>2, <1>5, ReplaceEffect DEF new
<1>7. /\ nvs_slots'[plan.id][sid] = value
      /\ \A s \in SlotIds : s # sid => nvs_slots'[plan.id][s] = nvs_slots[plan.id][s]
      /\ \A p \in PlanIds : p # plan.id => nvs_slots'[p] = nvs_slots[p]
  <2>1. nvs_slots' = WithStored(plan.id, sid, value)
    BY DEF AddSlot
  <2> HIDE DEF plan, sid
  <2> QED BY <1>1, <2>1, WithStoredEffect
<1>8. \A j \in Used(plannings) : plannings[j].id = plan.id => j = i
  BY DEF UniqueIds
\* the ids of the slots in memory are stored, so they are not above the counter
<1>9. \A l \in Used(plan.slots) : plan.slots[l].id < sid /\ plan.slots[l].id \in SlotIds
  <2>1. TAKE l \in Used(plan.slots)
  <2>2. plan.slots[l] \in Slot /\ plan.slots[l].id \in SlotIds
    BY EntryFacts
  <2>3. nvs_slots[plan.id][plan.slots[l].id] = ValueOf(plan.slots[l])
    BY DEF MemoryIsStored
  <2>4. nvs_slots[plan.id][plan.slots[l].id] # NULL
    BY <2>2, <2>3, ValueOfType, NullAssumption
  <2>5. plan.slots[l].id <= plan.max_slot_id
    BY <2>2, <2>4 DEF CoveredIds
  <2> QED BY <1>1, <2>2, <2>5 DEF SlotIds
<1>10. UniqueIds'
  <2>1. ASSUME NEW a \in Used(slots), NEW b \in Used(slots), slots[a].id = slots[b].id
        PROVE  a = b
    <3>1. a \in Used(plan.slots) \cup {k} /\ b \in Used(plan.slots) \cup {k}
      BY <1>4, <2>1
    <3>2. \A l \in Used(plan.slots) : l \in SlotIdx
      BY EntryFacts
    <3>3. k \notin Used(plan.slots)
      BY <1>2 DEF Free, Used
    <3>4. \A l \in Used(plan.slots) : slots[l].id = plan.slots[l].id /\ slots[l].id # sid
      BY <1>1, <1>4, <1>9, <3>2, <3>3 DEF SlotIds
    <3>5. slots[k].id = sid
      BY <1>3, <1>4
    <3>6. CASE a = k \/ b = k
      <4> HIDE DEF slots, sid
      <4> QED BY <2>1, <3>1, <3>4, <3>5, <3>6
    <3>7. CASE a # k /\ b # k
      <4>1. a \in Used(plan.slots) /\ b \in Used(plan.slots)
        BY <3>1, <3>7
      <4>2. plan.slots[a].id = plan.slots[b].id
        BY <2>1, <3>4, <4>1
      <4> QED BY <4>1, <4>2 DEF UniqueIds
    <3> QED BY <3>6, <3>7
  <2> HIDE DEF slots, new
  <2> QED BY <1>5, <1>6, <2>1 DEF UniqueIds
<1>11. CoveredIds'
  <2>1. \A s \in SlotIds : nvs_slots'[plan.id][s] # NULL => s <= sid
    BY <1>1, <1>7 DEF CoveredIds, SlotIds
  <2>2. \A j \in Used(plannings) : j # i =>
          /\ plannings'[j] = plannings[j]
          /\ nvs_slots'[plannings[j].id] = nvs_slots[plannings[j].id]
    BY <1>6, <1>7, <1>8, EntryFacts
  <2> HIDE DEF sid, new
  <2> QED BY <1>5, <1>6, <2>1, <2>2 DEF CoveredIds
<1>12. MemoryIsStored'
  <2>1. ASSUME NEW l \in Used(slots)
        PROVE  nvs_slots'[plan.id][slots[l].id] = ValueOf(slots[l])
    <3>1. CASE l = k
      BY <1>3, <1>4, <1>7, <3>1
    <3>2. CASE l # k
      <4>1. l \in Used(plan.slots) /\ l \in SlotIdx
        BY <1>4, <3>2, EntryFacts
      <4>2. slots[l] = plan.slots[l]
        BY <1>4, <3>2, <4>1
      <4>3. plan.slots[l].id \in SlotIds /\ plan.slots[l].id # sid
        BY <1>1, <1>9, <4>1 DEF SlotIds
      <4>4. nvs_slots[plan.id][plan.slots[l].id] = ValueOf(plan.slots[l])
        BY <4>1 DEF MemoryIsStored
      <4> HIDE DEF slots, sid
      <4> QED BY <1>7, <4>2, <4>3, <4>4
    <3> QED BY <3>1, <3>2
  <2>2. nvs_plan[plan.id] = plan.name
    BY DEF MemoryIsStored
  <2>3. \A j \in Used(plannings) : j # i =>
          /\ plannings'[j] = plannings[j]
          /\ nvs_slots'[plannings[j].id] = nvs_slots[plannings[j].id]
    BY <1>6, <1>7, <1>8, EntryFacts
  <2> HIDE DEF slots, new
  <2> QED BY <1>5, <1>6, <2>1, <2>2, <2>3 DEF MemoryIsStored
<1>13. NoLeftoverSlots'
  <2>1. nvs_plan[plan.id] # NULL
    BY EntryFacts, NullAssumption DEF MemoryIsStored
  <2> QED BY <1>7, <2>1 DEF NoLeftoverSlots
<1> QED BY <1>6, <1>10, <1>11, <1>12, <1>13

\* Changing or removing a slot, in memory and in NVS.
LEMMA ReplaceEntryKeeps ==
    ASSUME IInv, NEW i \in Used(plannings), NEW k \in Used(plannings[i].slots),
           NEW entry \in Slot \cup {NULL}, NEW value \in SlotValue \cup {NULL},
           entry # NULL => entry.id = plannings[i].slots[k].id /\ value = ValueOf(entry),
           plannings' = [plannings EXCEPT ![i] = WithEntry(plannings[i], k, entry)],
           nvs_slots' = WithStored(plannings[i].id, plannings[i].slots[k].id, value),
           UNCHANGED <<unread, max_id, nvs_plan>>
    PROVE  /\ UniqueIds'
           /\ CoveredIds'
           /\ MemoryIsStored'
           /\ NoLeftoverSlots'
           /\ \A id : Listed(id)' <=> Listed(id)
<1> DEFINE plan == plannings[i]
           sid == plan.slots[k].id
           slots == [plan.slots EXCEPT ![k] = entry]
           new == WithEntry(plan, k, entry)
<1>0. TypeOK /\ UniqueIds /\ CoveredIds /\ MemoryIsStored /\ NoLeftoverSlots
  BY DEF IInv, TypeInv
<1>1. /\ plan \in Planning /\ plan.id \in PlanIds
      /\ k \in SlotIdx /\ plan.slots[k] \in Slot /\ sid \in SlotIds
  BY <1>0, EntryFacts
<1>2. /\ slots[k] = entry
      /\ \A l \in SlotIdx : l # k => slots[l] = plan.slots[l]
      /\ entry = NULL => Used(slots) = Used(plan.slots) \ {k}
      /\ entry # NULL => Used(slots) = Used(plan.slots) \cup {k}
  <2>1. slots = [plan.slots EXCEPT ![k] = entry]
    OBVIOUS
  <2> HIDE DEF plan, sid, slots, new
  <2> QED BY <1>1, <2>1, EntryEffect
<1>3. Used(slots) \subseteq Used(plan.slots)
  BY <1>2
<1>4. new \in Planning /\ new.id = plan.id /\ new.name = plan.name
      /\ new.max_slot_id = plan.max_slot_id /\ new.slots = slots
  <2> HIDE DEF plan
  <2> QED BY <1>1, WithEntryType
<1>5. /\ Used(plannings)' = Used(plannings)
      /\ plannings'[i] = new
      /\ \A j \in Used(plannings) : j # i => plannings'[j] = plannings[j]
      /\ \A j \in Used(plannings) : plannings'[j].id = plannings[j].id
      /\ \A id : Listed(id)' <=> Listed(id)
  <2>1. plannings' = [plannings EXCEPT ![i] = new]
    OBVIOUS
  <2> HIDE DEF new
  <2> QED BY <1>4, <2>1, <1>0, ReplaceEffect
<1>6. /\ nvs_slots'[plan.id][sid] = value
      /\ \A s \in SlotIds : s # sid => nvs_slots'[plan.id][s] = nvs_slots[plan.id][s]
      /\ \A p \in PlanIds : p # plan.id => nvs_slots'[p] = nvs_slots[p]
  <2>1. nvs_slots' = WithStored(plan.id, sid, value)
    OBVIOUS
  <2> HIDE DEF plan, sid
  <2> QED BY <1>1, <2>1, <1>0, WithStoredEffect
<1>7. \A j \in Used(plannings) : plannings[j].id = plan.id => j = i
  BY <1>0 DEF UniqueIds
<1>8. \A l \in Used(plan.slots) : plan.slots[l].id = sid => l = k
  BY <1>0 DEF UniqueIds
<1>9. \A l \in Used(slots) : l \in SlotIdx /\ slots[l].id = plan.slots[l].id
  BY <1>2, <1>3, <1>0, EntryFacts
<1>10. UniqueIds'
  <2>1. \A a, b \in Used(slots) : slots[a].id = slots[b].id => a = b
    BY <1>0, <1>3, <1>9 DEF UniqueIds
  <2>2. plannings'[i].slots = slots
    BY <1>4, <1>5
  <2>3. \A a, b \in Used(plannings)' : plannings'[a].id = plannings'[b].id => a = b
    BY <1>0, <1>5 DEF UniqueIds
  <2>4. ASSUME NEW j \in Used(plannings)'
        PROVE  \A a, b \in Used(plannings'[j].slots) :
                  plannings'[j].slots[a].id = plannings'[j].slots[b].id => a = b
    <3> HIDE DEF slots, new
    <3>1. CASE j = i
      BY <2>1, <2>2, <3>1
    <3>2. CASE j # i
      BY <1>0, <1>5, <3>2 DEF UniqueIds
    <3> QED BY <3>1, <3>2
  <2> QED BY <2>3, <2>4 DEF UniqueIds, Used
<1>11. \A j \in Used(plannings) : j # i =>
          /\ plannings'[j] = plannings[j]
          /\ nvs_slots'[plannings[j].id] = nvs_slots[plannings[j].id]
  BY <1>5, <1>6, <1>7, <1>0, EntryFacts
<1>12. CoveredIds'
  <2>1. nvs_slots[plan.id][sid] # NULL
    <3>1. nvs_slots[plan.id][sid] = ValueOf(plan.slots[k])
      BY <1>0 DEF MemoryIsStored
    <3> QED BY <1>1, <3>1, ValueOfType, NullAssumption
  <2>2. \A s \in SlotIds : nvs_slots'[plan.id][s] # NULL => s <= plan.max_slot_id
    BY <1>0, <1>1, <1>6, <2>1 DEF CoveredIds
  <2> HIDE DEF new, sid, slots
  <2>3. ASSUME NEW j \in Used(plannings)
        PROVE  /\ plannings'[j].id \notin unread
               /\ \A s \in SlotIds :
                     nvs_slots'[plannings'[j].id][s] # NULL => s <= plannings'[j].max_slot_id
    <3>1. CASE j = i
      <4>1. plannings'[j].id = plan.id /\ plannings'[j].max_slot_id = plan.max_slot_id
        BY <1>4, <1>5, <3>1
      <4>2. plan.id \notin unread
        BY <1>0 DEF CoveredIds
      <4> HIDE DEF plan
      <4> QED BY <2>2, <4>1, <4>2
    <3>2. CASE j # i
      <4>1. plannings'[j] = plannings[j] /\ nvs_slots'[plannings[j].id] = nvs_slots[plannings[j].id]
        BY <1>11, <3>2
      <4>2. /\ plannings[j].id \notin unread
            /\ \A s \in SlotIds : nvs_slots[plannings[j].id][s] # NULL => s <= plannings[j].max_slot_id
        BY <1>0 DEF CoveredIds
      <4> HIDE DEF plan
      <4> QED BY <4>1, <4>2
    <3> QED BY <3>1, <3>2
  <2>4. \A id \in PlanIds : nvs_plan[id] # NULL => id \in unread \/ id <= max_id
    BY <1>0 DEF CoveredIds
  <2>5. \A j \in Used(plannings)' :
          /\ plannings'[j].id \notin unread
          /\ \A s \in SlotIds : nvs_slots'[plannings'[j].id][s] # NULL => s <= plannings'[j].max_slot_id
    BY <1>5, <2>3
  <2> QED BY <2>4, <2>5 DEF CoveredIds
<1>13. MemoryIsStored'
  <2>1. ASSUME NEW l \in Used(slots)
        PROVE  nvs_slots'[plan.id][slots[l].id] = ValueOf(slots[l])
    <3>1. CASE l = k
      <4>1. entry # NULL
        BY <1>2, <3>1, <2>1
      <4>2. slots[l] = entry /\ entry.id = sid /\ value = ValueOf(entry)
        BY <1>2, <3>1, <4>1
      <4> HIDE DEF slots, sid
      <4> QED BY <1>6, <4>2
    <3>2. CASE l # k
      <4>1. l \in Used(plan.slots) /\ l \in SlotIdx
        BY <1>3, <1>9
      <4>2. slots[l] = plan.slots[l]
        BY <1>2, <3>2, <4>1
      <4>3. plan.slots[l].id \in SlotIds /\ plan.slots[l].id # sid
        BY <1>8, <3>2, <4>1, <1>0, EntryFacts
      <4>4. nvs_slots[plan.id][plan.slots[l].id] = ValueOf(plan.slots[l])
        BY <1>0, <4>1 DEF MemoryIsStored
      <4> HIDE DEF slots, sid
      <4> QED BY <1>6, <4>2, <4>3, <4>4
    <3> QED BY <3>1, <3>2
  <2>2. nvs_plan[plan.id] = plan.name
    BY <1>0 DEF MemoryIsStored
  <2>3. plannings'[i].slots = slots /\ plannings'[i].id = plan.id /\ plannings'[i].name = plan.name
    BY <1>4, <1>5
  <2>4. ASSUME NEW j \in Used(plannings)'
        PROVE  /\ nvs_plan'[plannings'[j].id] = plannings'[j].name
               /\ \A l \in Used(plannings'[j].slots) :
                     nvs_slots'[plannings'[j].id][plannings'[j].slots[l].id]
                        = ValueOf(plannings'[j].slots[l])
    <3> HIDE DEF slots, new
    <3>1. CASE j = i
      <4> HIDE DEF plan, sid
      <4>1. nvs_plan'[plannings'[j].id] = plannings'[j].name
        BY <2>2, <2>3, <3>1
      <4>2. \A l \in Used(plannings'[j].slots) :
              nvs_slots'[plannings'[j].id][plannings'[j].slots[l].id] = ValueOf(plannings'[j].slots[l])
        <5>1. plannings'[j].slots = slots /\ plannings'[j].id = plan.id
          BY <2>3, <3>1
        <5> QED BY <2>1, <5>1
      <4> QED BY <4>1, <4>2
    <3>2. CASE j # i
      <4>1. /\ j \in Used(plannings) /\ plannings'[j] = plannings[j]
            /\ nvs_slots'[plannings[j].id] = nvs_slots[plannings[j].id]
        BY <1>5, <1>11, <3>2
      <4>2. /\ nvs_plan[plannings[j].id] = plannings[j].name
            /\ \A l \in Used(plannings[j].slots) :
                  nvs_slots[plannings[j].id][plannings[j].slots[l].id] = ValueOf(plannings[j].slots[l])
        BY <1>0, <4>1 DEF MemoryIsStored
      <4>3. nvs_plan' = nvs_plan
        OBVIOUS
      <4> QED BY <4>1, <4>2, <4>3
    <3> QED BY <3>1, <3>2
  <2> QED BY <2>4 DEF MemoryIsStored
<1>14. NoLeftoverSlots'
  <2>1. nvs_plan[plan.id] # NULL
    BY <1>0, EntryFacts, NullAssumption DEF MemoryIsStored
  <2> QED BY <1>0, <1>6, <2>1 DEF NoLeftoverSlots
<1> QED BY <1>5, <1>10, <1>12, <1>13, <1>14

\* What only depends on the list's ids.
LEMMA SameListKeeps ==
    ASSUME IInv, \A id : Listed(id)' <=> Listed(id),
           phase = "running", phase' = "running",
           op \notin {"purge", "erase"}, op' \notin {"purge", "erase"},
           UNCHANGED zones
    PROVE  DoomedStored' /\ ZoneRefs'
BY DEF IInv, DoomedStored, ZoneRefs

LEMMA AddFirstSlotKeeps ==
    ASSUME IInv, AddFirstSlot
    PROVE  IInv'
<1>1. PICK i \in WithId(plannings, target) : AddSlot(i, FirstValue)
  BY DEF AddFirstSlot
<1>2. i \in Used(plannings)
  BY DEF WithId
<1>3. /\ UniqueIds' /\ CoveredIds' /\ MemoryIsStored' /\ NoLeftoverSlots'
      /\ \A id : Listed(id)' <=> Listed(id)
  BY <1>1, <1>2, FirstValueType, AddSlotKeeps DEF AddFirstSlot
<1>4. DoomedStored' /\ ZoneRefs'
  BY <1>3, SameListKeeps DEF AddFirstSlot
<1> QED BY <1>3, <1>4, AddFirstSlotTypes DEF IInv

LEMMA PostSlotKeeps ==
    ASSUME IInv, NEW id \in PlanIds, NEW value \in SlotValue, PostSlot(id, value)
    PROVE  IInv'
<1>1. PICK i \in PlanIdx : i \in WithId(plannings, id) /\ AddSlot(i, value)
  BY DEF PostSlot, IsFirst
<1>2. i \in Used(plannings)
  BY <1>1 DEF WithId
<1>3. /\ UniqueIds' /\ CoveredIds' /\ MemoryIsStored' /\ NoLeftoverSlots'
      /\ \A p : Listed(p)' <=> Listed(p)
  BY <1>1, <1>2, AddSlotKeeps DEF PostSlot
<1>4. DoomedStored' /\ ZoneRefs'
  BY <1>3, SameListKeeps DEF PostSlot, Idle, request
<1> QED BY <1>3, <1>4, PostSlotTypes DEF IInv

LEMMA DeleteSlotKeeps ==
    ASSUME IInv, NEW id \in PlanIds, NEW sid \in SlotIds, DeleteSlot(id, sid)
    PROVE  IInv'
<1>1. PICK i \in PlanIdx, k \in SlotIdx :
          /\ i \in WithId(plannings, id)
          /\ k \in WithId(plannings[i].slots, sid)
          /\ plannings' = [plannings EXCEPT ![i] = WithEntry(plannings[i], k, NULL)]
  BY DEF DeleteSlot, IsFirst
<1>2. /\ i \in Used(plannings) /\ plannings[i].id = id
      /\ k \in Used(plannings[i].slots) /\ plannings[i].slots[k].id = sid
  BY <1>1 DEF WithId
<1>3. /\ UniqueIds' /\ CoveredIds' /\ MemoryIsStored' /\ NoLeftoverSlots'
      /\ \A p : Listed(p)' <=> Listed(p)
  BY <1>1, <1>2, ReplaceEntryKeeps DEF DeleteSlot
<1>4. DoomedStored' /\ ZoneRefs'
  BY <1>3, SameListKeeps DEF DeleteSlot, Idle, request
<1> QED BY <1>3, <1>4, DeleteSlotTypes DEF IInv

LEMMA SetSlotKeeps ==
    ASSUME IInv, SetSlot
    PROVE  IInv'
<1>1. PICK i \in PlanIdx, k \in SlotIdx, new \in Slot, shielded \in BOOLEAN, left \in Patch :
          SetField(i, k, new, shielded, left) /\ new.id = plannings[i].slots[k].id
  BY SetSlotShape DEF IInv
<1>2. /\ i \in Used(plannings) /\ plannings[i].id = target
      /\ k \in Used(plannings[i].slots) /\ plannings[i].slots[k].id = patch.slot
  BY <1>1 DEF SetField, IsFirst, WithId
<1>3. /\ UniqueIds' /\ CoveredIds' /\ MemoryIsStored' /\ NoLeftoverSlots'
      /\ \A p : Listed(p)' <=> Listed(p)
  <2>1. CASE UNCHANGED <<plannings, nvs_slots>>
    <3>1. UNCHANGED <<plannings, nvs_slots, unread, max_id, nvs_plan>>
      BY <1>1, <2>1 DEF SetField
    <3>2. UniqueIds' /\ \A p : Listed(p)' <=> Listed(p)
      BY <3>1 DEF IInv, UniqueIds, Listed
    <3>3. CoveredIds'
      BY <3>1 DEF IInv, CoveredIds
    <3>4. MemoryIsStored'
      BY <3>1 DEF IInv, MemoryIsStored
    <3>5. NoLeftoverSlots'
      BY <3>1 DEF IInv, NoLeftoverSlots
    <3> QED BY <3>2, <3>3, <3>4, <3>5
  <2>2. CASE /\ plannings' = [plannings EXCEPT ![i] = WithEntry(plannings[i], k, new)]
             /\ nvs_slots' = WithStored(target, patch.slot, ValueOf(new))
    BY <1>1, <1>2, <2>2, ValueOfType, ReplaceEntryKeeps DEF SetField
  <2> QED BY <1>1, <2>1, <2>2 DEF SetField
<1>4. phase = "running" /\ op = "patch" /\ op' \in {"idle", "patch"}
  BY <1>1 DEF SetField, GoOn, GiveUp, IInv, TypeInv, TypeOK, Coherent
<1>5. DoomedStored' /\ ZoneRefs'
  BY <1>1, <1>3, <1>4, SameListKeeps DEF SetField
<1> QED BY <1>1, <1>3, <1>5, SetFieldTypes DEF IInv

LEMMA InitKeeps == Init => IInv
<1> SUFFICES ASSUME Init PROVE IInv
  OBVIOUS
<1>1. Used(plannings) = {}
  BY DEF Init, Used
<1>2. /\ \A p \in PlanIds : nvs_plan[p] = NULL /\ nvs_slots[p] = NoStoredSlots
      /\ phase = "loading" /\ op = "idle"
  BY DEF Init
<1> QED BY <1>1, <1>2, InitTypes
        DEF IInv, UniqueIds, CoveredIds, MemoryIsStored, DoomedStored, NoLeftoverSlots, ZoneRefs

\* Once the boot is over, the ids of the list are stored and counted, and so are
\* the ids of the slots.
LEMMA CountedIds ==
    ASSUME IInv, NEW i \in Used(plannings)
    PROVE  /\ nvs_plan[plannings[i].id] # NULL
           /\ phase = "running" => plannings[i].id <= max_id
           /\ \A k \in Used(plannings[i].slots) : plannings[i].slots[k].id <= plannings[i].max_slot_id
<1>0. TypeOK /\ Coherent /\ CoveredIds /\ MemoryIsStored
  BY DEF IInv, TypeInv
<1>1. plannings[i].id \in PlanIds /\ plannings[i].name \in Names
  BY <1>0, EntryFacts
<1>2. nvs_plan[plannings[i].id] # NULL
  BY <1>0, <1>1, NullAssumption DEF MemoryIsStored
<1>3. phase = "running" => plannings[i].id <= max_id
  BY <1>0, <1>1, <1>2 DEF CoveredIds, Coherent
<1>4. ASSUME NEW k \in Used(plannings[i].slots)
      PROVE  plannings[i].slots[k].id <= plannings[i].max_slot_id
  <2>1. plannings[i].slots[k] \in Slot /\ plannings[i].slots[k].id \in SlotIds
    BY <1>0, EntryFacts
  <2>2. nvs_slots[plannings[i].id][plannings[i].slots[k].id] = ValueOf(plannings[i].slots[k])
    BY <1>0 DEF MemoryIsStored
  <2>3. nvs_slots[plannings[i].id][plannings[i].slots[k].id] # NULL
    BY <2>1, <2>2, ValueOfType, NullAssumption
  <2> QED BY <1>0, <2>1, <2>3 DEF CoveredIds
<1> QED BY <1>2, <1>3, <1>4

\* A planning put in a free entry.
LEMMA AppendEffect ==
    ASSUME TypeOK, NEW i \in Free(plannings), NEW plan \in Planning,
           plannings' = [plannings EXCEPT ![i] = plan]
    PROVE  /\ Used(plannings)' = Used(plannings) \cup {i}
           /\ plannings'[i] = plan
           /\ \A j \in Used(plannings) : j # i /\ plannings'[j] = plannings[j]
<1>1. i \in PlanIdx /\ plannings[i] = NULL /\ plan # NULL
  BY NullAssumption DEF Free, TypeOK
<1> QED BY <1>1 DEF Used, TypeOK

LEMMA PostPlanningKeeps ==
    ASSUME IInv, NEW name \in Names, PostPlanning(name)
    PROVE  IInv'
<1> DEFINE id == max_id + 1
           plan == NewPlanning(id, name)
<1>0. /\ TypeOK /\ Coherent /\ UniqueIds /\ CoveredIds /\ MemoryIsStored
      /\ DoomedStored /\ NoLeftoverSlots /\ ZoneRefs
  BY DEF IInv, TypeInv
<1>1. /\ id \in PlanIds /\ max_id \in Int
      /\ phase = "running" /\ phase' = "running" /\ op = "idle" /\ op' = "create"
      /\ unread = {} /\ unread' = {}
      /\ max_id' = id
      /\ nvs_plan' = [nvs_plan EXCEPT ![id] = name]
      /\ UNCHANGED <<nvs_slots, zones>>
  BY <1>0, SizesAssumption DEF PostPlanning, Idle, TypeOK, Coherent, PlanIds
<1>2. plan \in Planning /\ plan.id = id /\ plan.name = name /\ Used(plan.slots) = {}
  BY <1>1, SizesAssumption DEF NewPlanning, Planning, EmptySlots, Used
<1>3. PICK i \in Free(plannings) : plannings' = [plannings EXCEPT ![i] = plan]
  BY DEF PostPlanning, IsFirst
<1> HIDE DEF id, plan
<1>4. /\ Used(plannings)' = Used(plannings) \cup {i}
      /\ plannings'[i] = plan
      /\ \A j \in Used(plannings) : j # i /\ plannings'[j] = plannings[j]
  BY <1>0, <1>2, <1>3, AppendEffect
<1>5. \A j \in Used(plannings) : plannings[j].id \in PlanIds /\ plannings[j].id # id
  BY <1>0, <1>1, CountedIds, EntryFacts DEF id
<1>6. nvs_plan[id] = NULL /\ nvs_slots[id] = NoStoredSlots
  BY <1>0, <1>1 DEF CoveredIds, NoLeftoverSlots, id
<1>7. UniqueIds'
  BY <1>0, <1>2, <1>4, <1>5 DEF UniqueIds
<1>8. CoveredIds'
  <2>1. \A p \in PlanIds : nvs_plan'[p] # NULL => p <= max_id'
    BY <1>0, <1>1, <1>6 DEF CoveredIds, TypeOK, PlanIds, id
  <2>2. \A s \in SlotIds : nvs_slots[id][s] = NULL
    BY <1>6 DEF NoStoredSlots
  <2> QED BY <1>0, <1>1, <1>2, <1>4, <2>1, <2>2 DEF CoveredIds
<1>9. MemoryIsStored'
  <2>1. nvs_plan'[id] = name /\ \A p \in PlanIds : p # id => nvs_plan'[p] = nvs_plan[p]
    BY <1>0, <1>1 DEF TypeOK
  <2>2. ASSUME NEW j \in Used(plannings)
        PROVE  /\ nvs_plan'[plannings[j].id] = plannings[j].name
               /\ \A k \in Used(plannings[j].slots) :
                     nvs_slots'[plannings[j].id][plannings[j].slots[k].id] = ValueOf(plannings[j].slots[k])
    BY <1>0, <1>1, <1>5, <2>1 DEF MemoryIsStored
  <2> QED BY <1>2, <1>4, <2>1, <2>2 DEF MemoryIsStored
<1>10. NoLeftoverSlots'
  BY <1>0, <1>1, NullAssumption DEF NoLeftoverSlots, TypeOK
<1>11. DoomedStored'
  BY <1>1 DEF DoomedStored
<1>12. ZoneRefs'
  <2>1. \A p : Listed(p) => Listed(p)'
    BY <1>4 DEF Listed, WithId
  <2> QED BY <1>0, <1>1, <2>1 DEF ZoneRefs
<1> QED BY <1>7, <1>8, <1>9, <1>10, <1>11, <1>12, PostPlanningTypes DEF IInv

LEMMA PostPlanningFullKeeps ==
    ASSUME IInv, NEW name \in Names, PostPlanningFull(name)
    PROVE  IInv'
<1> DEFINE id == max_id + 1
<1>0. /\ TypeOK /\ Coherent /\ UniqueIds /\ CoveredIds /\ MemoryIsStored
      /\ DoomedStored /\ NoLeftoverSlots /\ ZoneRefs
  BY DEF IInv, TypeInv
<1>1. /\ id \in PlanIds /\ max_id \in Int
      /\ phase = "running" /\ op = "idle"
      /\ unread = {}
      /\ max_id' = id
      /\ nvs_plan' = [nvs_plan EXCEPT ![id] = name]
      /\ UNCHANGED <<phase, op, unread, doomed, plannings, nvs_slots, zones>>
  BY <1>0, SizesAssumption DEF PostPlanningFull, Idle, TypeOK, Coherent, PlanIds, request
<1>2. \A j \in Used(plannings) : plannings[j].id \in PlanIds /\ plannings[j].id # id
  BY <1>0, <1>1, CountedIds, EntryFacts
<1>3. UniqueIds'
  BY <1>0, <1>1 DEF UniqueIds
<1>4. CoveredIds'
  <2>1. \A p \in PlanIds : nvs_plan'[p] # NULL => p <= max_id'
    BY <1>0, <1>1 DEF CoveredIds, TypeOK, PlanIds
  <2> QED BY <1>0, <1>1, <2>1 DEF CoveredIds
<1>5. MemoryIsStored'
  <2>1. \A p \in PlanIds : p # id => nvs_plan'[p] = nvs_plan[p]
    BY <1>0, <1>1 DEF TypeOK
  <2> QED BY <1>0, <1>1, <1>2, <2>1 DEF MemoryIsStored
<1>6. NoLeftoverSlots'
  BY <1>0, <1>1, NullAssumption DEF NoLeftoverSlots, TypeOK
<1>7. DoomedStored' /\ ZoneRefs'
  BY <1>0, <1>1 DEF DoomedStored, ZoneRefs, Listed
<1> QED BY <1>3, <1>4, <1>5, <1>6, <1>7, PostPlanningFullTypes DEF IInv

LEMMA PatchPlanningKeeps ==
    ASSUME IInv, NEW id \in PlanIds, NEW name \in Names, PatchPlanning(id, name)
    PROVE  IInv'
<1>0. TypeOK /\ UniqueIds /\ CoveredIds /\ MemoryIsStored /\ NoLeftoverSlots
  BY DEF IInv, TypeInv
<1>1. PICK i \in WithId(plannings, id) : plannings' = [plannings EXCEPT ![i] = Renamed(plannings[i], name)]
  BY DEF PatchPlanning, IsFirst
<1>2. i \in Used(plannings) /\ plannings[i] \in Planning /\ plannings[i].id = id
  BY <1>0, <1>1, EntryFacts DEF WithId
<1> DEFINE new == Renamed(plannings[i], name)
<1>3. /\ new \in Planning /\ new.id = id /\ new.name = name
      /\ new.max_slot_id = plannings[i].max_slot_id /\ new.slots = plannings[i].slots
  BY <1>2 DEF Renamed, Planning
<1>4. plannings' = [plannings EXCEPT ![i] = new]
  BY <1>1
<1> HIDE DEF new
<1>5. /\ Used(plannings)' = Used(plannings)
      /\ plannings'[i] = new
      /\ \A j \in Used(plannings) : j # i => plannings'[j] = plannings[j]
      /\ \A j \in Used(plannings) : plannings'[j].id = plannings[j].id
      /\ \A p : Listed(p)' <=> Listed(p)
  BY <1>0, <1>2, <1>3, <1>4, ReplaceEffect
<1>6. \A j \in Used(plannings) : /\ plannings'[j].slots = plannings[j].slots
                                 /\ plannings'[j].max_slot_id = plannings[j].max_slot_id
  BY <1>3, <1>5
<1>7. \A j \in Used(plannings) : plannings[j].id = id => j = i
  BY <1>0, <1>2 DEF UniqueIds
<1>8. /\ UNCHANGED <<unread, max_id, nvs_slots, zones, phase, op>>
      /\ phase = "running" /\ op = "idle"
      /\ nvs_plan' = [nvs_plan EXCEPT ![id] = name]
  BY DEF PatchPlanning, request, Idle
<1>9. UniqueIds'
  BY <1>0, <1>5, <1>6 DEF UniqueIds
<1>10. nvs_plan'[id] = name /\ \A p \in PlanIds : p # id => nvs_plan'[p] = nvs_plan[p]
  BY <1>0, <1>8 DEF TypeOK
<1>11. nvs_plan[id] # NULL
  BY <1>2, CountedIds
<1>12. CoveredIds'
  BY <1>0, <1>5, <1>6, <1>8, <1>10, <1>11 DEF CoveredIds
<1>13. MemoryIsStored'
  <2>1. ASSUME NEW j \in Used(plannings)
        PROVE  nvs_plan'[plannings'[j].id] = plannings'[j].name
    <3>1. CASE j = i
      BY <1>3, <1>5, <1>10, <3>1
    <3>2. CASE j # i
      BY <1>0, <1>5, <1>7, <1>10, <3>2, EntryFacts DEF MemoryIsStored
    <3> QED BY <3>1, <3>2
  <2> QED BY <1>0, <1>5, <1>6, <1>8, <2>1 DEF MemoryIsStored
<1>14. NoLeftoverSlots'
  BY <1>0, <1>8, <1>10, NullAssumption DEF NoLeftoverSlots
<1>15. DoomedStored' /\ ZoneRefs'
  BY <1>5, <1>8, SameListKeeps
<1> QED BY <1>9, <1>12, <1>13, <1>14, <1>15, PatchPlanningTypes DEF IInv

LEMMA PostSlotFullKeeps ==
    ASSUME IInv, NEW id \in PlanIds, NEW value \in SlotValue, PostSlotFull(id, value)
    PROVE  IInv'
<1>0. TypeOK /\ UniqueIds /\ CoveredIds /\ MemoryIsStored /\ NoLeftoverSlots
  BY DEF IInv, TypeInv
<1>1. PICK i \in WithId(plannings, id) :
          /\ plannings[i].max_slot_id < MAX_SLOT_ID
          /\ nvs_slots' = WithStored(id, plannings[i].max_slot_id + 1, value)
          /\ plannings' = [plannings EXCEPT ![i] =
                WithSlots(plannings[i], plannings[i].max_slot_id + 1, plannings[i].slots)]
  BY DEF PostSlotFull, IsFirst
<1> DEFINE sid == plannings[i].max_slot_id + 1
           new == WithSlots(plannings[i], sid, plannings[i].slots)
<1>2. /\ i \in Used(plannings) /\ plannings[i] \in Planning /\ plannings[i].id = id
      /\ plannings[i].slots \in [SlotIdx -> Slot \cup {NULL}]
      /\ plannings[i].max_slot_id \in -1 .. MAX_SLOT_ID
  BY <1>0, <1>1, EntryFacts DEF WithId
<1>3. /\ sid \in SlotIds /\ sid \in -1 .. MAX_SLOT_ID
      /\ \A s \in SlotIds : s <= plannings[i].max_slot_id => s # sid /\ s <= sid
  BY <1>1, <1>2, SizesAssumption DEF SlotIds
<1>4. nvs_slots' = WithStored(id, sid, value) /\ plannings' = [plannings EXCEPT ![i] = new]
  BY <1>1
<1> HIDE DEF sid
<1>5. /\ new \in Planning /\ new.id = id /\ new.name = plannings[i].name
      /\ new.max_slot_id = sid /\ new.slots = plannings[i].slots
  BY <1>2, <1>3, WithSlotsType
<1> HIDE DEF new
<1>6. /\ Used(plannings)' = Used(plannings)
      /\ plannings'[i] = new
      /\ \A j \in Used(plannings) : j # i => plannings'[j] = plannings[j]
      /\ \A j \in Used(plannings) : plannings'[j].id = plannings[j].id
      /\ \A p : Listed(p)' <=> Listed(p)
  BY <1>0, <1>2, <1>4, <1>5, ReplaceEffect
<1>7. /\ nvs_slots'[id][sid] = value
      /\ \A s \in SlotIds : s # sid => nvs_slots'[id][s] = nvs_slots[id][s]
      /\ \A p \in PlanIds : p # id => nvs_slots'[p] = nvs_slots[p]
  BY <1>0, <1>3, <1>4, WithStoredEffect
<1>8. /\ UNCHANGED <<unread, max_id, nvs_plan, zones, phase, op>>
      /\ phase = "running" /\ op = "idle"
  BY DEF PostSlotFull, request, Idle
<1>9. \A j \in Used(plannings) : j # i =>
          /\ plannings'[j] = plannings[j]
          /\ nvs_slots'[plannings[j].id] = nvs_slots[plannings[j].id]
  BY <1>0, <1>2, <1>6, <1>7, EntryFacts DEF UniqueIds
<1>10. \A j \in Used(plannings) : /\ plannings'[j].slots = plannings[j].slots
                                  /\ plannings'[j].name = plannings[j].name
  BY <1>5, <1>6
<1>11. UniqueIds'
  BY <1>0, <1>6, <1>10 DEF UniqueIds
<1>12. CoveredIds'
  <2>1. \A s \in SlotIds : nvs_slots'[id][s] # NULL => s <= sid
    <3>1. \A s \in SlotIds : nvs_slots[id][s] # NULL => s <= plannings[i].max_slot_id
      BY <1>0, <1>2 DEF CoveredIds
    <3>2. sid <= sid
      BY <1>3 DEF SlotIds
    <3> QED BY <1>3, <1>7, <3>1, <3>2
  <2> QED BY <1>0, <1>2, <1>5, <1>6, <1>8, <1>9, <2>1 DEF CoveredIds
<1>13. MemoryIsStored'
  <2>1. ASSUME NEW j \in Used(plannings), NEW l \in Used(plannings[j].slots)
        PROVE  nvs_slots'[plannings[j].id][plannings[j].slots[l].id]
                  = nvs_slots[plannings[j].id][plannings[j].slots[l].id]
    <3>1. CASE j = i
      <4>1. plannings[i].slots[l].id \in SlotIds /\ plannings[i].slots[l].id # sid
        BY <1>0, <1>3, <2>1, <3>1, CountedIds, EntryFacts
      <4> QED BY <1>2, <1>7, <3>1, <4>1
    <3>2. CASE j # i
      BY <1>9, <3>2
    <3> QED BY <3>1, <3>2
  <2> QED BY <1>0, <1>6, <1>8, <1>10, <2>1 DEF MemoryIsStored
<1>14. NoLeftoverSlots'
  BY <1>0, <1>2, <1>7, <1>8, CountedIds DEF NoLeftoverSlots
<1>15. DoomedStored' /\ ZoneRefs'
  BY <1>6, <1>8, SameListKeeps
<1> QED BY <1>11, <1>12, <1>13, <1>14, <1>15, PostSlotFullTypes DEF IInv

LEMMA DeletePlanningKeeps ==
    ASSUME IInv, NEW id \in PlanIds, DeletePlanning(id)
    PROVE  IInv'
<1>0. /\ TypeOK /\ Coherent /\ UniqueIds /\ CoveredIds /\ MemoryIsStored
      /\ DoomedStored /\ NoLeftoverSlots /\ ZoneRefs
  BY DEF IInv, TypeInv
<1>1. PICK i \in WithId(plannings, id) :
          doomed' = plannings[i] /\ plannings' = [plannings EXCEPT ![i] = NULL]
  BY DEF DeletePlanning, IsFirst
<1>2. i \in Used(plannings) /\ plannings[i].id = id /\ doomed'.id = id
  BY <1>1 DEF WithId
<1>3. /\ Used(plannings)' = Used(plannings) \ {i}
      /\ \A j \in Used(plannings)' : plannings'[j] = plannings[j]
  BY <1>0, <1>1 DEF Used, TypeOK
<1>4. /\ UNCHANGED <<unread, max_id, nvs_plan, nvs_slots, zones, phase>>
      /\ phase = "running" /\ op = "idle" /\ op' = "purge"
  BY DEF DeletePlanning, Idle, nvs
<1>5. \A p : p # id => (Listed(p)' <=> Listed(p))
  BY <1>2, <1>3 DEF Listed, WithId
<1>6. ~Listed(id)'
  BY <1>0, <1>2, <1>3 DEF Listed, WithId, UniqueIds
<1>7. UniqueIds' /\ CoveredIds' /\ MemoryIsStored' /\ NoLeftoverSlots'
  BY <1>0, <1>3, <1>4 DEF UniqueIds, CoveredIds, MemoryIsStored, NoLeftoverSlots
<1>8. DoomedStored'
  BY <1>2, <1>4, <1>6, CountedIds DEF DoomedStored
<1>9. ZoneRefs'
  BY <1>0, <1>2, <1>4, <1>5 DEF ZoneRefs
<1> QED BY <1>7, <1>8, <1>9, DeletePlanningTypes DEF IInv

LEMMA PurgeSlotKeeps ==
    ASSUME IInv, PurgeSlot
    PROVE  IInv'
<1>0. /\ TypeOK /\ Coherent /\ UniqueIds /\ CoveredIds /\ MemoryIsStored
      /\ DoomedStored /\ NoLeftoverSlots /\ ZoneRefs
  BY DEF IInv, TypeInv
<1>1. PICK k \in Used(doomed.slots) :
          /\ nvs_slots' = WithStored(doomed.id, doomed.slots[k].id, NULL)
          /\ doomed' = WithEntry(doomed, k, NULL)
  BY DEF PurgeSlot, IsFirst
<1>2. /\ op = "purge" /\ doomed \in Planning
      /\ UNCHANGED <<phase, unread, plannings, max_id, zones, nvs_plan, op>>
  BY <1>0 DEF PurgeSlot, TypeOK, Coherent, memory
<1>3. doomed.id \in PlanIds /\ k \in SlotIdx /\ doomed.slots[k].id \in SlotIds
  BY <1>1, <1>2 DEF Planning, Used, Slot
<1>4. doomed'.id = doomed.id
  BY <1>1, <1>2, <1>3, WithEntryType
<1>5. /\ \A s \in SlotIds : nvs_slots'[doomed.id][s] # NULL => nvs_slots[doomed.id][s] # NULL
      /\ \A p \in PlanIds : p # doomed.id => nvs_slots'[p] = nvs_slots[p]
  BY <1>0, <1>1, <1>3, WithStoredEffect
<1>6. \A j \in Used(plannings) : plannings[j].id \in PlanIds /\ plannings[j].id # doomed.id
  BY <1>0, <1>2, EntryFacts DEF DoomedStored, Listed, WithId
<1>7. UniqueIds' /\ CoveredIds' /\ MemoryIsStored'
  BY <1>0, <1>2, <1>5, <1>6 DEF UniqueIds, CoveredIds, MemoryIsStored
<1>8. NoLeftoverSlots'
  BY <1>0, <1>2, <1>5 DEF NoLeftoverSlots, DoomedStored
<1>9. DoomedStored' /\ ZoneRefs'
  BY <1>0, <1>2, <1>4 DEF DoomedStored, ZoneRefs, Listed
<1> QED BY <1>7, <1>8, <1>9, PurgeSlotTypes DEF IInv

LEMMA ClearSlotsKeeps ==
    ASSUME IInv, ClearSlots
    PROVE  IInv'
<1>0. /\ TypeOK /\ Coherent /\ UniqueIds /\ CoveredIds /\ MemoryIsStored
      /\ DoomedStored /\ NoLeftoverSlots /\ ZoneRefs
  BY DEF IInv, TypeInv
<1>1. /\ op = "purge" /\ op' = "erase" /\ doomed \in Planning /\ phase = "running"
      /\ zones' = ReleasedZones(doomed.id)
      /\ nvs_slots' = [nvs_slots EXCEPT ![doomed.id] = NoStoredSlots]
      /\ UNCHANGED <<phase, unread, plannings, max_id, nvs_plan, doomed>>
  BY <1>0 DEF ClearSlots, TypeOK, Coherent
<1>2. doomed.id \in PlanIds
  BY <1>1 DEF Planning
<1>3. /\ nvs_slots'[doomed.id] = NoStoredSlots
      /\ \A p \in PlanIds : p # doomed.id => nvs_slots'[p] = nvs_slots[p]
  BY <1>0, <1>1, <1>2 DEF TypeOK
<1>4. \A j \in Used(plannings) : plannings[j].id \in PlanIds /\ plannings[j].id # doomed.id
  BY <1>0, <1>1, EntryFacts DEF DoomedStored, Listed, WithId
<1>5. UniqueIds' /\ CoveredIds' /\ MemoryIsStored' /\ NoLeftoverSlots'
  BY <1>0, <1>1, <1>3, <1>4 DEF UniqueIds, CoveredIds, MemoryIsStored, NoLeftoverSlots
<1>6. DoomedStored'
  BY <1>0, <1>1, <1>3 DEF DoomedStored, Listed
<1>7. ASSUME NEW z \in Zones, zones'[z].mode = "planning"
      PROVE  Listed(zones[z].value)'
  <2>1. zones'[z] = zones[z] /\ zones[z] # [mode |-> "planning", value |-> doomed.id]
    BY <1>1, <1>7 DEF ReleasedZones, Default
  <2>2. PICK p \in PlanIds : zones[z] = [mode |-> "planning", value |-> p]
    BY <1>0, <1>7, <2>1 DEF TypeOK, ZoneConfig
  <2>3. zones[z].value # doomed.id
    BY <2>1, <2>2
  <2> QED BY <1>0, <1>1, <1>7, <2>1, <2>3 DEF ZoneRefs, Listed
<1>8. ZoneRefs'
  BY <1>7 DEF ZoneRefs
<1> QED BY <1>5, <1>6, <1>8, ClearSlotsTypes DEF IInv

LEMMA EraseKeyKeeps ==
    ASSUME IInv, EraseKey
    PROVE  IInv'
<1>0. /\ TypeOK /\ Coherent /\ UniqueIds /\ CoveredIds /\ MemoryIsStored
      /\ DoomedStored /\ NoLeftoverSlots /\ ZoneRefs
  BY DEF IInv, TypeInv
<1>1. /\ op = "erase" /\ op' = "idle" /\ doomed \in Planning
      /\ nvs_plan' = [nvs_plan EXCEPT ![doomed.id] = NULL]
      /\ UNCHANGED <<phase, unread, plannings, max_id, zones, nvs_slots>>
  BY <1>0 DEF EraseKey, TypeOK, Coherent, memory
<1>2. \A p \in PlanIds : p # doomed.id => nvs_plan'[p] = nvs_plan[p]
  BY <1>0, <1>1 DEF TypeOK
<1>3. nvs_plan'[doomed.id] = NULL /\ nvs_slots[doomed.id] = NoStoredSlots
  BY <1>0, <1>1 DEF TypeOK, Planning, DoomedStored
<1>4. \A j \in Used(plannings) : plannings[j].id \in PlanIds /\ plannings[j].id # doomed.id
  BY <1>0, <1>1, EntryFacts DEF DoomedStored, Listed, WithId
<1>5. UniqueIds' /\ CoveredIds' /\ MemoryIsStored' /\ NoLeftoverSlots'
  BY <1>0, <1>1, <1>2, <1>3, <1>4 DEF UniqueIds, CoveredIds, MemoryIsStored, NoLeftoverSlots
<1>6. DoomedStored' /\ ZoneRefs'
  BY <1>0, <1>1 DEF DoomedStored, ZoneRefs, Listed
<1> QED BY <1>5, <1>6, EraseKeyTypes DEF IInv

LEMMA PatchSlotKeeps ==
    ASSUME IInv, NEW id \in PlanIds, NEW fields \in Patch, PatchSlot(id, fields)
    PROVE  IInv'
<1>0. /\ UniqueIds /\ CoveredIds /\ MemoryIsStored
      /\ DoomedStored /\ NoLeftoverSlots /\ ZoneRefs
  BY DEF IInv
<1>1. op = "idle" /\ op' = "patch" /\ UNCHANGED <<memory, nvs, doomed>>
  BY DEF PatchSlot, Idle
<1>2. UniqueIds' /\ CoveredIds' /\ MemoryIsStored' /\ NoLeftoverSlots'
  BY <1>0, <1>1 DEF UniqueIds, CoveredIds, MemoryIsStored, NoLeftoverSlots, memory, nvs
<1>3. DoomedStored' /\ ZoneRefs'
  BY <1>0, <1>1 DEF DoomedStored, ZoneRefs, Listed, memory
<1> QED BY <1>2, <1>3, PatchSlotTypes DEF IInv

LEMMA PatchZoneKeeps ==
    ASSUME IInv, NEW z \in Zones, NEW config \in ZoneConfig, PatchZone(z, config)
    PROVE  IInv'
<1>0. /\ TypeOK /\ UniqueIds /\ CoveredIds /\ MemoryIsStored
      /\ DoomedStored /\ NoLeftoverSlots /\ ZoneRefs
  BY DEF IInv, TypeInv
<1>1. /\ op = "idle" /\ phase = "running"
      /\ config.mode = "planning" => Listed(config.value)
      /\ zones' = [zones EXCEPT ![z] = config]
      /\ UNCHANGED <<phase, unread, plannings, max_id, nvs_plan, nvs_slots, request>>
  BY DEF PatchZone, Idle
<1>2. UniqueIds' /\ CoveredIds' /\ MemoryIsStored' /\ NoLeftoverSlots'
  BY <1>0, <1>1 DEF UniqueIds, CoveredIds, MemoryIsStored, NoLeftoverSlots
<1>3. DoomedStored'
  BY <1>1 DEF DoomedStored, request
<1>4. ZoneRefs'
  BY <1>0, <1>1 DEF ZoneRefs, Listed, TypeOK, request
<1> QED BY <1>2, <1>3, <1>4, PatchZoneTypes DEF IInv

LEMMA DescribeZoneKeeps ==
    ASSUME IInv, NEW z \in Zones, DescribeZone(z)
    PROVE  IInv'
<1>1. UNCHANGED <<phase, unread, plannings, max_id, zones, nvs_plan, nvs_slots, op, doomed>>
  BY DEF DescribeZone, memory, request
<1> QED BY <1>1, DescribeZoneTypes DEF IInv, UniqueIds, CoveredIds, MemoryIsStored, DoomedStored,
           NoLeftoverSlots, ZoneRefs, Listed

\* Nothing is listed any more, and what is stored is still to be read.
LEMMA RestartKeeps ==
    ASSUME IInv, Restart
    PROVE  IInv'
<1>0. NoLeftoverSlots
  BY DEF IInv
<1>1. /\ Used(plannings)' = {} /\ phase' = "loading" /\ op' = "idle"
      /\ unread' = {id \in PlanIds : nvs_plan[id] # NULL}
      /\ UNCHANGED <<nvs_plan, nvs_slots>>
  BY DEF Restart, Used, nvs
<1>2. UniqueIds' /\ CoveredIds' /\ MemoryIsStored' /\ NoLeftoverSlots'
  BY <1>0, <1>1 DEF UniqueIds, CoveredIds, MemoryIsStored, NoLeftoverSlots
<1>3. DoomedStored' /\ ZoneRefs'
  BY <1>1 DEF DoomedStored, ZoneRefs
<1> QED BY <1>2, <1>3, RestartTypes DEF IInv

\* A planning read back: its id is not in the list yet, and the ids of its slots
\* are the keys they were read from.
LEMMA LoadPlanningKeeps ==
    ASSUME IInv, NEW id \in PlanIds, LoadPlanning(id)
    PROVE  IInv'
<1>0. TypeOK /\ Coherent /\ UniqueIds /\ CoveredIds /\ MemoryIsStored /\ NoLeftoverSlots
  BY DEF IInv, TypeInv
<1>1. PICK i \in Free(plannings),
           ids \in [SlotIdx -> StoredSlotIds(id) \cup {NULL}],
           m \in -1 .. MAX_SLOT_ID :
             /\ IsLoadOrder(ids, StoredSlotIds(id))
             /\ IsHighest(m, StoredSlotIds(id))
             /\ plannings' = [plannings EXCEPT ![i] =
                [id |-> id, name |-> nvs_plan[id], max_slot_id |-> m,
                 slots |-> LoadedSlots(id, ids)]]
  BY DEF LoadPlanning, IsFirst
<1> DEFINE slots == LoadedSlots(id, ids)
           plan == [id |-> id, name |-> nvs_plan[id], max_slot_id |-> m, slots |-> slots]
<1>2. /\ phase = "loading" /\ id \in unread /\ unread' = unread \ {id}
      /\ max_id \in Int /\ max_id' \in Int /\ id <= max_id' /\ max_id <= max_id'
      /\ UNCHANGED <<phase, op, nvs_plan, nvs_slots>>
  BY <1>0 DEF LoadPlanning, Counted, request, nvs, TypeOK, PlanIds
<1>3. /\ Used(slots) = {k \in SlotIdx : ids[k] # NULL}
      /\ \A k \in Used(slots) : /\ ids[k] \in SlotIds
                                /\ slots[k].id = ids[k]
                                /\ ValueOf(slots[k]) = nvs_slots[id][ids[k]]
  <2>1. ASSUME NEW k \in SlotIdx, ids[k] # NULL
        PROVE  /\ ids[k] \in SlotIds
               /\ slots[k] = SlotOf(ids[k], nvs_slots[id][ids[k]])
               /\ SlotOf(ids[k], nvs_slots[id][ids[k]]) \in Slot
               /\ slots[k].id = ids[k]
               /\ ValueOf(slots[k]) = nvs_slots[id][ids[k]]
    <3>1. ids[k] \in SlotIds /\ nvs_slots[id][ids[k]] \in SlotValue
      BY <1>0, <2>1 DEF StoredSlotIds, TypeOK
    <3>2. slots[k] = SlotOf(ids[k], nvs_slots[id][ids[k]])
      BY <2>1 DEF LoadedSlots
    <3> HIDE DEF slots
    <3> QED BY <3>1, <3>2, SlotOfType
  <2>2. \A k \in SlotIdx : ids[k] = NULL => slots[k] = NULL
    BY DEF LoadedSlots
  <2>3. DOMAIN slots = SlotIdx
    BY DEF LoadedSlots
  <2> HIDE DEF slots
  <2> QED BY <2>1, <2>2, <2>3, NullAssumption DEF Used
<1>4. plan \in Planning /\ plan.id = id /\ plan.name = nvs_plan[id]
      /\ plan.max_slot_id = m /\ plan.slots = slots
  <2>1. nvs_plan[id] \in Names
    BY <1>0, <1>2 DEF TypeOK, Coherent
  <2>2. slots \in [SlotIdx -> Slot \cup {NULL}]
    BY <1>0, LoadedSlotsType
  <2> HIDE DEF slots
  <2> QED BY <2>1, <2>2 DEF Planning
<1>5. plannings' = [plannings EXCEPT ![i] = plan]
  BY <1>1
<1> HIDE DEF slots, plan
<1>6. /\ Used(plannings)' = Used(plannings) \cup {i}
      /\ plannings'[i] = plan
      /\ \A j \in Used(plannings) : j # i /\ plannings'[j] = plannings[j]
  BY <1>0, <1>4, <1>5, AppendEffect
<1>7. \A j \in Used(plannings) : plannings[j].id # id
  BY <1>0, <1>2 DEF CoveredIds
<1>8. UniqueIds'
  <2>1. \A k, l \in Used(slots) : slots[k].id = slots[l].id => k = l
    BY <1>1, <1>3 DEF IsLoadOrder
  <2> QED BY <1>0, <1>4, <1>6, <1>7, <2>1 DEF UniqueIds
<1>9. CoveredIds'
  <2>1. \A p \in PlanIds : nvs_plan[p] # NULL => p \in unread' \/ p <= max_id'
    BY <1>0, <1>2 DEF CoveredIds, PlanIds
  <2>2. \A s \in SlotIds : nvs_slots[id][s] # NULL => s <= m
    BY <1>1 DEF StoredSlotIds, IsHighest
  <2> QED BY <1>0, <1>2, <1>4, <1>6, <2>1, <2>2 DEF CoveredIds
<1>10. MemoryIsStored'
  BY <1>0, <1>2, <1>3, <1>4, <1>6 DEF MemoryIsStored
<1>11. NoLeftoverSlots'
  BY <1>0, <1>2 DEF NoLeftoverSlots
<1>12. DoomedStored' /\ ZoneRefs'
  BY <1>0, <1>2 DEF DoomedStored, ZoneRefs, Coherent
<1> QED BY <1>8, <1>9, <1>10, <1>11, <1>12, LoadPlanningTypes DEF IInv

LEMMA DropPlanningKeeps ==
    ASSUME IInv, NEW id \in PlanIds, DropPlanning(id)
    PROVE  IInv'
<1>0. TypeOK /\ Coherent /\ UniqueIds /\ CoveredIds /\ MemoryIsStored /\ NoLeftoverSlots
  BY DEF IInv, TypeInv
<1>1. /\ phase = "loading" /\ id \in unread /\ unread' = unread \ {id}
      /\ max_id \in Int /\ max_id' \in Int /\ id <= max_id' /\ max_id <= max_id'
      /\ UNCHANGED <<phase, op, plannings, nvs_plan, nvs_slots>>
  BY <1>0 DEF DropPlanning, Counted, request, nvs, TypeOK, PlanIds
<1>2. UniqueIds' /\ MemoryIsStored' /\ NoLeftoverSlots'
  BY <1>0, <1>1 DEF UniqueIds, MemoryIsStored, NoLeftoverSlots
<1>3. CoveredIds'
  BY <1>0, <1>1 DEF CoveredIds, PlanIds
<1>4. DoomedStored' /\ ZoneRefs'
  BY <1>0, <1>1 DEF DoomedStored, ZoneRefs, Coherent
<1> QED BY <1>2, <1>3, <1>4, DropPlanningTypes DEF IInv

LEMMA LoadZonesKeeps ==
    ASSUME IInv, LoadZones
    PROVE  IInv'
<1>0. TypeOK /\ Coherent /\ UniqueIds /\ CoveredIds /\ MemoryIsStored /\ NoLeftoverSlots
  BY DEF IInv, TypeInv
<1>1. /\ op = "idle" /\ op' = "idle"
      /\ zones' = [z \in Zones |-> LoadedZone(z)]
      /\ UNCHANGED <<unread, plannings, max_id, nvs_plan, nvs_slots>>
  BY <1>0 DEF LoadZones, request, nvs, Coherent
<1>2. UniqueIds' /\ CoveredIds' /\ MemoryIsStored' /\ NoLeftoverSlots'
  BY <1>0, <1>1 DEF UniqueIds, CoveredIds, MemoryIsStored, NoLeftoverSlots
<1>3. DoomedStored'
  BY <1>1 DEF DoomedStored
<1>4. ZoneRefs'
  BY <1>1 DEF ZoneRefs, LoadedZone, Listed, Default
<1> QED BY <1>2, <1>3, <1>4, LoadZonesTypes DEF IInv

\* Every step keeps the invariant.
LEMMA NextKeeps == IInv /\ [Next]_vars => IInv'
<1> SUFFICES ASSUME IInv, [Next]_vars PROVE IInv'
  OBVIOUS
<1>1. CASE Requests
  BY <1>1, PostPlanningKeeps, PatchPlanningKeeps, DeletePlanningKeeps, PostSlotKeeps,
     DeleteSlotKeeps, PatchSlotKeeps, PatchZoneKeeps, DescribeZoneKeeps DEF Requests
<1>2. CASE FullRequests
  BY <1>2, PostPlanningFullKeeps, PostSlotFullKeeps DEF FullRequests
<1>3. CASE Finish
  BY <1>3, AddFirstSlotKeeps, PurgeSlotKeeps, ClearSlotsKeeps, EraseKeyKeeps, SetSlotKeeps DEF Finish
<1>4. CASE Load
  BY <1>4, LoadPlanningKeeps, DropPlanningKeeps, LoadZonesKeeps DEF Load
<1>5. CASE AbortOnHour \/ Restart
  BY <1>5, RestartKeeps DEF AbortOnHour
<1>6. CASE UNCHANGED vars
  <2>1. /\ UNCHANGED <<phase, unread, plannings, max_id, zones, nvs_plan, nvs_slots, op, doomed>>
        /\ TypeInv'
    BY <1>6, NextTypes DEF IInv, vars, memory, request, nvs
  <2> QED BY <2>1 DEF IInv, UniqueIds, CoveredIds, MemoryIsStored, DoomedStored,
             NoLeftoverSlots, ZoneRefs, Listed
<1> QED BY <1>1, <1>2, <1>3, <1>4, <1>5, <1>6 DEF Next

THEOREM Inductive == Spec => []IInv
<1>1. Init => IInv
  BY InitKeeps
<1>2. IInv /\ [Next]_vars => IInv'
  BY NextKeeps
<1> QED BY <1>1, <1>2, PTL DEF Spec

-----------------------------------------------------------------------------
(* What the invariant implies. *)

\* No two plannings of the list, and no two slots of a planning, ever share an
\* id, although the counters that hand ids out are lost with the memory.
THEOREM IdsAreUnique == Spec => []UniqueIds
<1>1. IInv => UniqueIds
  BY DEF IInv
<1> QED BY <1>1, Inductive, PTL

\* An id that is handed out is no key of NVS, whatever was refused, dropped or
\* cut short before.
THEOREM IdsAreFresh == Spec => []FreshIds
<1>1. ASSUME IInv PROVE FreshIds
  <2>0. TypeOK /\ Coherent /\ CoveredIds
    BY <1>1 DEF IInv, TypeInv
  <2> SUFFICES ASSUME phase = "running"
               PROVE  /\ \A id \in PlanIds : id > max_id => nvs_plan[id] = NULL
                      /\ \A i \in Used(plannings), s \in SlotIds :
                           s > plannings[i].max_slot_id => nvs_slots[plannings[i].id][s] = NULL
    BY DEF FreshIds
  <2>1. \A id \in PlanIds : id > max_id => nvs_plan[id] = NULL
    BY <2>0 DEF CoveredIds, Coherent, TypeOK, PlanIds
  <2>2. \A i \in Used(plannings), s \in SlotIds :
           s > plannings[i].max_slot_id => nvs_slots[plannings[i].id][s] = NULL
    BY <2>0, EntryFacts DEF CoveredIds, SlotIds
  <2> QED BY <2>1, <2>2
<1> QED BY <1>1, Inductive, PTL

\* Power may be lost at any step: what the list holds is always stored.
THEOREM ListIsStored == Spec => []MemoryIsStored
<1>1. IInv => MemoryIsStored
  BY DEF IInv
<1> QED BY <1>1, Inductive, PTL

\* A planning id without its key has no slot stored, at every step of a removal.
THEOREM NothingLeftOver == Spec => []NoLeftoverSlots
<1>1. IInv => NoLeftoverSlots
  BY DEF IInv
<1> QED BY <1>1, Inductive, PTL

\* A zone in planning mode follows a planning of the list, except during the
\* removal of that planning.
THEOREM ZonesFollow == Spec => []ZonesFollowListed
<1>1. IInv => ZonesFollowListed
  BY DEF IInv, ZoneRefs, ZonesFollowListed
<1> QED BY <1>1, Inductive, PTL

-----------------------------------------------------------------------------
(* The slot of Sunday 00:00. *)

\* Writing a key that does not hold a slot of Sunday 00:00, or writing another one over it.
LEMMA StoreKeepsWeek ==
    ASSUME TypeOK, NEW plan \in PlanIds, NEW sid \in SlotIds, NEW value,
           nvs_slots' = WithStored(plan, sid, value),
           nvs_slots[plan][sid] # NULL /\ AtWeekStart(nvs_slots[plan][sid]) =>
               value # NULL /\ AtWeekStart(value)
    PROVE  \A id \in PlanIds : StartsWeek(id) => StartsWeek(id)'
<1> SUFFICES ASSUME NEW id \in PlanIds, StartsWeek(id) PROVE StartsWeek(id)'
  OBVIOUS
<1>1. PICK s \in SlotIds : nvs_slots[id][s] # NULL /\ AtWeekStart(nvs_slots[id][s])
  BY DEF StartsWeek
<1>2. nvs_slots'[id][s] # NULL /\ AtWeekStart(nvs_slots'[id][s])
  <2>1. CASE id = plan /\ s = sid
    BY <1>1, <2>1, WithStoredEffect
  <2>2. CASE id # plan \/ s # sid
    <3>1. nvs_slots'[id][s] = nvs_slots[id][s]
      BY <2>2, WithStoredEffect
    <3> QED BY <1>1, <3>1
  <2> QED BY <2>1, <2>2
<1> QED BY <1>2 DEF StartsWeek, AtWeekStart, SameTime

\* A new slot id is no key yet.
LEMMA AddSlotKeepsWeek ==
    ASSUME IInv, NEW i \in Used(plannings), NEW value \in SlotValue, AddSlot(i, value)
    PROVE  \A id \in PlanIds : StartsWeek(id) => StartsWeek(id)'
<1> DEFINE plan == plannings[i].id
           sid == plannings[i].max_slot_id + 1
<1>1. plan \in PlanIds /\ sid \in SlotIds /\ plannings[i].max_slot_id \in Int
  BY EntryFacts, SizesAssumption DEF AddSlot, SlotIds, IInv, TypeInv
<1>2. nvs_slots[plan][sid] = NULL
  BY <1>1 DEF IInv, CoveredIds, SlotIds
<1>3. nvs_slots' = WithStored(plan, sid, value)
  BY DEF AddSlot
<1> HIDE DEF plan, sid
<1> QED BY <1>1, <1>2, <1>3, StoreKeepsWeek DEF IInv, TypeInv

LEMMA PostSlotFullKeepsWeek ==
    ASSUME IInv, NEW id \in PlanIds, NEW value \in SlotValue, PostSlotFull(id, value)
    PROVE  \A p \in PlanIds : StartsWeek(p) => StartsWeek(p)'
<1>1. PICK i \in WithId(plannings, id) :
          /\ plannings[i].max_slot_id < MAX_SLOT_ID
          /\ nvs_slots' = WithStored(id, plannings[i].max_slot_id + 1, value)
  BY DEF PostSlotFull, IsFirst
<1> DEFINE sid == plannings[i].max_slot_id + 1
<1>2. i \in Used(plannings) /\ plannings[i].id = id
  BY DEF WithId
<1>3. sid \in SlotIds /\ plannings[i].max_slot_id \in Int
  BY <1>1, <1>2, EntryFacts, SizesAssumption DEF SlotIds, IInv, TypeInv
<1>4. nvs_slots[id][sid] = NULL
  BY <1>2, <1>3 DEF IInv, CoveredIds, SlotIds
<1>5. nvs_slots' = WithStored(id, sid, value)
  BY <1>1
<1> HIDE DEF sid
<1> QED BY <1>3, <1>4, <1>5, StoreKeepsWeek DEF IInv, TypeInv

\* A slot that may be removed is not the one of Sunday 00:00, in NVS either.
LEMMA DeleteSlotKeepsWeek ==
    ASSUME IInv, NEW id \in PlanIds, NEW sid \in SlotIds, DeleteSlot(id, sid)
    PROVE  \A p \in PlanIds : StartsWeek(p) => StartsWeek(p)'
<1>1. PICK i \in PlanIdx, k \in SlotIdx :
          /\ i \in WithId(plannings, id)
          /\ k \in WithId(plannings[i].slots, sid)
          /\ ~AtWeekStart(plannings[i].slots[k])
  BY DEF DeleteSlot, IsFirst, Removable
<1>2. nvs_slots[id][sid] = ValueOf(plannings[i].slots[k])
  BY <1>1 DEF IInv, MemoryIsStored, WithId
<1>3. ~AtWeekStart(nvs_slots[id][sid])
  BY <1>1, <1>2 DEF ValueOf, AtWeekStart, SameTime
<1>4. nvs_slots' = WithStored(id, sid, NULL)
  BY DEF DeleteSlot
<1> QED BY <1>3, <1>4, StoreKeepsWeek DEF IInv, TypeInv

\* A setter either protects the slot or does not change its time.
LEMMA SetFieldKeepsWeek ==
    ASSUME IInv, NEW i \in PlanIdx, NEW k \in SlotIdx, NEW new, NEW shielded \in BOOLEAN, NEW left,
           SetField(i, k, new, shielded, left),
           new \in Slot,
           shielded \/ SameTime(new, plannings[i].slots[k])
    PROVE  \A p \in PlanIds : StartsWeek(p) => StartsWeek(p)'
<1>1. /\ i \in Used(plannings) /\ plannings[i].id = target
      /\ k \in Used(plannings[i].slots) /\ plannings[i].slots[k].id = patch.slot
  BY DEF SetField, IsFirst, WithId
<1>2. target \in PlanIds /\ patch.slot \in SlotIds
  BY <1>1, EntryFacts DEF IInv, TypeInv
<1>3. CASE UNCHANGED nvs_slots
  BY <1>3 DEF StartsWeek
<1>4. CASE /\ nvs_slots' = WithStored(target, patch.slot, ValueOf(new))
           /\ ~(shielded /\ Protected(plannings[i].slots[k], new))
  <2>1. nvs_slots[target][patch.slot] = ValueOf(plannings[i].slots[k])
    BY <1>1 DEF IInv, MemoryIsStored
  <2>2. AtWeekStart(plannings[i].slots[k]) => AtWeekStart(new)
    BY <1>4 DEF Protected, AtWeekStart, SameTime
  <2>3. AtWeekStart(nvs_slots[target][patch.slot]) => AtWeekStart(ValueOf(new))
    BY <2>1, <2>2 DEF ValueOf, AtWeekStart, SameTime
  <2>4. ValueOf(new) # NULL
    BY ValueOfType, NullAssumption
  <2> QED BY <1>2, <1>4, <2>3, <2>4, StoreKeepsWeek DEF IInv, TypeInv
<1> QED BY <1>3, <1>4 DEF SetField

LEMMA SetSlotKeepsWeek ==
    ASSUME IInv, SetSlot
    PROVE  \A p \in PlanIds : StartsWeek(p) => StartsWeek(p)'
<1>1. PICK i \in PlanIdx, k \in SlotIdx :
          SetDow(i, k) \/ SetHour(i, k) \/ SetMinute(i, k) \/ SetOrder(i, k)
  BY DEF SetSlot
<1> DEFINE slot == plannings[i].slots[k]
<1>2. i \in Used(plannings) /\ k \in Used(plannings[i].slots)
  BY <1>1 DEF SetDow, SetHour, SetMinute, SetOrder, SetField, IsFirst, WithId
<1>3. slot \in Slot
  BY <1>2, EntryFacts DEF IInv, TypeInv
<1>4. patch \in Patch /\ NULL \notin Int
  BY NullAssumption DEF IInv, TypeInv, TypeOK
<1>5. CASE SetDow(i, k)
  <2>1. SlotWith(slot, patch.dow, slot.hour, slot.minute, slot.order) \in Slot
    BY <1>3, <1>4, <1>5 DEF SetDow, SlotWith, Slot, Patch
  <2> QED BY <1>5, <2>1, SetFieldKeepsWeek DEF SetDow
<1>6. CASE SetHour(i, k)
  <2>1. SlotWith(slot, slot.dow, patch.hour, slot.minute, slot.order) \in Slot
    BY <1>3, <1>4, <1>6 DEF SetHour, SlotWith, Slot, Patch
  <2> QED BY <1>6, <2>1, SetFieldKeepsWeek DEF SetHour
<1>7. CASE SetMinute(i, k)
  <2>1. SlotWith(slot, slot.dow, slot.hour, patch.minute, slot.order) \in Slot
    BY <1>3, <1>4, <1>7 DEF SetMinute, SlotWith, Slot, Patch
  <2> QED BY <1>7, <2>1, SetFieldKeepsWeek DEF SetMinute
<1>8. CASE SetOrder(i, k)
  <2>1. SlotWith(slot, slot.dow, slot.hour, slot.minute, patch.order) \in Slot
    BY <1>3, <1>4, <1>8 DEF SetOrder, SlotWith, Slot, Patch
  <2>2. SameTime(SlotWith(slot, slot.dow, slot.hour, slot.minute, patch.order), slot)
    BY DEF SlotWith, SameTime
  <2> QED BY <1>8, <2>1, <2>2, SetFieldKeepsWeek DEF SetOrder
<1> QED BY <1>1, <1>5, <1>6, <1>7, <1>8

\* A removal only touches what is stored for the planning being removed.
LEMMA RemovalKeepsWeek ==
    ASSUME IInv, PurgeSlot \/ ClearSlots
    PROVE  \A p \in PlanIds : StartsWeek(p) /\ ~Purging(p) => StartsWeek(p)'
<1> SUFFICES ASSUME NEW p \in PlanIds, p # doomed.id, StartsWeek(p) PROVE StartsWeek(p)'
  BY DEF Purging, PurgeSlot, ClearSlots
<1>1. nvs_slots'[p] = nvs_slots[p]
  BY DEF PurgeSlot, ClearSlots, WithStored, IInv, TypeInv, TypeOK
<1> QED BY <1>1 DEF StartsWeek, AtWeekStart, SameTime

\* A planning that has a slot of Sunday 00:00 stored keeps one until it is removed:
\* no move, removal, refusal, power loss or boot takes it out of the store.
THEOREM WeekStartIsKept == Spec => WeekStartKept
<1>1. ASSUME IInv, [Next]_vars
      PROVE  [\A id \in PlanIds : StartsWeek(id) /\ ~Purging(id) => StartsWeek(id)']_vars
  <2> SUFFICES ASSUME Next
               PROVE  \A id \in PlanIds : StartsWeek(id) /\ ~Purging(id) => StartsWeek(id)'
    BY <1>1
  <2>1. CASE UNCHANGED nvs_slots
    BY <2>1 DEF StartsWeek
  <2>2. CASE \E id \in PlanIds, value \in SlotValue : PostSlot(id, value)
    <3>1. PICK i \in Used(plannings), value \in SlotValue : AddSlot(i, value)
      BY <2>2 DEF PostSlot, IsFirst, WithId
    <3> QED BY <1>1, <3>1, AddSlotKeepsWeek
  <2>3. CASE AddFirstSlot
    <3>1. PICK i \in Used(plannings) : AddSlot(i, FirstValue)
      BY <2>3 DEF AddFirstSlot, WithId
    <3> QED BY <1>1, <3>1, FirstValueType, AddSlotKeepsWeek
  <2>4. CASE \E id \in PlanIds, value \in SlotValue : PostSlotFull(id, value)
    BY <1>1, <2>4, PostSlotFullKeepsWeek
  <2>5. CASE \E id \in PlanIds, sid \in SlotIds : DeleteSlot(id, sid)
    BY <1>1, <2>5, DeleteSlotKeepsWeek
  <2>6. CASE SetSlot
    BY <1>1, <2>6, SetSlotKeepsWeek
  <2>7. CASE PurgeSlot \/ ClearSlots
    BY <1>1, <2>7, RemovalKeepsWeek
  <2>8. Next => \/ UNCHANGED nvs_slots
                \/ \E id \in PlanIds, value \in SlotValue : PostSlot(id, value)
                \/ AddFirstSlot
                \/ \E id \in PlanIds, value \in SlotValue : PostSlotFull(id, value)
                \/ \E id \in PlanIds, sid \in SlotIds : DeleteSlot(id, sid)
                \/ SetSlot
                \/ PurgeSlot \/ ClearSlots
    BY DEF Next, Requests, FullRequests, Finish, Load, AbortOnHour, Restart, PostPlanning,
           PatchPlanning, DeletePlanning, PatchSlot, PatchZone, DescribeZone, PostPlanningFull,
           EraseKey, LoadPlanning, DropPlanning, LoadZones, nvs
  <2> QED BY <2>1, <2>2, <2>3, <2>4, <2>5, <2>6, <2>7, <2>8
<1> QED BY <1>1, Inductive, PTL DEF Spec, WeekStartKept
=============================================================================
