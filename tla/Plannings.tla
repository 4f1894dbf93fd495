------------------------------ MODULE Plannings ------------------------------
(***************************************************************************)
(* The plannings of src/main/ofp.c and the zones that follow them: the     *)
(* in-memory list, its image in NVS, the API handlers that change both and *)
(* the boot that reads one back from the other.                            *)
(*                                                                         *)
(* All handlers run in the httpd task, one request at a time, so requests  *)
(* do not interleave.  Each kv_ns_*_atomic call commits on its own, so     *)
(* power may be lost between two of them: a request is split into steps    *)
(* that make at most one NVS write each, and op says what is left to do.   *)
(* Losing power inside a step is losing it before the step.                *)
(***************************************************************************)
EXTENDS PlanningData

VARIABLES
    phase,      \* "loading" during app_main's initialisation, then "running"
    unread,     \* loading: ids of the stored plannings not read yet
    plannings,  \* plan_list_global->plannings
    max_id,     \* plan_list_global->max_id
    zones,      \* mode and mode_data of hw_global's zones
    nvs_plan,   \* namespace ofp_pl: planning id -> description
    nvs_slots,  \* namespaces ofp_sl_<id>: slot id -> slot value
    nvs_zone,   \* namespace ofp_zn_<hw>: zone id -> zone configuration
    op,         \* request in service, see Ops
    target,     \* planning id the request in service works on
    doomed,     \* planning taken off the list and not freed yet
    patch       \* fields of a slot PATCH still to apply

memory == <<phase, unread, plannings, max_id, zones>>
request == <<op, target, doomed, patch>>
nvs == <<nvs_plan, nvs_slots, nvs_zone>>
vars == <<memory, request, nvs>>

\* idle, creating (first slot to come), purging (slots to purge), erasing
\* (planning key to delete), patching (fields to apply).
Ops == {"idle", "create", "purge", "erase", "patch"}

NoPatch == Fields(0, NULL, NULL, NULL, NULL)

Default == [mode |-> "fixed", value |-> COZY]

TypeOK ==
    /\ phase \in {"loading", "running"}
    /\ unread \in SUBSET PlanIds
    /\ plannings \in [PlanIdx -> Planning \cup {NULL}]
    /\ max_id \in -1 .. MAX_PLANNING_ID
    /\ zones \in [Zones -> ZoneConfig]
    /\ nvs_plan \in [PlanIds -> Names \cup {NULL}]
    /\ nvs_slots \in [PlanIds -> [SlotIds -> SlotValue \cup {NULL}]]
    /\ nvs_zone \in [Zones -> ZoneConfig \cup {NULL}]
    /\ op \in Ops
    /\ target \in PlanIds
    /\ doomed \in Planning \cup {NULL}
    /\ patch \in Patch

\* First power up: nothing stored, nothing to read.
Init ==
    /\ phase = "loading"
    /\ unread = {}
    /\ plannings = [i \in PlanIdx |-> NULL]
    /\ max_id = -1
    /\ zones = [z \in Zones |-> Default]
    /\ nvs_plan = [p \in PlanIds |-> NULL]
    /\ nvs_slots = [p \in PlanIds |-> NoStoredSlots]
    /\ nvs_zone = [z \in Zones |-> NULL]
    /\ op = "idle"
    /\ target = 0
    /\ doomed = NULL
    /\ patch = NoPatch

Idle == phase = "running" /\ op = "idle"

\* No planning of the list has this description.
Unnamed(name) == \A i \in Used(plannings) : plannings[i].name # name

\* nvs_slots after ofp_planning_slot_store or ofp_planning_slot_purge (NULL).
WithStored(id, sid, value) ==
    [nvs_slots EXCEPT ![id] = [nvs_slots[id] EXCEPT ![sid] = value]]

Listed(id) == WithId(plannings, id) # {}

-----------------------------------------------------------------------------
(* Creating a planning: ofp_planning_list_add_new_planning. *)

NewPlanning(id, name) == [id |-> id, name |-> name, max_slot_id |-> -1, slots |-> EmptySlots]

\* POST /plannings, up to the planning's entry in the list.
PostPlanning(name) ==
    /\ Idle
    /\ max_id < MAX_PLANNING_ID
    /\ Unnamed(name)
    /\ max_id' = max_id + 1
    /\ nvs_plan' = [nvs_plan EXCEPT ![max_id + 1] = name]
    /\ \E i \in PlanIdx :
          /\ IsFirst(i, Free(plannings))
          /\ plannings' = [plannings EXCEPT ![i] = NewPlanning(max_id + 1, name)]
    /\ op' = "create"
    /\ target' = max_id + 1
    /\ UNCHANGED <<phase, unread, zones, nvs_slots, nvs_zone, doomed, patch>>

\* The same request with a full list: the planning is stored before the list
\* refuses it, and stays stored.
PostPlanningFull(name) ==
    /\ Idle
    /\ max_id < MAX_PLANNING_ID
    /\ Unnamed(name)
    /\ Free(plannings) = {}
    /\ max_id' = max_id + 1
    /\ nvs_plan' = [nvs_plan EXCEPT ![max_id + 1] = name]
    /\ UNCHANGED <<phase, unread, plannings, zones, nvs_slots, nvs_zone, request>>

\* Entry i of the list gets a new slot: id, NVS write, then the first free
\* entry of its array.
AddSlot(i, value) ==
    LET plan == plannings[i]
        sid == plan.max_slot_id + 1
    IN  /\ plan.max_slot_id < MAX_SLOT_ID
        /\ nvs_slots' = WithStored(plan.id, sid, value)
        /\ \E k \in SlotIdx :
              /\ IsFirst(k, Free(plan.slots))
              /\ plannings' = [plannings EXCEPT ![i] =
                    WithSlots(plan, sid, [plan.slots EXCEPT ![k] = SlotOf(sid, value)])]

\* The slot of Sunday 00:00 that completes the creation.
AddFirstSlot ==
    /\ phase = "running"
    /\ op = "create"
    /\ \E i \in WithId(plannings, target) : AddSlot(i, FirstValue)
    /\ op' = "idle"
    /\ target' = 0
    /\ UNCHANGED <<phase, unread, max_id, zones, nvs_plan, nvs_zone, doomed, patch>>

-----------------------------------------------------------------------------
(* Renaming and removing a planning. *)

Renamed(plan, name) ==
    [id |-> plan.id, name |-> name, max_slot_id |-> plan.max_slot_id, slots |-> plan.slots]

\* Mutant: the new description is not stored.
PatchPlanningUnsaved(id, name) ==
    /\ Idle
    /\ Unnamed(name)
    /\ \E i \in PlanIdx :
          /\ IsFirst(i, WithId(plannings, id))
          /\ plannings' = [plannings EXCEPT ![i] = Renamed(plannings[i], name)]
    /\ UNCHANGED <<phase, unread, max_id, zones, nvs, request>>

\* PATCH /plannings/:id, ofp_planning_change_description.
PatchPlanning(id, name) ==
    /\ Idle
    /\ Unnamed(name)
    /\ \E i \in PlanIdx :
          /\ IsFirst(i, WithId(plannings, id))
          /\ plannings' = [plannings EXCEPT ![i] = Renamed(plannings[i], name)]
    /\ nvs_plan' = [nvs_plan EXCEPT ![id] = name]
    /\ UNCHANGED <<phase, unread, max_id, zones, nvs_slots, nvs_zone, request>>

\* DELETE /plannings/:id, ofp_planning_list_remove_planning: off the list first.
DeletePlanning(id) ==
    /\ Idle
    /\ \E i \in PlanIdx :
          /\ IsFirst(i, WithId(plannings, id))
          /\ doomed' = plannings[i]
          /\ plannings' = [plannings EXCEPT ![i] = NULL]
    /\ op' = "purge"
    /\ UNCHANGED <<phase, unread, max_id, zones, nvs, target, patch>>

\* One turn of the loop that purges and frees the slots.
PurgeSlot ==
    /\ op = "purge"
    /\ \E k \in SlotIdx :
          /\ IsFirst(k, Used(doomed.slots))
          /\ nvs_slots' = WithStored(doomed.id, doomed.slots[k].id, NULL)
          /\ doomed' = WithEntry(doomed, k, NULL)
    /\ UNCHANGED <<memory, nvs_plan, nvs_zone, op, target, patch>>

\* Mutant: zones are not released.
ReleasedZonesNone(id) == zones

\* ofp_zone_check_deleted_planning: in memory only.
ReleasedZones(id) ==
    [z \in Zones |-> IF zones[z] = [mode |-> "planning", value |-> id] THEN Default ELSE zones[z]]

\* Mutant: only the slots found in memory are purged.
ClearSlotsKnown ==
    /\ op = "purge"
    /\ Used(doomed.slots) = {}
    /\ zones' = ReleasedZones(doomed.id)
    /\ op' = "erase"
    /\ UNCHANGED <<phase, unread, plannings, max_id, nvs, target, doomed, patch>>

\* No slot left: zones are released, ofp_planning_purge clears the slots...
ClearSlots ==
    /\ op = "purge"
    /\ Used(doomed.slots) = {}
    /\ zones' = ReleasedZones(doomed.id)
    /\ nvs_slots' = [nvs_slots EXCEPT ![doomed.id] = NoStoredSlots]
    /\ op' = "erase"
    /\ UNCHANGED <<phase, unread, plannings, max_id, nvs_plan, nvs_zone, target, doomed, patch>>

\* ...then deletes the planning's key, and the planning is freed.
EraseKey ==
    /\ op = "erase"
    /\ nvs_plan' = [nvs_plan EXCEPT ![doomed.id] = NULL]
    /\ doomed' = NULL
    /\ op' = "idle"
    /\ UNCHANGED <<memory, nvs_slots, nvs_zone, target, patch>>

-----------------------------------------------------------------------------
(* Adding, removing and changing slots. *)

\* POST /plannings/:id/slots, ofp_planning_add_new_slot.
PostSlot(id, value) ==
    /\ Idle
    /\ \E i \in PlanIdx :
          /\ IsFirst(i, WithId(plannings, id))
          /\ ~Taken(plannings[i].slots, value)
          /\ AddSlot(i, value)
    /\ UNCHANGED <<phase, unread, max_id, zones, nvs_plan, nvs_zone, request>>

\* The same request with a full array: stored, then refused.
PostSlotFull(id, value) ==
    /\ Idle
    /\ \E i \in PlanIdx :
          /\ IsFirst(i, WithId(plannings, id))
          /\ ~Taken(plannings[i].slots, value)
          /\ Free(plannings[i].slots) = {}
          /\ plannings[i].max_slot_id < MAX_SLOT_ID
          /\ nvs_slots' = WithStored(id, plannings[i].max_slot_id + 1, value)
          /\ plannings' = [plannings EXCEPT ![i] =
                WithSlots(plannings[i], plannings[i].max_slot_id + 1, plannings[i].slots)]
    /\ UNCHANGED <<phase, unread, max_id, zones, nvs_plan, nvs_zone, request>>

\* ofp_planning_remove_slot lets any slot go but the one of Sunday 00:00.
Removable(slot) == ~AtWeekStart(slot)

\* Mutant: the slot goes from memory only.
DeleteSlotUnpurged(id, sid) ==
    /\ Idle
    /\ \E i \in PlanIdx, k \in SlotIdx :
          /\ IsFirst(i, WithId(plannings, id))
          /\ IsFirst(k, WithId(plannings[i].slots, sid))
          /\ Removable(plannings[i].slots[k])
          /\ plannings' = [plannings EXCEPT ![i] = WithEntry(plannings[i], k, NULL)]
    /\ UNCHANGED <<phase, unread, max_id, zones, nvs, request>>

\* DELETE /plannings/:id/slots/:slot
DeleteSlot(id, sid) ==
    /\ Idle
    /\ \E i \in PlanIdx, k \in SlotIdx :
          /\ IsFirst(i, WithId(plannings, id))
          /\ IsFirst(k, WithId(plannings[i].slots, sid))
          /\ Removable(plannings[i].slots[k])
          /\ plannings' = [plannings EXCEPT ![i] = WithEntry(plannings[i], k, NULL)]
    /\ nvs_slots' = WithStored(id, sid, NULL)
    /\ UNCHANGED <<phase, unread, max_id, zones, nvs_plan, nvs_zone, request>>

\* PATCH /plannings/:id/slots/:slot applies the fields it finds one after the
\* other, in the order dow, hour, minute, order.
PatchSlot(id, fields) ==
    /\ Idle
    /\ \E i \in WithId(plannings, id) : WithId(plannings[i].slots, fields.slot) # {}
    /\ ~NoField(fields)
    /\ op' = "patch"
    /\ target' = id
    /\ patch' = fields
    /\ UNCHANGED <<memory, nvs, doomed>>

\* The request goes on with the fields left, or ends.
GoOn(left) ==
    IF NoField(left)
    THEN op' = "idle" /\ target' = 0 /\ patch' = NoPatch
    ELSE op' = "patch" /\ target' = target /\ patch' = left

\* A setter returned false: the handler answers 500 and drops the other fields.
GiveUp == op' = "idle" /\ target' = 0 /\ patch' = NoPatch

\* Mutant: nothing may move to Sunday 00:00, but its slot may move away.
ProtectedTarget(old, new) == AtWeekStart(new)

\* "Protecting first slot", the same test in the setters of dow, hour, minute.
Protected(old, new) == AtWeekStart(old) \/ AtWeekStart(new)

\* What the four setters share: entry k of planning i is to become new, which
\* differs from it in one field; shielded says whether Protected applies.
SetField(i, k, new, shielded, left) ==
    LET old == plannings[i].slots[k]
        refused == (shielded /\ Protected(old, new)) \/ Taken(plannings[i].slots, new)
    IN  /\ op = "patch"
        /\ IsFirst(i, WithId(plannings, target))
        /\ IsFirst(k, WithId(plannings[i].slots, patch.slot))
        /\ \/ /\ new = old
              /\ GoOn(left)
              /\ UNCHANGED <<plannings, nvs_slots>>
           \/ /\ new # old
              /\ refused
              /\ GiveUp
              /\ UNCHANGED <<plannings, nvs_slots>>
           \/ /\ new # old
              /\ ~refused
              /\ plannings' = [plannings EXCEPT ![i] = WithEntry(plannings[i], k, new)]
              /\ nvs_slots' = WithStored(target, patch.slot, ValueOf(new))
              /\ GoOn(left)
        /\ UNCHANGED <<phase, unread, max_id, zones, nvs_plan, nvs_zone, doomed>>

\* ofp_planning_slot_set_dow
SetDow(i, k) ==
    LET slot == plannings[i].slots[k]
    IN  /\ patch.dow # NULL
        /\ SetField(i, k, SlotWith(slot, patch.dow, slot.hour, slot.minute, slot.order), TRUE,
                    Fields(patch.slot, NULL, patch.hour, patch.minute, patch.order))

\* ofp_planning_slot_set_hour, given an hour its assertion allows
SetHour(i, k) ==
    LET slot == plannings[i].slots[k]
    IN  /\ patch.dow = NULL
        /\ patch.hour \in Hours
        /\ SetField(i, k, SlotWith(slot, slot.dow, patch.hour, slot.minute, slot.order), TRUE,
                    Fields(patch.slot, NULL, NULL, patch.minute, patch.order))

\* ofp_planning_slot_set_minute
SetMinute(i, k) ==
    LET slot == plannings[i].slots[k]
    IN  /\ patch.dow = NULL /\ patch.hour = NULL
        /\ patch.minute # NULL
        /\ SetField(i, k, SlotWith(slot, slot.dow, slot.hour, patch.minute, slot.order), TRUE,
                    Fields(patch.slot, NULL, NULL, NULL, patch.order))

\* ofp_planning_slot_set_order
SetOrder(i, k) ==
    LET slot == plannings[i].slots[k]
    IN  /\ patch.dow = NULL /\ patch.hour = NULL /\ patch.minute = NULL
        /\ patch.order # NULL
        /\ SetField(i, k, SlotWith(slot, slot.dow, slot.hour, slot.minute, patch.order), FALSE,
                    Fields(patch.slot, NULL, NULL, NULL, NULL))

SetSlot ==
    \E i \in PlanIdx, k \in SlotIdx :
        SetDow(i, k) \/ SetHour(i, k) \/ SetMinute(i, k) \/ SetOrder(i, k)

-----------------------------------------------------------------------------
(* Zones. *)

\* PATCH /zones/:id with a mode: ofp_zone_set_mode_fixed or
\* ofp_zone_set_mode_planning, then ofp_zone_store.
PatchZone(z, config) ==
    /\ Idle
    /\ config.mode = "planning" => Listed(config.value)
    /\ zones' = [zones EXCEPT ![z] = config]
    /\ nvs_zone' = [nvs_zone EXCEPT ![z] = config]
    /\ UNCHANGED <<phase, unread, plannings, max_id, nvs_plan, nvs_slots, request>>

\* PATCH /zones/:id with a description only: ofp_zone_store stores the mode too.
DescribeZone(z) ==
    /\ Idle
    /\ nvs_zone' = [nvs_zone EXCEPT ![z] = zones[z]]
    /\ UNCHANGED <<memory, nvs_plan, nvs_slots, request>>

-----------------------------------------------------------------------------
(* Losing the memory and reading it back. *)

\* Power loss, panic or esp_restart: memory is lost, what is stored is not,
\* and app_main starts again.  zones is not touched before LoadZones: until
\* then it holds, unused, what the zones were.
Restart ==
    /\ phase' = "loading"
    /\ unread' = {id \in PlanIds : nvs_plan[id] # NULL}
    /\ plannings' = [i \in PlanIdx |-> NULL]
    /\ max_id' = -1
    /\ op' = "idle"
    /\ target' = 0
    /\ doomed' = NULL
    /\ patch' = NoPatch
    /\ UNCHANGED <<zones, nvs>>

\* The assertion of ofp_planning_slot_set_hour fails: the handler let through
\* an hour between 24 and 59.
AbortOnHour ==
    /\ op = "patch"
    /\ patch.dow = NULL
    /\ patch.hour \in LateHours
    /\ Restart

StoredSlotIds(id) == {s \in SlotIds : nvs_slots[id][s] # NULL}

\* ofp_planning_load_slots: the slots in one of the orders NVS may give.
LoadedSlots(id, ids) ==
    [k \in SlotIdx |-> IF ids[k] = NULL THEN NULL ELSE SlotOf(ids[k], nvs_slots[id][ids[k]])]

\* Mutant: the ids read back are not counted.
CountedNever(id) == max_id

\* "keep max_id in sync if needed"
Counted(id) == IF id > max_id THEN id ELSE max_id

\* Mutant: the slot ids read back are not counted.
IsHighestNever(m, ids) == m = -1

\* "keep max_slot_id in sync if needed", from -1 on.
IsHighest(m, ids) == m \in ids \cup {-1} /\ \A s \in ids : s <= m

\* One turn of the loop of ofp_planning_list_load_plannings: max_id follows
\* every id read, max_slot_id every slot id read.
LoadPlanning(id) ==
    /\ phase = "loading"
    /\ id \in unread
    /\ unread' = unread \ {id}
    /\ max_id' = Counted(id)
    /\ \E i \in PlanIdx,
          ids \in [SlotIdx -> StoredSlotIds(id) \cup {NULL}],
          m \in -1 .. MAX_SLOT_ID :
          /\ IsFirst(i, Free(plannings))
          /\ IsLoadOrder(ids, StoredSlotIds(id))
          /\ IsHighest(m, StoredSlotIds(id))
          /\ plannings' = [plannings EXCEPT ![i] =
                [id |-> id, name |-> nvs_plan[id], max_slot_id |-> m,
                 slots |-> LoadedSlots(id, ids)]]
    /\ UNCHANGED <<phase, zones, request, nvs>>

\* Mutant: the id of a planning that does not fit is not counted.
DropPlanningUncounted(id) ==
    /\ phase = "loading"
    /\ id \in unread
    /\ Free(plannings) = {}
    /\ unread' = unread \ {id}
    /\ UNCHANGED <<phase, plannings, max_id, zones, request, nvs>>

\* The list is full: the planning is dropped, its id is still counted.
DropPlanning(id) ==
    /\ phase = "loading"
    /\ id \in unread
    /\ Free(plannings) = {}
    /\ unread' = unread \ {id}
    /\ max_id' = Counted(id)
    /\ UNCHANGED <<phase, plannings, zones, request, nvs>>

\* Mutant: a zone with nothing stored is not given the default.
LoadedZoneRaw(z) ==
    IF nvs_zone[z] # NULL /\ nvs_zone[z].mode = "planning" /\ ~Listed(nvs_zone[z].value)
    THEN Default
    ELSE nvs_zone[z]

\* ofp_zone_load_mode: the default unless the stored configuration is usable.
LoadedZone(z) ==
    IF /\ nvs_zone[z] # NULL
       /\ nvs_zone[z].mode = "planning" => Listed(nvs_zone[z].value)
    THEN nvs_zone[z]
    ELSE Default

\* ofp_hw_initialize, after ofp_planning_list_init; then requests are served.
LoadZones ==
    /\ phase = "loading"
    /\ unread = {}
    /\ zones' = [z \in Zones |-> LoadedZone(z)]
    /\ phase' = "running"
    /\ UNCHANGED <<unread, plannings, max_id, request, nvs>>

-----------------------------------------------------------------------------
(* Next-state relations.                                                   *)

Requests ==
    \/ \E name \in Names : PostPlanning(name)
    \/ \E id \in PlanIds, name \in Names : PatchPlanning(id, name)
    \/ \E id \in PlanIds : DeletePlanning(id)
    \/ \E id \in PlanIds, value \in SlotValue : PostSlot(id, value)
    \/ \E id \in PlanIds, sid \in SlotIds : DeleteSlot(id, sid)
    \/ \E id \in PlanIds, fields \in Patch : PatchSlot(id, fields)
    \/ \E z \in Zones, config \in ZoneConfig : PatchZone(z, config)
    \/ \E z \in Zones : DescribeZone(z)

\* Requests that find the list or the array full.
FullRequests ==
    \/ \E name \in Names : PostPlanningFull(name)
    \/ \E id \in PlanIds, value \in SlotValue : PostSlotFull(id, value)

\* The steps that finish the request in service.
Finish == AddFirstSlot \/ PurgeSlot \/ ClearSlots \/ EraseKey \/ SetSlot

Load ==
    \/ \E id \in PlanIds : LoadPlanning(id) \/ DropPlanning(id)
    \/ LoadZones

\* Anything the code does, power lost at any time.
Next == Requests \/ FullRequests \/ Finish \/ Load \/ AbortOnHour \/ Restart

Spec == Init /\ [][Next]_vars

\* No table is ever full when a request needs an entry.
RoomyNext == Requests \/ Finish \/ Load \/ AbortOnHour \/ Restart

RoomySpec == Init /\ [][RoomyNext]_vars

-----------------------------------------------------------------------------
(* Properties. *)

\* Finding by id is unambiguous: no two plannings of the list share an id, no
\* two slots of a planning do.  The ids come from counters that live in memory
\* and are rebuilt at boot (ofp.c:1136, ofp.c:965).
UniqueIds ==
    /\ \A i, j \in Used(plannings) : plannings[i].id = plannings[j].id => i = j
    /\ \A i \in Used(plannings) :
          \A k, l \in Used(plannings[i].slots) :
              plannings[i].slots[k].id = plannings[i].slots[l].id => k = l

\* The next planning id and the next slot id are not keys of NVS: what is
\* created overwrites nothing that is stored, not even an entry that was
\* stored and then refused by a full table, or dropped by a boot.
FreshIds ==
    phase = "running" =>
        /\ \A id \in PlanIds : id > max_id => nvs_plan[id] = NULL
        /\ \A i \in Used(plannings), s \in SlotIds :
              s > plannings[i].max_slot_id => nvs_slots[plannings[i].id][s] = NULL

\* Whatever the instant power is lost at, each planning of the list is stored
\* with its description, and each of its slots with its value.
MemoryIsStored ==
    \A i \in Used(plannings) :
        LET plan == plannings[i]
        IN  /\ nvs_plan[plan.id] = plan.name
            /\ \A k \in Used(plan.slots) :
                  nvs_slots[plan.id][plan.slots[k].id] = ValueOf(plan.slots[k])

\* No slot is stored for an id that is not a stored planning's: a planning that
\* gets the id of a removed one (ids are handed out again after a reboot) does
\* not inherit its slots, wherever the removal was cut short.
NoLeftoverSlots ==
    \A id \in PlanIds : nvs_plan[id] = NULL => nvs_slots[id] = NoStoredSlots

\* Between requests a zone in planning mode follows a planning of the list.
ZonesFollowListed ==
    phase = "running" /\ op # "purge" =>
        \A z \in Zones : zones[z].mode = "planning" => Listed(zones[z].value)

\* No two slots of a planning start at the same time, over any sequence of
\* creations, moves, removals, power losses and boots.
NoDuplicateTimes ==
    \A i \in Used(plannings) :
        \A k, l \in Used(plannings[i].slots) :
            SameTime(plannings[i].slots[k], plannings[i].slots[l]) => k = l

StartsWeek(id) == \E s \in SlotIds : nvs_slots[id][s] # NULL /\ AtWeekStart(nvs_slots[id][s])

Purging(id) == op = "purge" /\ doomed.id = id

\* A planning that has a slot of Sunday 00:00 in its store keeps one there until
\* it is removed, over any sequence of moves, removals, power losses and boots.
\* A boot with more stored than the tables hold may leave it out of memory, as
\* any slot, but not out of the store (ofp.c:1081-1085, ofp.c:1550-1554).
WeekStartKept ==
    [][\A id \in PlanIds : StartsWeek(id) /\ ~Purging(id) => StartsWeek(id)']_vars

\* Between requests nothing is stored that the list does not show: neither a
\* planning nor a slot comes back at the next boot.
StoreIsLoaded ==
    Idle =>
        \A id \in PlanIds : nvs_plan[id] # NULL =>
            \E i \in WithId(plannings, id) :
                \A s \in StoredSlotIds(id) : WithId(plannings[i].slots, s) # {}

\* docs/api.txt:124-128 lists { "order": ... } among the bodies of a slot PATCH:
\* ofp_planning_slot_set_order gives the slot the order asked for.
OrderPatchApplies ==
    [][\A i \in PlanIdx, k \in SlotIdx :
          SetOrder(i, k) => plannings'[i].slots[k].order = patch.order]_vars

\* ofp.c:534 logs that a zone is set to a fixed order because its planning was
\* deleted: between requests, a zone in fixed mode is not stored as following a
\* planning that the next boot will find.
ReleasedZonesStayReleased ==
    phase = "running" /\ op = "idle" =>
        \A z \in Zones :
            zones[z].mode = "fixed" /\ nvs_zone[z] # NULL /\ nvs_zone[z].mode = "planning" =>
                nvs_plan[nvs_zone[z].value] = NULL
=============================================================================
