---------------------------- MODULE PlanningData ----------------------------
(***************************************************************************)
(* The data of src/main/ofp.c and src/main/ofp.h that plannings and zones  *)
(* are made of: fixed size C arrays of pointers (NULL where an entry is    *)
(* free), planning slots, zone configurations, and the searches the code   *)
(* runs over the arrays.                                                   *)
(***************************************************************************)
EXTENDS Integers

CONSTANTS
    MAX_PLANNING,     \* OFP_MAX_PLANNING_COUNT
    MAX_SLOT,         \* OFP_MAX_PLANNING_SLOT_COUNT
    MAX_PLANNING_ID,  \* bound of the model on planning ids (an int in the code)
    MAX_SLOT_ID,      \* bound of the model on slot ids (an int in the code)
    Dows,             \* days of the week, Sunday is 0
    Hours,            \* hours a slot may start at
    LateHours,        \* hours above 23 that the PATCH handler lets through
    Minutes,          \* minutes a slot may start at
    Orders,           \* order ids
    COZY,             \* DEFAULT_FIXED_ORDER_FOR_ZONES
    Names,            \* planning descriptions
    Zones,            \* zones of the current hardware
    NULL              \* a NULL pointer, a missing NVS key, an absent JSON field

PlanIdx == 0 .. MAX_PLANNING - 1
SlotIdx == 0 .. MAX_SLOT - 1
PlanIds == 0 .. MAX_PLANNING_ID
SlotIds == 0 .. MAX_SLOT_ID

\* What ofp_planning_slot_store writes under a slot id: "dow:hour:minute:order".
SlotValue == [dow : Dows, hour : Hours, minute : Minutes, order : Orders]

\* struct ofp_planning_slot
Slot == [id : SlotIds, dow : Dows, hour : Hours, minute : Minutes, order : Orders]

\* struct ofp_planning
Planning == [id : PlanIds, name : Names, max_slot_id : -1 .. MAX_SLOT_ID,
             slots : [SlotIdx -> Slot \cup {NULL}]]

\* enum ofp_zone_mode and union mode_data of struct ofp_zone
ZoneConfig == [mode : {"fixed"}, value : Orders] \cup [mode : {"planning"}, value : PlanIds]

\* The body of PATCH .../slots/:id, every field of it optional.
Patch == [slot : SlotIds, dow : Dows \cup {NULL}, hour : Hours \cup LateHours \cup {NULL},
          minute : Minutes \cup {NULL}, order : Orders \cup {NULL}]

\* The fields of a body that are left, for the same slot.
Fields(slot, dow, hour, minute, order) ==
    [slot |-> slot, dow |-> dow, hour |-> hour, minute |-> minute, order |-> order]

NoField(fields) ==
    fields.dow = NULL /\ fields.hour = NULL /\ fields.minute = NULL /\ fields.order = NULL

ASSUME SizesAssumption ==
    /\ MAX_PLANNING \in Nat \ {0}
    /\ MAX_SLOT \in Nat \ {0}
    /\ MAX_PLANNING_ID \in Nat
    /\ MAX_SLOT_ID \in Nat

ASSUME ValuesAssumption ==
    /\ Dows \subseteq 0 .. 6 /\ 0 \in Dows
    /\ Hours \subseteq 0 .. 23 /\ 0 \in Hours
    /\ LateHours \subseteq 24 .. 59
    /\ Minutes \subseteq 0 .. 59 /\ 0 \in Minutes
    /\ Orders \subseteq 0 .. 5 /\ COZY \in Orders

ASSUME NullAssumption ==
    /\ NULL \notin Planning
    /\ NULL \notin Slot
    /\ NULL \notin SlotValue
    /\ NULL \notin ZoneConfig
    /\ NULL \notin Names
    /\ NULL \notin Int

-----------------------------------------------------------------------------
(* Arrays: entries in use, free entries, the first entry of a set. *)

Used(array) == {i \in DOMAIN array : array[i] # NULL}

Free(array) == {i \in DOMAIN array : array[i] = NULL}

WithId(array, id) == {i \in Used(array) : array[i].id = id}

IsFirst(i, indexes) == i \in indexes /\ \A j \in indexes : i <= j

-----------------------------------------------------------------------------
(* Slots. *)

EmptySlots == [k \in SlotIdx |-> NULL]

\* The planning with another counter of slot ids and other slots.
WithSlots(plan, max_slot_id, slots) ==
    [id |-> plan.id, name |-> plan.name, max_slot_id |-> max_slot_id, slots |-> slots]

\* The planning with its entry k replaced.
WithEntry(plan, k, entry) ==
    WithSlots(plan, plan.max_slot_id, [plan.slots EXCEPT ![k] = entry])

NoStoredSlots == [s \in SlotIds |-> NULL]

\* ofp_planning_slot_init: a slot from an id and a value.
SlotOf(id, value) ==
    [id |-> id, dow |-> value.dow, hour |-> value.hour,
     minute |-> value.minute, order |-> value.order]

\* The slot with the values ofp_planning_slot_set_without_duplicates is given.
SlotWith(slot, dow, hour, minute, order) ==
    [id |-> slot.id, dow |-> dow, hour |-> hour, minute |-> minute, order |-> order]

\* The string a slot is stored as.
ValueOf(slot) ==
    [dow |-> slot.dow, hour |-> slot.hour, minute |-> slot.minute, order |-> slot.order]

SameTime(a, b) == a.dow = b.dow /\ a.hour = b.hour /\ a.minute = b.minute

\* Sunday 00:00, the slot created with the planning.
FirstValue == [dow |-> 0, hour |-> 0, minute |-> 0, order |-> COZY]

AtWeekStart(slot) == SameTime(slot, FirstValue)

\* Mutant: no search for a slot at the same time.
TakenNever(slots, value) == FALSE

\* ofp_planning_slot_find_by_values and the search of
\* ofp_planning_slot_set_without_duplicates: some slot, whichever it is, has
\* the time of the value.
Taken(slots, value) == \E k \in Used(slots) : SameTime(slots[k], value)

\* The arrays that reading the stored keys one after the other into the first
\* free entry may leave: NVS gives them in any order, and those that come
\* after the array is full are dropped.
IsLoadOrder(ids, stored) ==
    /\ \A k \in SlotIdx : ids[k] = NULL => \A l \in SlotIdx : l > k => ids[l] = NULL
    /\ \A k, l \in SlotIdx : ids[k] # NULL /\ ids[k] = ids[l] => k = l
    /\ \/ \A k \in SlotIdx : ids[k] # NULL
       \/ \A s \in stored : \E k \in SlotIdx : ids[k] = s

=============================================================================
