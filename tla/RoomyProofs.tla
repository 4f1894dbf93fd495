----------------------------- MODULE RoomyProofs -----------------------------
(* Theorems about Plannings as long as no table is full when a request needs *)
(* an entry, for every value of its constants.                               *)
EXTENDS PlanningsProofs, FiniteSetTheorems

-----------------------------------------------------------------------------
(* The inductive invariant. *)

StoredPlans == {id \in PlanIds : nvs_plan[id] # NULL}

BeingRemoved(id) == op \in {"purge", "erase"} /\ doomed.id = id

\* A stored planning is in the list, still to be read, or being removed.
PlansListed == \A id \in StoredPlans : Listed(id) \/ id \in unread \/ BeingRemoved(id)

\* A planning of the list has all the slots stored for it.
SlotsListed ==
    \A i \in Used(plannings) : \A s \in StoredSlotIds(plannings[i].id) :
        WithId(plannings[i].slots, s) # {}

\* There is room in memory for all that is stored, whichever boot reads it.
Room ==
    /\ Cardinality(StoredPlans) <= MAX_PLANNING
    /\ \A id \in PlanIds : Cardinality(StoredSlotIds(id)) <= MAX_SLOT

\* No two slots stored for a planning start at the same time.
StoredTimesDiffer ==
    \A id \in PlanIds : \A s, t \in StoredSlotIds(id) :
        SameTime(nvs_slots[id][s], nvs_slots[id][t]) => s = t

\* A planning that waits for its first slot has none.
CreatedEmpty == op = "create" => nvs_slots[target] = NoStoredSlots

\* What the tables hold and what NVS holds, but for the request in service.
Mirror == PlansListed /\ SlotsListed /\ Room /\ StoredTimesDiffer

RInv == IInv /\ Mirror /\ CreatedEmpty

-----------------------------------------------------------------------------
(* Counting. *)

\* What is found in a table is no more than the table's entries.
LEMMA FoundFits ==
    ASSUME NEW N \in Nat, NEW array, DOMAIN array = 0 .. N - 1,
           NEW S, \A x \in S : WithId(array, x) # {}
    PROVE  IsFiniteSet(S) /\ Cardinality(S) <= N
<1> DEFINE entries == 0 .. N - 1
           f == [x \in S |-> CHOOSE i \in entries : array[i].id = x]
<1>1. \A x \in S : f[x] \in entries /\ array[f[x]].id = x
  <2> TAKE x \in S
  <2>1. \E i \in entries : array[i].id = x
    BY DEF WithId, Used
  <2> QED BY <2>1
<1>2. f \in Injection(S, entries)
  <2>1. f \in [S -> entries]
    BY <1>1
  <2>2. ASSUME NEW x \in S, NEW y \in S, f[x] = f[y]
        PROVE  x = y
    <3> HIDE DEF f
    <3> QED BY <1>1, <2>2
  <2> HIDE DEF f
  <2> QED BY <2>1, <2>2 DEF Injection, IsInjective
<1>3. IsFiniteSet(entries) /\ Cardinality(entries) = N
  BY FS_Interval
<1> HIDE DEF f, entries
<1> QED BY <1>2, <1>3, FS_Injection

\* A full table whose entries all differ holds everything there is room for.
LEMMA FullHoldsAll ==
    ASSUME NEW N \in Nat, NEW S, IsFiniteSet(S), Cardinality(S) <= N,
           NEW f \in [0 .. N - 1 -> S],
           \A k, l \in 0 .. N - 1 : f[k] = f[l] => k = l
    PROVE  \A x \in S : \E k \in 0 .. N - 1 : f[k] = x
<1>1. f \in Injection(0 .. N - 1, S)
  BY DEF Injection, IsInjective
<1>2. Cardinality(0 .. N - 1) = N
  BY FS_Interval
<1>3. Cardinality(S) \in Nat
  BY FS_CardinalityType
<1>4. f \in Surjection(0 .. N - 1, S)
  BY <1>1, <1>2, <1>3, FS_Injection
<1> QED BY <1>4 DEF Surjection

\* What is stored is finite.
LEMMA StoredFinite == IsFiniteSet(StoredPlans) /\ \A id : IsFiniteSet(StoredSlotIds(id))
<1>1. IsFiniteSet(PlanIds) /\ IsFiniteSet(SlotIds)
  BY FS_Interval, SizesAssumption DEF PlanIds, SlotIds
<1>2. StoredPlans \in SUBSET PlanIds /\ \A id : StoredSlotIds(id) \in SUBSET SlotIds
  BY DEF StoredPlans, StoredSlotIds
<1> QED BY <1>1, <1>2, FS_Subset

-----------------------------------------------------------------------------
(* What steps leave of the invariant. *)

\* A step that stores nothing new leaves the room and the times.
LEMMA LessStored ==
    ASSUME Mirror,
           \A id \in PlanIds : nvs_plan'[id] # NULL => nvs_plan[id] # NULL,
           \A id \in PlanIds, s \in SlotIds :
              nvs_slots'[id][s] # NULL => nvs_slots'[id][s] = nvs_slots[id][s]
    PROVE  Room' /\ StoredTimesDiffer'
<1>1. StoredPlans' \in SUBSET StoredPlans
  BY DEF StoredPlans
<1>2. \A id \in PlanIds : StoredSlotIds(id)' \in SUBSET StoredSlotIds(id)
  BY DEF StoredSlotIds
<1>3. /\ Cardinality(StoredPlans) \in Nat /\ Cardinality(StoredPlans') \in Nat
      /\ Cardinality(StoredPlans') <= Cardinality(StoredPlans)
  BY <1>1, StoredFinite, FS_Subset, FS_CardinalityType
<1>4. ASSUME NEW id \in PlanIds
      PROVE  Cardinality(StoredSlotIds(id)') <= MAX_SLOT
  <2>1. /\ Cardinality(StoredSlotIds(id)) \in Nat /\ Cardinality(StoredSlotIds(id)') \in Nat
        /\ Cardinality(StoredSlotIds(id)') <= Cardinality(StoredSlotIds(id))
    BY <1>2, StoredFinite, FS_Subset, FS_CardinalityType
  <2> QED BY <2>1, SizesAssumption DEF Mirror, Room
<1>5. Room'
  BY <1>3, <1>4, SizesAssumption DEF Mirror, Room
<1>6. StoredTimesDiffer'
  BY <1>2 DEF StoredTimesDiffer, Mirror, StoredSlotIds
<1> QED BY <1>5, <1>6

\* A step that changes neither the list nor what is stored.
LEMMA SameMirror ==
    ASSUME RInv, UNCHANGED <<plannings, unread, nvs_plan, nvs_slots>>,
           op \notin {"purge", "erase"}
    PROVE  Mirror'
<1>1. Room' /\ StoredTimesDiffer'
  BY LessStored DEF RInv
<1>2. PlansListed' /\ SlotsListed'
  BY DEF RInv, Mirror, PlansListed, SlotsListed, StoredPlans, StoredSlotIds, BeingRemoved, Listed
<1> QED BY <1>1, <1>2 DEF Mirror

\* Every slot of array is in the other array, slot sid aside.
KeepsOthers(array, other, sid) ==
    \A s \in SlotIds : s # sid /\ WithId(array, s) # {} => WithId(other, s) # {}

\* A value to be stored as slot sid of planning id is in the array, and no other
\* slot stored for the planning has its time.
Welcome(id, array, sid, value) ==
    value # NULL =>
        /\ WithId(array, sid) # {}
        /\ \A s \in StoredSlotIds(id) : SameTime(nvs_slots[id][s], value) => s = sid

\* Entry i of the list and one slot stored for its planning change together.
LEMMA SlotChanges ==
    ASSUME RInv, op \notin {"purge", "erase"}, UNCHANGED <<unread, nvs_plan>>,
           NEW i \in Used(plannings), NEW new \in Planning, new.id = plannings[i].id,
           NEW sid \in SlotIds, NEW value \in SlotValue \cup {NULL},
           plannings' = [plannings EXCEPT ![i] = new],
           nvs_slots' = WithStored(plannings[i].id, sid, value),
           KeepsOthers(plannings[i].slots, new.slots, sid),
           Welcome(plannings[i].id, new.slots, sid, value)
    PROVE  Mirror'
<1>1. TypeOK /\ UniqueIds /\ Mirror
  BY DEF RInv, IInv, TypeInv
<1>2. PICK id \in PlanIds : id = plannings[i].id
  BY <1>1, EntryFacts
<1>3. /\ Used(plannings)' = Used(plannings)
      /\ plannings'[i] = new
      /\ \A j \in Used(plannings) : j # i => plannings'[j] = plannings[j]
      /\ \A p : Listed(p)' <=> Listed(p)
  BY <1>1, ReplaceEffect
<1>4. /\ nvs_slots'[id][sid] = value
      /\ \A s \in SlotIds : s # sid => nvs_slots'[id][s] = nvs_slots[id][s]
      /\ \A p \in PlanIds : p # id => nvs_slots'[p] = nvs_slots[p]
  BY <1>1, <1>2, WithStoredEffect
<1>5. \A s \in StoredSlotIds(id)' : WithId(new.slots, s) # {}
  <2> TAKE s \in StoredSlotIds(id)'
  <2>1. s \in SlotIds /\ nvs_slots'[id][s] # NULL
    BY DEF StoredSlotIds
  <2>2. CASE s = sid
    BY <1>4, <2>1, <2>2 DEF Welcome
  <2>3. CASE s # sid
    <3>1. s \in StoredSlotIds(id)
      BY <1>4, <2>1, <2>3 DEF StoredSlotIds
    <3>2. WithId(plannings[i].slots, s) # {}
      BY <1>1, <1>2, <3>1 DEF Mirror, SlotsListed
    <3> QED BY <2>1, <2>3, <3>2 DEF KeepsOthers
  <2> QED BY <2>2, <2>3
<1>6. PlansListed'
  BY <1>1, <1>3 DEF Mirror, PlansListed, StoredPlans, BeingRemoved
<1>7. SlotsListed'
  <2> SUFFICES ASSUME NEW j \in Used(plannings), NEW s \in SlotIds,
                      nvs_slots'[plannings'[j].id][s] # NULL
               PROVE  WithId(plannings'[j].slots, s) # {}
    BY <1>3 DEF SlotsListed, StoredSlotIds
  <2>1. CASE j = i
    <3>1. s \in StoredSlotIds(id)'
      BY <1>2, <1>3, <2>1 DEF StoredSlotIds
    <3> QED BY <1>3, <1>5, <2>1, <3>1
  <2>2. CASE j # i
    <3>1. plannings'[j] = plannings[j]
      BY <1>3, <2>2
    <3>2. plannings[j].id \in PlanIds /\ plannings[j].id # id
      BY <1>1, <1>2, <2>2, EntryFacts DEF UniqueIds
    <3>3. s \in StoredSlotIds(plannings[j].id)
      BY <1>4, <3>1, <3>2 DEF StoredSlotIds
    <3> QED BY <1>1, <3>1, <3>3 DEF Mirror, SlotsListed
  <2> QED BY <2>1, <2>2
<1>8. Room'
  <2>1. StoredPlans' = StoredPlans
    BY DEF StoredPlans
  <2>2. Cardinality(StoredSlotIds(id)') <= MAX_SLOT
    <3>1. DOMAIN new.slots = 0 .. MAX_SLOT - 1 /\ MAX_SLOT \in Nat
      BY SizesAssumption DEF Planning, SlotIdx
    <3> QED BY <1>5, <3>1, FoundFits
  <2>3. \A p \in PlanIds : p # id => StoredSlotIds(p)' = StoredSlotIds(p)
    BY <1>4 DEF StoredSlotIds
  <2> QED BY <1>1, <2>1, <2>2, <2>3 DEF Mirror, Room
<1>9. StoredTimesDiffer'
  <2> SUFFICES ASSUME NEW p \in PlanIds,
                      NEW s \in SlotIds, NEW t \in SlotIds,
                      nvs_slots'[p][s] # NULL, nvs_slots'[p][t] # NULL,
                      SameTime(nvs_slots'[p][s], nvs_slots'[p][t])
               PROVE  s = t
    BY DEF StoredTimesDiffer, StoredSlotIds
  <2>1. CASE p # id
    BY <1>1, <1>4, <2>1 DEF Mirror, StoredTimesDiffer, StoredSlotIds
  <2>2. CASE p = id /\ s # sid /\ t # sid
    BY <1>1, <1>2, <1>4, <2>2 DEF Mirror, StoredTimesDiffer, StoredSlotIds
  <2>3. ASSUME NEW r \in SlotIds, r # sid, nvs_slots'[id][r] # NULL, value # NULL
        PROVE  ~SameTime(nvs_slots'[id][r], value)
    <3>1. nvs_slots'[id][r] = nvs_slots[id][r]
      BY <1>4, <2>3
    <3>2. r \in StoredSlotIds(id)
      BY <2>3, <3>1 DEF StoredSlotIds
    <3> QED BY <1>2, <2>3, <3>1, <3>2 DEF Welcome
  <2>4. CASE p = id /\ s = sid /\ t # sid
    <3>1. nvs_slots'[id][s] = value
      BY <1>4, <2>4
    <3> QED BY <2>3, <2>4, <3>1 DEF SameTime
  <2>5. CASE p = id /\ t = sid /\ s # sid
    <3>1. nvs_slots'[id][t] = value
      BY <1>4, <2>5
    <3> QED BY <2>3, <2>5, <3>1
  <2> QED BY <2>1, <2>2, <2>4, <2>5
<1> QED BY <1>6, <1>7, <1>8, <1>9 DEF Mirror

-----------------------------------------------------------------------------
(* Each action keeps the invariant. *)

\* When no slot of the array has a time, no slot stored for the planning has.
LEMMA NotTaken ==
    ASSUME RInv, NEW i \in Used(plannings), NEW value, ~Taken(plannings[i].slots, value),
           NEW s \in StoredSlotIds(plannings[i].id)
    PROVE  ~SameTime(nvs_slots[plannings[i].id][s], value)
<1>1. PICK k \in Used(plannings[i].slots) : plannings[i].slots[k].id = s
  BY DEF RInv, Mirror, SlotsListed, WithId
<1>2. nvs_slots[plannings[i].id][s] = ValueOf(plannings[i].slots[k])
  BY <1>1 DEF RInv, IInv, MemoryIsStored
<1>3. ~SameTime(plannings[i].slots[k], value)
  BY <1>1 DEF Taken
<1> QED BY <1>2, <1>3 DEF SameTime, ValueOf

\* A slot is added at a time no stored slot of the planning has.
LEMMA AddSlotMirror ==
    ASSUME RInv, op \notin {"purge", "erase"}, UNCHANGED <<unread, nvs_plan>>,
           NEW i \in Used(plannings), NEW value \in SlotValue, AddSlot(i, value),
           \A s \in StoredSlotIds(plannings[i].id) :
              ~SameTime(nvs_slots[plannings[i].id][s], value)
    PROVE  Mirror'
<1>0. TypeOK
  BY DEF RInv, IInv, TypeInv
<1>1. PICK plan \in Planning : plan = plannings[i]
  BY <1>0, EntryFacts
<1>2. PICK sid \in SlotIds : sid = plan.max_slot_id + 1
  BY <1>0, <1>1, EntryFacts, SizesAssumption DEF AddSlot, SlotIds
<1>3. PICK k \in SlotIdx :
          /\ k \in Free(plan.slots)
          /\ plannings' = [plannings EXCEPT ![i] =
                 WithSlots(plan, sid, [plan.slots EXCEPT ![k] = SlotOf(sid, value)])]
  BY <1>1, <1>2 DEF AddSlot, IsFirst
<1> DEFINE slots == [plan.slots EXCEPT ![k] = SlotOf(sid, value)]
           new == WithSlots(plan, sid, slots)
<1>4. SlotOf(sid, value) \in Slot /\ SlotOf(sid, value).id = sid /\ SlotOf(sid, value) # NULL
  BY <1>2, SlotOfType, NullAssumption
<1>5. /\ slots[k] = SlotOf(sid, value)
      /\ \A l \in SlotIdx : l # k => slots[l] = plan.slots[l]
      /\ Used(slots) = Used(plan.slots) \cup {k}
  BY <1>4, EntryEffect
<1>6. new \in Planning /\ new.id = plan.id /\ new.slots = slots
  <2>1. slots \in [SlotIdx -> Slot \cup {NULL}] /\ sid \in -1 .. MAX_SLOT_ID
    BY <1>4, EntryType, SizesAssumption DEF SlotIds
  <2> HIDE DEF slots
  <2> QED BY <2>1, WithSlotsType
<1>7. WithId(new.slots, sid) # {}
  BY <1>4, <1>5, <1>6 DEF WithId
<1>8. \A s \in SlotIds : WithId(plan.slots, s) # {} => WithId(new.slots, s) # {}
  <2>1. k \notin Used(plan.slots) /\ \A l \in Used(plan.slots) : l \in SlotIdx
    BY <1>3 DEF Free, Used, Planning
  <2>2. \A l \in Used(plan.slots) : l \in Used(slots) /\ slots[l] = plan.slots[l]
    BY <1>5, <2>1
  <2> HIDE DEF slots, new
  <2> QED BY <1>6, <2>2 DEF WithId
<1>9. /\ nvs_slots' = WithStored(plan.id, sid, value)
      /\ plannings' = [plannings EXCEPT ![i] = new]
  BY <1>1, <1>2, <1>3 DEF AddSlot
<1> HIDE DEF slots, new
<1>10. KeepsOthers(plan.slots, new.slots, sid) /\ Welcome(plan.id, new.slots, sid, value)
  BY <1>1, <1>7, <1>8 DEF KeepsOthers, Welcome
<1> QED BY <1>1, <1>6, <1>9, <1>10, SlotChanges

LEMMA AddFirstSlotMirror ==
    ASSUME RInv, AddFirstSlot
    PROVE  Mirror' /\ CreatedEmpty'
<1>1. PICK i \in WithId(plannings, target) : AddSlot(i, FirstValue)
  BY DEF AddFirstSlot
<1>2. i \in Used(plannings) /\ plannings[i].id = target
  BY DEF WithId
<1>3. StoredSlotIds(target) = {}
  BY DEF AddFirstSlot, RInv, CreatedEmpty, StoredSlotIds, NoStoredSlots
<1>4. op = "create" /\ op' = "idle" /\ UNCHANGED <<unread, nvs_plan>>
  BY DEF AddFirstSlot
<1> QED BY <1>1, <1>2, <1>3, <1>4, FirstValueType, AddSlotMirror DEF CreatedEmpty

LEMMA PostSlotMirror ==
    ASSUME RInv, NEW id \in PlanIds, NEW value \in SlotValue, PostSlot(id, value)
    PROVE  Mirror' /\ CreatedEmpty'
<1>1. PICK i \in PlanIdx : /\ i \in WithId(plannings, id)
                           /\ ~Taken(plannings[i].slots, value)
                           /\ AddSlot(i, value)
  BY DEF PostSlot, IsFirst
<1>2. i \in Used(plannings)
  BY <1>1 DEF WithId
<1>3. op = "idle" /\ op' = "idle" /\ UNCHANGED <<unread, nvs_plan>>
  BY DEF PostSlot, Idle, request
<1> QED BY <1>1, <1>2, <1>3, NotTaken, AddSlotMirror DEF CreatedEmpty

\* Replacing or removing an entry of an array loses no other slot.
LEMMA ReplacedFound ==
    ASSUME NEW plan \in Planning, NEW k \in Used(plan.slots), NEW entry \in Slot \cup {NULL},
           NEW new, new = WithEntry(plan, k, entry)
    PROVE  /\ new \in Planning
           /\ new.id = plan.id
           /\ KeepsOthers(plan.slots, new.slots, plan.slots[k].id)
           /\ entry # NULL => WithId(new.slots, entry.id) # {}
<1> DEFINE slots == [plan.slots EXCEPT ![k] = entry]
<1>1. k \in SlotIdx /\ \A l \in Used(plan.slots) : l \in SlotIdx
  BY DEF Used, Planning
<1>2. new \in Planning /\ new.id = plan.id /\ new.slots = slots
  BY <1>1, WithEntryType
<1>3. /\ slots[k] = entry
      /\ \A l \in SlotIdx : l # k => slots[l] = plan.slots[l]
      /\ entry = NULL => Used(slots) = Used(plan.slots) \ {k}
      /\ entry # NULL => Used(slots) = Used(plan.slots) \cup {k}
  <2>1. slots = [plan.slots EXCEPT ![k] = entry]
    OBVIOUS
  <2> HIDE DEF slots
  <2> QED BY <1>1, <2>1 DEF Planning, Used
<1> HIDE DEF slots
<1>4. ASSUME NEW s, s # plan.slots[k].id, WithId(plan.slots, s) # {}
      PROVE  WithId(new.slots, s) # {}
  <2>1. PICK l \in Used(plan.slots) : plan.slots[l].id = s
    BY <1>4 DEF WithId
  <2>2. l # k /\ l \in Used(slots) /\ slots[l] = plan.slots[l]
    BY <1>1, <1>3, <1>4, <2>1
  <2> QED BY <1>2, <2>1, <2>2 DEF WithId
<1>5. entry # NULL => WithId(new.slots, entry.id) # {}
  BY <1>2, <1>3 DEF WithId
<1> QED BY <1>2, <1>4, <1>5 DEF KeepsOthers

LEMMA DeleteSlotMirror ==
    ASSUME RInv, NEW id \in PlanIds, NEW sid \in SlotIds, DeleteSlot(id, sid)
    PROVE  Mirror' /\ CreatedEmpty'
<1>0. TypeOK
  BY DEF RInv, IInv, TypeInv
<1>1. PICK i \in PlanIdx, k \in SlotIdx :
          /\ i \in WithId(plannings, id)
          /\ k \in WithId(plannings[i].slots, sid)
          /\ plannings' = [plannings EXCEPT ![i] = WithEntry(plannings[i], k, NULL)]
  BY DEF DeleteSlot, IsFirst
<1>2. /\ i \in Used(plannings) /\ plannings[i].id = id
      /\ k \in Used(plannings[i].slots) /\ plannings[i].slots[k].id = sid
  BY <1>1 DEF WithId
<1>3. PICK plan \in Planning : plan = plannings[i]
  BY <1>0, <1>2, EntryFacts
<1>4. PICK new : new = WithEntry(plan, k, NULL)
  OBVIOUS
<1>5. /\ new \in Planning
      /\ new.id = plan.id
      /\ KeepsOthers(plan.slots, new.slots, sid)
  <2>1. k \in Used(plan.slots) /\ plan.slots[k].id = sid
    BY <1>2, <1>3
  <2>2. NULL \in Slot \cup {NULL}
    OBVIOUS
  <2> QED BY <1>4, <2>1, <2>2, ReplacedFound
<1>6. /\ plannings' = [plannings EXCEPT ![i] = new]
      /\ nvs_slots' = WithStored(plan.id, sid, NULL)
      /\ op = "idle" /\ op' = "idle"
      /\ UNCHANGED <<unread, nvs_plan>>
  BY <1>1, <1>2, <1>3, <1>4 DEF DeleteSlot, Idle, request
<1>7. Mirror'
  <2>1. Welcome(plan.id, new.slots, sid, NULL) /\ NULL \in SlotValue \cup {NULL}
    BY DEF Welcome
  <2> QED BY <1>2, <1>3, <1>5, <1>6, <2>1, SlotChanges
<1> QED BY <1>6, <1>7 DEF CreatedEmpty

LEMMA SetSlotMirror ==
    ASSUME RInv, SetSlot
    PROVE  Mirror' /\ CreatedEmpty'
<1>0. TypeOK /\ TypeInv
  BY DEF RInv, IInv, TypeInv
<1>1. PICK i \in PlanIdx, k \in SlotIdx, slot \in Slot, shielded \in BOOLEAN, left \in Patch :
          SetField(i, k, slot, shielded, left) /\ slot.id = plannings[i].slots[k].id
  BY <1>0, SetSlotShape
<1>2. /\ i \in Used(plannings) /\ plannings[i].id = target
      /\ k \in Used(plannings[i].slots) /\ plannings[i].slots[k].id = patch.slot
      /\ patch.slot \in SlotIds
  BY <1>0, <1>1 DEF SetField, IsFirst, WithId, TypeOK, Patch
<1>3. /\ op = "patch" /\ op' \in {"idle", "patch"}
      /\ UNCHANGED <<unread, nvs_plan>>
  BY <1>1 DEF SetField, GoOn, GiveUp
<1>4. CASE UNCHANGED <<plannings, nvs_slots>>
  BY <1>3, <1>4, SameMirror DEF CreatedEmpty
<1>5. CASE /\ ~Taken(plannings[i].slots, slot)
           /\ plannings' = [plannings EXCEPT ![i] = WithEntry(plannings[i], k, slot)]
           /\ nvs_slots' = WithStored(target, patch.slot, ValueOf(slot))
  <2>1. PICK plan \in Planning : plan = plannings[i]
    BY <1>0, <1>2, EntryFacts
  <2>2. PICK new : new = WithEntry(plan, k, slot)
    OBVIOUS
  <2>3. k \in Used(plan.slots) /\ plan.slots[k].id = patch.slot /\ slot.id = patch.slot
    BY <1>1, <1>2, <2>1
  <2>4. /\ new \in Planning
        /\ new.id = plan.id
        /\ KeepsOthers(plan.slots, new.slots, patch.slot)
        /\ WithId(new.slots, patch.slot) # {}
    <3>1. slot \in Slot \cup {NULL} /\ slot # NULL
      BY NullAssumption
    <3> QED BY <2>2, <2>3, <3>1, ReplacedFound
  <2>5. Welcome(plan.id, new.slots, patch.slot, ValueOf(slot))
    <3>1. \A s \in StoredSlotIds(plan.id) : ~SameTime(nvs_slots[plan.id][s], slot)
      BY <1>2, <1>5, <2>1, NotTaken
    <3>2. \A s \in StoredSlotIds(plan.id) : ~SameTime(nvs_slots[plan.id][s], ValueOf(slot))
      BY <3>1 DEF SameTime, ValueOf
    <3> QED BY <2>4, <3>2 DEF Welcome
  <2>6. /\ plannings' = [plannings EXCEPT ![i] = new]
        /\ nvs_slots' = WithStored(plan.id, patch.slot, ValueOf(slot))
    BY <1>2, <1>5, <2>1, <2>2
  <2>7. ValueOf(slot) \in SlotValue \cup {NULL}
    BY ValueOfType
  <2>8. Mirror'
    BY <1>2, <1>3, <2>1, <2>4, <2>5, <2>6, <2>7, SlotChanges
  <2> QED BY <1>3, <2>8 DEF CreatedEmpty
<1> QED BY <1>1, <1>4, <1>5 DEF SetField

\* A planning gets its entry: all that is stored is then found in the list.
LEMMA PostPlanningMirror ==
    ASSUME RInv, NEW name \in Names, PostPlanning(name)
    PROVE  Mirror' /\ CreatedEmpty'
<1>0. TypeOK /\ Coherent /\ CoveredIds /\ NoLeftoverSlots /\ Mirror
  BY DEF RInv, IInv, TypeInv
<1>1. PICK id \in PlanIds : id = max_id + 1
  BY <1>0, SizesAssumption DEF PostPlanning, TypeOK, PlanIds
<1>2. /\ op = "idle" /\ unread = {} /\ max_id \in Int
      /\ op' = "create" /\ target' = id
      /\ nvs_plan' = [nvs_plan EXCEPT ![id] = name]
      /\ UNCHANGED <<unread, nvs_slots>>
  BY <1>0, <1>1 DEF PostPlanning, Idle, Coherent, TypeOK
<1>3. PICK new : new = NewPlanning(id, name)
  OBVIOUS
<1>4. new \in Planning /\ new.id = id
  BY <1>3, SizesAssumption DEF NewPlanning, Planning, EmptySlots
<1>5. PICK i \in Free(plannings) : plannings' = [plannings EXCEPT ![i] = new]
  BY <1>1, <1>3 DEF PostPlanning, IsFirst
<1>6. /\ Used(plannings)' = Used(plannings) \cup {i}
      /\ plannings'[i] = new
      /\ \A j \in Used(plannings) : j # i /\ plannings'[j] = plannings[j]
  BY <1>0, <1>4, <1>5, AppendEffect
<1>7. nvs_slots[id] = NoStoredSlots
  BY <1>0, <1>1, <1>2 DEF CoveredIds, NoLeftoverSlots
<1>8. \A p \in StoredPlans' : Listed(p)'
  <2> TAKE p \in StoredPlans'
  <2>1. CASE p = id
    BY <1>4, <1>6, <2>1 DEF Listed, WithId
  <2>2. CASE p # id
    <3>1. p \in StoredPlans
      BY <1>0, <1>2, <2>2 DEF StoredPlans, TypeOK
    <3>2. Listed(p)
      BY <1>0, <1>2, <3>1 DEF Mirror, PlansListed, BeingRemoved
    <3> QED BY <1>6, <3>2 DEF Listed, WithId
  <2> QED BY <2>1, <2>2
<1>9. PlansListed'
  BY <1>8 DEF PlansListed
<1>10. SlotsListed'
  <2>1. StoredSlotIds(id) = {}
    BY <1>7 DEF StoredSlotIds, NoStoredSlots
  <2> SUFFICES ASSUME NEW j \in Used(plannings)', NEW s \in SlotIds,
                      nvs_slots[plannings'[j].id][s] # NULL
               PROVE  WithId(plannings'[j].slots, s) # {}
    BY <1>2 DEF SlotsListed, StoredSlotIds
  <2>2. CASE j = i
    BY <1>4, <1>6, <2>1, <2>2 DEF StoredSlotIds
  <2>3. CASE j # i
    BY <1>0, <1>6, <2>3 DEF Mirror, SlotsListed, StoredSlotIds
  <2> QED BY <2>2, <2>3
<1>11. Room'
  <2>1. DOMAIN plannings' = 0 .. MAX_PLANNING - 1 /\ MAX_PLANNING \in Nat
    BY <1>0, <1>5, SizesAssumption DEF TypeOK, PlanIdx
  <2>2. Cardinality(StoredPlans') <= MAX_PLANNING
    BY <1>8, <2>1, FoundFits DEF Listed
  <2> QED BY <1>0, <1>2, <2>2 DEF Mirror, Room, StoredSlotIds
<1>12. StoredTimesDiffer'
  BY <1>0, <1>2 DEF Mirror, StoredTimesDiffer, StoredSlotIds
<1> QED BY <1>2, <1>7, <1>9, <1>10, <1>11, <1>12 DEF Mirror, CreatedEmpty

LEMMA PatchPlanningMirror ==
    ASSUME RInv, NEW id \in PlanIds, NEW name \in Names, PatchPlanning(id, name)
    PROVE  Mirror' /\ CreatedEmpty'
<1>0. TypeOK /\ Mirror /\ IInv
  BY DEF RInv, IInv, TypeInv
<1>1. PICK i \in WithId(plannings, id) :
          plannings' = [plannings EXCEPT ![i] = Renamed(plannings[i], name)]
  BY DEF PatchPlanning, IsFirst
<1>2. i \in Used(plannings) /\ plannings[i] \in Planning /\ plannings[i].id = id
  BY <1>0, <1>1, EntryFacts DEF WithId
<1>3. PICK new : new = Renamed(plannings[i], name)
  OBVIOUS
<1>4. new \in Planning /\ new.id = plannings[i].id /\ new.slots = plannings[i].slots
  BY <1>2, <1>3 DEF Renamed, Planning
<1>5. /\ Used(plannings)' = Used(plannings)
      /\ plannings'[i] = new
      /\ \A j \in Used(plannings) : j # i => plannings'[j] = plannings[j]
      /\ \A p : Listed(p)' <=> Listed(p)
  BY <1>0, <1>1, <1>2, <1>3, <1>4, ReplaceEffect
<1>6. /\ UNCHANGED <<unread, nvs_slots>> /\ op = "idle" /\ op' = "idle"
      /\ \A p \in PlanIds : p # id => nvs_plan'[p] = nvs_plan[p]
  BY <1>0 DEF PatchPlanning, request, Idle, TypeOK
<1>7. \A p \in PlanIds : nvs_plan'[p] # NULL => nvs_plan[p] # NULL
  BY <1>0, <1>2, <1>6, CountedIds
<1>8. Room' /\ StoredTimesDiffer'
  BY <1>0, <1>6, <1>7, LessStored
<1>9. PlansListed'
  BY <1>0, <1>5, <1>6, <1>7 DEF Mirror, PlansListed, StoredPlans, BeingRemoved
<1>10. SlotsListed'
  <2>1. \A j \in Used(plannings) :
           plannings'[j].id = plannings[j].id /\ plannings'[j].slots = plannings[j].slots
    BY <1>4, <1>5
  <2> QED BY <1>0, <1>5, <1>6, <2>1 DEF Mirror, SlotsListed, StoredSlotIds
<1> QED BY <1>6, <1>8, <1>9, <1>10 DEF Mirror, CreatedEmpty

LEMMA DeletePlanningMirror ==
    ASSUME RInv, NEW id \in PlanIds, DeletePlanning(id)
    PROVE  Mirror' /\ CreatedEmpty'
<1>0. TypeOK /\ Mirror
  BY DEF RInv, IInv, TypeInv
<1>1. PICK i \in WithId(plannings, id) :
          doomed' = plannings[i] /\ plannings' = [plannings EXCEPT ![i] = NULL]
  BY DEF DeletePlanning, IsFirst
<1>2. i \in Used(plannings) /\ doomed'.id = id
  BY <1>1 DEF WithId
<1>3. /\ Used(plannings)' = Used(plannings) \ {i}
      /\ \A j \in Used(plannings)' : plannings'[j] = plannings[j]
  BY <1>0, <1>1 DEF Used, TypeOK
<1>4. /\ UNCHANGED <<unread, nvs_plan, nvs_slots>>
      /\ op = "idle" /\ op' = "purge"
  BY DEF DeletePlanning, Idle, nvs
<1>5. Room' /\ StoredTimesDiffer'
  BY <1>0, <1>4, LessStored
<1>6. PlansListed'
  <2>1. \A p : Listed(p) /\ p # id => Listed(p)'
    BY <1>1, <1>3 DEF Listed, WithId
  <2> QED BY <1>0, <1>2, <1>4, <2>1 DEF Mirror, PlansListed, StoredPlans, BeingRemoved
<1>7. SlotsListed'
  BY <1>0, <1>3, <1>4 DEF Mirror, SlotsListed, StoredSlotIds
<1> QED BY <1>4, <1>5, <1>6, <1>7 DEF Mirror, CreatedEmpty

\* What is removed stays out of the list until its key is gone.
LEMMA PurgeMirror ==
    ASSUME RInv, UNCHANGED <<unread, plannings, nvs_plan>>,
           op \in {"purge", "erase"}, op' \in {"purge", "erase"}, doomed'.id = doomed.id,
           \A id \in PlanIds, s \in SlotIds :
              nvs_slots'[id][s] # NULL => nvs_slots'[id][s] = nvs_slots[id][s]
    PROVE  Mirror' /\ CreatedEmpty'
<1>0. TypeOK /\ Mirror
  BY DEF RInv, IInv, TypeInv
<1>1. Room' /\ StoredTimesDiffer'
  BY <1>0, LessStored
<1>2. PlansListed'
  BY <1>0 DEF Mirror, PlansListed, StoredPlans, BeingRemoved, Listed
<1>3. SlotsListed'
  <2>1. \A i \in Used(plannings) : plannings[i].id \in PlanIds
    BY <1>0, EntryFacts
  <2> QED BY <1>0, <2>1 DEF Mirror, SlotsListed, StoredSlotIds
<1> QED BY <1>1, <1>2, <1>3 DEF Mirror, CreatedEmpty

LEMMA PurgeSlotMirror ==
    ASSUME RInv, PurgeSlot
    PROVE  Mirror' /\ CreatedEmpty'
<1>0. TypeOK /\ Coherent
  BY DEF RInv, IInv, TypeInv
<1>1. PICK k \in Used(doomed.slots) :
          /\ nvs_slots' = WithStored(doomed.id, doomed.slots[k].id, NULL)
          /\ doomed' = WithEntry(doomed, k, NULL)
  BY DEF PurgeSlot, IsFirst
<1>2. /\ op = "purge" /\ doomed \in Planning
      /\ UNCHANGED <<unread, plannings, nvs_plan, op>>
  BY <1>0 DEF PurgeSlot, TypeOK, Coherent, memory
<1>3. doomed.id \in PlanIds /\ k \in SlotIdx /\ doomed.slots[k].id \in SlotIds
  BY <1>1, <1>2 DEF Planning, Used, Slot
<1>4. doomed'.id = doomed.id
  BY <1>1, <1>2, <1>3, WithEntryType
<1>5. \A id \in PlanIds, s \in SlotIds :
         nvs_slots'[id][s] # NULL => nvs_slots'[id][s] = nvs_slots[id][s]
  BY <1>0, <1>1, <1>3, WithStoredEffect
<1> QED BY <1>2, <1>4, <1>5, PurgeMirror

LEMMA ClearSlotsMirror ==
    ASSUME RInv, ClearSlots
    PROVE  Mirror' /\ CreatedEmpty'
<1>0. TypeOK /\ Coherent
  BY DEF RInv, IInv, TypeInv
<1>1. /\ op = "purge" /\ op' = "erase"
      /\ nvs_slots' = [nvs_slots EXCEPT ![doomed.id] = NoStoredSlots]
      /\ UNCHANGED <<unread, plannings, nvs_plan, doomed>>
  BY DEF ClearSlots
<1>2. \A id \in PlanIds, s \in SlotIds :
         nvs_slots'[id][s] # NULL => nvs_slots'[id][s] = nvs_slots[id][s]
  BY <1>0, <1>1 DEF TypeOK, NoStoredSlots
<1> QED BY <1>1, <1>2, PurgeMirror

LEMMA EraseKeyMirror ==
    ASSUME RInv, EraseKey
    PROVE  Mirror' /\ CreatedEmpty'
<1>0. TypeOK /\ Coherent /\ Mirror
  BY DEF RInv, IInv, TypeInv
<1>1. /\ op = "erase" /\ op' = "idle"
      /\ nvs_plan' = [nvs_plan EXCEPT ![doomed.id] = NULL]
      /\ UNCHANGED <<unread, plannings, nvs_slots>>
  BY DEF EraseKey, memory
<1>2. \A p \in PlanIds : nvs_plan'[p] # NULL => p # doomed.id /\ nvs_plan[p] # NULL
  BY <1>0, <1>1 DEF TypeOK
<1>3. Room' /\ StoredTimesDiffer'
  BY <1>0, <1>1, <1>2, LessStored
<1>4. PlansListed'
  BY <1>0, <1>1, <1>2 DEF Mirror, PlansListed, StoredPlans, BeingRemoved, Listed
<1>5. SlotsListed'
  BY <1>0, <1>1 DEF Mirror, SlotsListed, StoredSlotIds
<1> QED BY <1>1, <1>3, <1>4, <1>5 DEF Mirror, CreatedEmpty

\* After a restart, all that is stored is still to be read.
LEMMA RestartMirror ==
    ASSUME RInv, Restart
    PROVE  Mirror' /\ CreatedEmpty'
<1>0. TypeOK /\ Mirror
  BY DEF RInv, IInv, TypeInv
<1>1. /\ Used(plannings)' = {} /\ op' = "idle"
      /\ unread' = {id \in PlanIds : nvs_plan[id] # NULL}
      /\ UNCHANGED <<nvs_plan, nvs_slots>>
  BY DEF Restart, Used, nvs
<1>2. Room' /\ StoredTimesDiffer'
  BY <1>0, <1>1, LessStored
<1>3. PlansListed' /\ SlotsListed'
  BY <1>1 DEF PlansListed, SlotsListed, StoredPlans
<1> QED BY <1>1, <1>2, <1>3 DEF Mirror, CreatedEmpty

\* A planning is read back with every slot stored for it: they all fit.
LEMMA LoadPlanningMirror ==
    ASSUME RInv, NEW id \in PlanIds, LoadPlanning(id)
    PROVE  Mirror' /\ CreatedEmpty'
<1>0. TypeOK /\ Coherent /\ Mirror
  BY DEF RInv, IInv, TypeInv
<1>1. PICK i \in Free(plannings),
           ids \in [SlotIdx -> StoredSlotIds(id) \cup {NULL}],
           m \in -1 .. MAX_SLOT_ID :
             /\ IsLoadOrder(ids, StoredSlotIds(id))
             /\ plannings' = [plannings EXCEPT ![i] =
                [id |-> id, name |-> nvs_plan[id], max_slot_id |-> m,
                 slots |-> LoadedSlots(id, ids)]]
  BY DEF LoadPlanning, IsFirst
<1>2. PICK new : new = [id |-> id, name |-> nvs_plan[id], max_slot_id |-> m,
                        slots |-> LoadedSlots(id, ids)]
  OBVIOUS
<1>3. /\ id \in unread /\ unread' = unread \ {id} /\ op = "idle" /\ op' = "idle"
      /\ UNCHANGED <<nvs_plan, nvs_slots, doomed>>
  BY <1>0 DEF LoadPlanning, Coherent, request, nvs
<1>4. new \in Planning /\ new.id = id /\ new.slots = LoadedSlots(id, ids)
  <2>1. nvs_plan[id] \in Names
    BY <1>0, <1>3 DEF TypeOK, Coherent
  <2>2. LoadedSlots(id, ids) \in [SlotIdx -> Slot \cup {NULL}]
    BY <1>0, LoadedSlotsType
  <2> QED BY <1>2, <2>1, <2>2 DEF Planning
<1>5. /\ Used(plannings)' = Used(plannings) \cup {i}
      /\ plannings'[i] = new
      /\ \A j \in Used(plannings) : j # i /\ plannings'[j] = plannings[j]
  BY <1>0, <1>1, <1>2, <1>4, AppendEffect
<1>6. \A s \in StoredSlotIds(id) : \E k \in SlotIdx : ids[k] = s
  <2>1. CASE \A k \in SlotIdx : ids[k] # NULL
    <3>1. ids \in [SlotIdx -> StoredSlotIds(id)]
      BY <2>1
    <3>2. \A k, l \in SlotIdx : ids[k] = ids[l] => k = l
      BY <1>1, <2>1 DEF IsLoadOrder
    <3>3. /\ MAX_SLOT \in Nat /\ IsFiniteSet(StoredSlotIds(id))
          /\ Cardinality(StoredSlotIds(id)) <= MAX_SLOT
      BY <1>0, StoredFinite, SizesAssumption DEF Mirror, Room
    <3> QED BY <3>1, <3>2, <3>3, FullHoldsAll DEF SlotIdx
  <2>2. CASE \A s \in StoredSlotIds(id) : \E k \in SlotIdx : ids[k] = s
    BY <2>2
  <2> QED BY <1>1, <2>1, <2>2 DEF IsLoadOrder
<1>7. \A s \in StoredSlotIds(id) : WithId(new.slots, s) # {}
  <2> TAKE s \in StoredSlotIds(id)
  <2>1. PICK k \in SlotIdx : ids[k] = s
    BY <1>6
  <2>2. s \in SlotIds /\ nvs_slots[id][s] \in SlotValue /\ s # NULL
    <3>1. s \in SlotIds /\ nvs_slots[id][s] \in SlotValue
      BY <1>0 DEF StoredSlotIds, TypeOK
    <3> QED BY <3>1, SizesAssumption, NullAssumption DEF SlotIds
  <2>3. new.slots[k] = SlotOf(s, nvs_slots[id][s])
    BY <1>4, <2>1, <2>2 DEF LoadedSlots
  <2>4. new.slots[k].id = s /\ new.slots[k] # NULL
    BY <2>2, <2>3, SlotOfType, NullAssumption
  <2>5. k \in DOMAIN new.slots
    BY <1>4 DEF LoadedSlots
  <2> QED BY <2>4, <2>5 DEF WithId, Used
<1>8. Room' /\ StoredTimesDiffer'
  BY <1>0, <1>3, LessStored
<1>9. PlansListed'
  <2>1. \A p : Listed(p) => Listed(p)'
    BY <1>5 DEF Listed, WithId
  <2>2. Listed(id)'
    BY <1>4, <1>5 DEF Listed, WithId
  <2> QED BY <1>0, <1>3, <2>1, <2>2 DEF Mirror, PlansListed, StoredPlans, BeingRemoved
<1>10. SlotsListed'
  BY <1>0, <1>3, <1>4, <1>5, <1>7 DEF Mirror, SlotsListed, StoredSlotIds
<1> QED BY <1>3, <1>8, <1>9, <1>10 DEF Mirror, CreatedEmpty

\* No boot drops a planning: the list would hold more than is stored.
LEMMA NoneDropped ==
    ASSUME RInv, NEW id \in PlanIds, DropPlanning(id)
    PROVE  FALSE
<1>0. TypeOK /\ Coherent /\ UniqueIds /\ CoveredIds /\ Mirror
  BY DEF RInv, IInv, TypeInv
<1>1. id \in unread /\ id \in StoredPlans
  BY <1>0 DEF DropPlanning, Coherent, StoredPlans
<1>2. Used(plannings) = PlanIdx
  BY <1>0 DEF DropPlanning, Free, Used, TypeOK
<1> DEFINE f == [i \in PlanIdx |-> plannings[i].id]
<1>3. f \in [PlanIdx -> StoredPlans]
  BY <1>0, <1>2, EntryFacts, CountedIds DEF RInv, StoredPlans
<1>4. \A k, l \in PlanIdx : f[k] = f[l] => k = l
  BY <1>0, <1>2 DEF UniqueIds
<1>5. MAX_PLANNING \in Nat /\ IsFiniteSet(StoredPlans) /\ Cardinality(StoredPlans) <= MAX_PLANNING
  BY <1>0, StoredFinite, SizesAssumption DEF Mirror, Room
<1>6. \A k \in PlanIdx : f[k] \notin unread
  BY <1>0, <1>2 DEF CoveredIds
<1> HIDE DEF f
<1> QED BY <1>1, <1>3, <1>4, <1>5, <1>6, FullHoldsAll DEF PlanIdx

LEMMA LoadZonesMirror ==
    ASSUME RInv, LoadZones
    PROVE  Mirror' /\ CreatedEmpty'
<1>1. op = "idle" /\ op' = "idle" /\ UNCHANGED <<unread, plannings, nvs_plan, nvs_slots>>
  BY DEF LoadZones, RInv, IInv, TypeInv, Coherent, request, nvs
<1> QED BY <1>1, SameMirror DEF CreatedEmpty

LEMMA PatchSlotMirror ==
    ASSUME RInv, NEW id \in PlanIds, NEW fields \in Patch, PatchSlot(id, fields)
    PROVE  Mirror' /\ CreatedEmpty'
<1>1. op = "idle" /\ op' = "patch" /\ UNCHANGED <<unread, plannings, nvs_plan, nvs_slots>>
  BY DEF PatchSlot, Idle, memory, nvs
<1> QED BY <1>1, SameMirror DEF CreatedEmpty

LEMMA ZonesMirror ==
    ASSUME RInv,
           \/ \E z \in Zones, config \in ZoneConfig : PatchZone(z, config)
           \/ \E z \in Zones : DescribeZone(z)
    PROVE  Mirror' /\ CreatedEmpty'
<1>1. op = "idle" /\ op' = "idle" /\ UNCHANGED <<unread, plannings, nvs_plan, nvs_slots>>
  BY DEF PatchZone, DescribeZone, Idle, memory, request
<1> QED BY <1>1, SameMirror DEF CreatedEmpty

\* Nothing is stored at first power up.
LEMMA InitMirror == Init => Mirror /\ CreatedEmpty
<1> SUFFICES ASSUME Init PROVE Mirror /\ CreatedEmpty
  OBVIOUS
<1>1. /\ Used(plannings) = {} /\ op = "idle"
      /\ StoredPlans = {} /\ \A id \in PlanIds : StoredSlotIds(id) = {}
  BY DEF Init, Used, StoredPlans, StoredSlotIds, NoStoredSlots
<1>2. Room
  BY <1>1, FS_EmptySet, SizesAssumption DEF Room
<1> QED BY <1>1, <1>2 DEF Mirror, PlansListed, SlotsListed, StoredTimesDiffer, CreatedEmpty

\* Every step taken with room in the tables keeps the invariant.
LEMMA RoomyKeeps == RInv /\ [RoomyNext]_vars => RInv'
<1> SUFFICES ASSUME RInv, [RoomyNext]_vars PROVE RInv'
  OBVIOUS
<1>1. IInv'
  BY NextKeeps DEF RInv, RoomyNext, Next
<1>2. CASE Requests
  BY <1>1, <1>2, PostPlanningMirror, PatchPlanningMirror, DeletePlanningMirror, PostSlotMirror,
     DeleteSlotMirror, PatchSlotMirror, ZonesMirror DEF Requests, RInv
<1>3. CASE Finish
  BY <1>1, <1>3, AddFirstSlotMirror, PurgeSlotMirror, ClearSlotsMirror, EraseKeyMirror,
     SetSlotMirror DEF Finish, RInv
<1>4. CASE Load
  BY <1>1, <1>4, LoadPlanningMirror, NoneDropped, LoadZonesMirror DEF Load, RInv
<1>5. CASE AbortOnHour \/ Restart
  BY <1>1, <1>5, RestartMirror DEF AbortOnHour, RInv
<1>6. CASE UNCHANGED vars
  <2>1. UNCHANGED <<plannings, unread, nvs_plan, nvs_slots, op, target, doomed>>
    BY <1>6 DEF vars, memory, request, nvs
  <2>2. Room' /\ StoredTimesDiffer'
    BY <2>1, LessStored DEF RInv
  <2>3. PlansListed' /\ SlotsListed' /\ CreatedEmpty'
    BY <2>1 DEF RInv, Mirror, PlansListed, SlotsListed, StoredPlans, StoredSlotIds,
                BeingRemoved, Listed, CreatedEmpty
  <2> QED BY <1>1, <2>2, <2>3 DEF RInv, Mirror
<1> QED BY <1>2, <1>3, <1>4, <1>5, <1>6 DEF RoomyNext

THEOREM RoomyInductive == RoomySpec => []RInv
<1>1. Init => RInv
  BY InitKeeps, InitMirror DEF RInv
<1>2. RInv /\ [RoomyNext]_vars => RInv'
  BY RoomyKeeps
<1> QED BY <1>1, <1>2, PTL DEF RoomySpec

-----------------------------------------------------------------------------
(* What the invariant implies. *)

\* No two slots of a planning start at the same time, whatever the changes,
\* power losses and boots: a slot is only compared with those of the array
\* (ofp.c:1004, ofp.c:1460), but these are all the slots that are stored.
THEOREM TimesAreUnique == RoomySpec => []NoDuplicateTimes
<1>1. ASSUME RInv, NEW i \in Used(plannings),
             NEW k \in Used(plannings[i].slots), NEW l \in Used(plannings[i].slots),
             SameTime(plannings[i].slots[k], plannings[i].slots[l])
      PROVE  k = l
  <2>0. TypeOK /\ UniqueIds /\ MemoryIsStored /\ StoredTimesDiffer
    BY <1>1 DEF RInv, IInv, TypeInv, Mirror
  <2>1. PICK id \in PlanIds : id = plannings[i].id
    BY <2>0, EntryFacts
  <2>2. PICK a \in Slot, b \in Slot : a = plannings[i].slots[k] /\ b = plannings[i].slots[l]
    BY <2>0, EntryFacts
  <2>3. nvs_slots[id][a.id] = ValueOf(a) /\ nvs_slots[id][b.id] = ValueOf(b)
    BY <2>0, <2>1, <2>2 DEF MemoryIsStored
  <2>4. a.id \in StoredSlotIds(id) /\ b.id \in StoredSlotIds(id)
    <3>1. ValueOf(a) # NULL /\ ValueOf(b) # NULL
      BY ValueOfType, NullAssumption
    <3>2. a.id \in SlotIds /\ b.id \in SlotIds
      BY DEF Slot
    <3> QED BY <2>3, <3>1, <3>2 DEF StoredSlotIds
  <2>5. SameTime(nvs_slots[id][a.id], nvs_slots[id][b.id])
    BY <1>1, <2>2, <2>3 DEF SameTime, ValueOf
  <2>6. a.id = b.id
    BY <2>0, <2>4, <2>5 DEF StoredTimesDiffer
  <2> QED BY <2>0, <2>2, <2>6 DEF UniqueIds
<1>2. RInv => NoDuplicateTimes
  BY <1>1 DEF NoDuplicateTimes
<1> QED BY <1>2, RoomyInductive, PTL

\* Between requests, what is stored is in the list, slots included: no boot
\* finds more than the tables hold (ofp.c:1160, ofp.c:1251), whatever the order
\* NVS gives the keys in.
THEOREM StoreLoaded == RoomySpec => []StoreIsLoaded
<1>1. ASSUME RInv, Idle, NEW id \in PlanIds, nvs_plan[id] # NULL
      PROVE  \E i \in WithId(plannings, id) :
                \A s \in StoredSlotIds(id) : WithId(plannings[i].slots, s) # {}
  <2>1. Listed(id)
    BY <1>1 DEF RInv, IInv, TypeInv, Coherent, Mirror, PlansListed, StoredPlans, BeingRemoved, Idle
  <2>2. PICK i \in WithId(plannings, id) : TRUE
    BY <2>1 DEF Listed
  <2>3. i \in Used(plannings) /\ plannings[i].id = id
    BY DEF WithId
  <2> QED BY <1>1, <2>3 DEF RInv, Mirror, SlotsListed
<1>2. RInv => StoreIsLoaded
  BY <1>1 DEF StoreIsLoaded
<1> QED BY <1>2, RoomyInductive, PTL
=============================================================================
