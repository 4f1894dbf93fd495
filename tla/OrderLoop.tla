------------------------------ MODULE OrderLoop ------------------------------
(***************************************************************************)
(* The main task of src/main/main.c, which computes the order of every     *)
(* zone once a second and shifts it out to the relays, while the httpd     *)
(* task changes zones, plannings and override.  Neither takes a lock: the  *)
(* steps are single reads and writes of the shared globals.                *)
(*                                                                         *)
(* One httpd task serves one request at a time: job is the request in      *)
(* service, and what it has left to write.  Stores are kept in the order   *)
(* of the source.  Memory read after it was freed yields anything.         *)
(***************************************************************************)
EXTENDS Integers, Sequences, SequencesExt

CONSTANTS
    ZONES,       \* number of zones of the hardware
    PLANNINGS,   \* OFP_MAX_PLANNING_COUNT
    SLOTS,       \* OFP_MAX_PLANNING_SLOT_COUNT
    PlanIds,     \* planning ids
    Orders,      \* orders requests ask for
    COZY,        \* DEFAULT_FIXED_ORDER_FOR_ZONES
    WEEK,        \* duration of a week
    PERIOD,      \* five minutes, of which the extended orders...
    BRIEF, LONG, \* ...give the first 3 and 7 seconds to economy
    Starts,      \* times of the week slots may start at...
    Instants,    \* ...and the clock may show
    Garbage,     \* what freed memory may hold
    NULL,
    FREED        \* a slot whose memory was freed

Known == 0 .. 5      \* enum ofp_order_id, below HW_OFP_ORDER_ID_ENUM_SIZE

Zones == 0 .. ZONES - 1
Places == 0 .. PLANNINGS - 1
Entries == 0 .. SLOTS - 1
Times == 0 .. WEEK - 1
Slot == [start : Starts, order : Orders \cup {COZY}]

ASSUME ConstantsAssumption ==
    /\ {ZONES, PLANNINGS, SLOTS, WEEK, PERIOD} \subseteq Nat \ {0}
    /\ BRIEF \in Nat /\ LONG \in Nat
    /\ PlanIds \subseteq Nat
    /\ Orders \subseteq Known /\ COZY \in Known
    /\ Starts \subseteq Times /\ 0 \in Starts
    /\ Instants \subseteq Times
    /\ Garbage \subseteq Nat
    /\ NULL # FREED /\ {NULL, FREED} \cap (Int \cup Slot) = {}

VARIABLES
    mode, data,     \* mode and mode_data of each zone, a C union
    current,        \* the order computed for each zone
    active, forced, \* override_global
    plannings,      \* plan_list_global: the id of the planning each entry points to
    memory,         \* of each planning: none, held, freed
    slots,          \* slots of each planning
    clock,          \* time of the week
    pc,             \* where the main task is
    now,            \* timeinfo of the main task
    over, sent,     \* override_active and override_order_id of the main task
    zone,           \* zone the main task is at
    wanted, place,  \* planning_id and i of ofp_planning_list_find_planning_by_id
    plan,           \* its plan, and that of ofp_zone_update_from_planning
    entry,          \* i of the loop over the slots
    gap, best,      \* its min_delta and most_recent_slot
    stale,          \* most_recent_slot points to freed memory
    relays,         \* half waves latched for each zone
    job,            \* request in service
    touched         \* history: what requests wrote since the loop began

list == <<plannings, memory>>
settings == <<mode, data, active, forced, list, slots>>
pass == <<now, over, sent, zone>>
search == <<wanted, place, plan, entry, gap, best>>
locals == <<pc, pass, search>>
vars == <<settings, current, clock, locals, stale, relays, job, touched>>

\* What the request in service has left to write: the data of a zone, the order
\* of the override, the first slot of a planning, slots to free and to take off,
\* zones to release, the data of a zone being released.
Ops == {"idle", "data", "force", "first", "free", "null", "release", "default"}

Job(op, at, value) == [op |-> op, at |-> at, value |-> value]
Idle == Job("idle", 0, 0)

TypeOK ==
    /\ mode \in [Zones -> {"fixed", "planning"}]
    /\ data \in [Zones -> Nat]
    /\ current \in [Zones -> Nat]
    /\ active \in BOOLEAN
    /\ forced \in Known
    /\ plannings \in [Places -> PlanIds \cup {NULL}]
    /\ memory \in [PlanIds -> {"none", "held", "freed"}]
    /\ slots \in [PlanIds -> [Entries -> Slot \cup {NULL, FREED}]]
    /\ clock \in Times
    /\ pc \in {"start", "override", "zone", "fixed", "find", "look", "match", "scan", "take", "apply", "down"}
    /\ now \in Times
    /\ over \in BOOLEAN
    /\ sent \in Known
    /\ zone \in 0 .. ZONES
    /\ wanted \in Nat
    /\ place \in 0 .. PLANNINGS
    /\ plan \in PlanIds \cup {NULL}
    /\ entry \in 0 .. SLOTS
    /\ gap \in 0 .. WEEK
    /\ best \in Entries \cup {NULL}
    /\ stale \in BOOLEAN
    /\ relays \in [Zones -> BOOLEAN \X BOOLEAN]
    /\ job \in [op : Ops, at : Nat, value : Nat]

NoSlots == [k \in Entries |-> NULL]

\* After the boot: zones at the default, no planning yet.
Init ==
    /\ mode = [z \in Zones |-> "fixed"]
    /\ data = [z \in Zones |-> COZY]
    /\ current = [z \in Zones |-> COZY]
    /\ active = FALSE
    /\ forced = COZY
    /\ plannings = [k \in Places |-> NULL]
    /\ memory = [p \in PlanIds |-> "none"]
    /\ slots = [p \in PlanIds |-> NoSlots]
    /\ clock \in Instants
    /\ pc = "start" /\ now = 0
    /\ over = FALSE /\ sent = COZY
    /\ zone = 0 /\ wanted = 0 /\ place = 0 /\ plan = NULL /\ entry = 0
    /\ gap = WEEK /\ best = NULL /\ stale = FALSE
    /\ relays = [z \in Zones |-> <<FALSE, FALSE>>]
    /\ job = Idle
    /\ touched = {}

-----------------------------------------------------------------------------
(* The main task. *)

Up == pc # "down"

\* The locals of ofp_zone_update_from_planning, before it and after it.
NoSearch == /\ wanted' = 0 /\ place' = 0 /\ plan' = NULL
            /\ entry' = 0 /\ gap' = WEEK /\ best' = NULL /\ stale' = FALSE

\* Top of the loop: the clock is read, then the override's flag...
Start ==
    /\ pc = "start"
    /\ now' = clock
    /\ over' = active
    /\ pc' = "override"
    /\ touched' = {}
    /\ UNCHANGED <<settings, current, clock, sent, zone, search, stale, relays, job>>

\* Mutant: the order is left as it was initialised.
ReadOverrideUnset ==
    /\ pc = "override"
    /\ sent' = COZY
    /\ zone' = 0
    /\ pc' = "zone"
    /\ UNCHANGED <<settings, current, clock, now, over, search, stale, relays, job, touched>>

\* ...and its order, if the flag was set.
ReadOverride ==
    /\ pc = "override"
    /\ sent' = IF over THEN forced ELSE COZY
    /\ zone' = 0
    /\ pc' = "zone"
    /\ UNCHANGED <<settings, current, clock, now, over, search, stale, relays, job, touched>>

\* The zone at hand gets an order and the loop goes on with the next one.
Decide(order) ==
    /\ current' = [current EXCEPT ![zone] = order]
    /\ zone' = zone + 1
    /\ pc' = "zone"
    /\ NoSearch
    /\ UNCHANGED <<settings, clock, now, over, sent, relays, job, touched>>

OverrideZone == pc = "zone" /\ zone < ZONES /\ over /\ Decide(sent)

\* Otherwise the mode is read first, the data of the union later.
ReadMode ==
    /\ pc = "zone"
    /\ zone < ZONES
    /\ ~over
    /\ pc' = IF mode[zone] = "fixed" THEN "fixed" ELSE "find"
    /\ UNCHANGED <<settings, current, clock, pass, search, stale, relays, job, touched>>

FixedZone == pc = "fixed" /\ Decide(data[zone])

\* ofp_zone_update_from_planning has the planning looked up by the id in the data...
CallFind ==
    /\ pc = "find"
    /\ wanted' = data[zone]
    /\ pc' = "look"
    /\ UNCHANGED <<settings, current, clock, pass, place, plan, entry, gap, best, stale, relays, job, touched>>

\* The next entry of the list.
NextPlace ==
    /\ place' = place + 1
    /\ plan' = NULL
    /\ pc' = "look"
    /\ UNCHANGED <<settings, current, clock, pass, wanted, entry, gap, best, stale, relays, job, touched>>

\* Mutant: the list is taken to end at the first entry that is free.
SkipPlaceLast ==
    /\ pc = "look"
    /\ place < PLANNINGS
    /\ plannings[place] = NULL
    /\ place' = PLANNINGS
    /\ UNCHANGED <<settings, current, clock, pc, pass, wanted, plan, entry, gap, best, stale, relays, job, touched>>

\* ...in each entry that is not free...
SkipPlace ==
    /\ pc = "look"
    /\ place < PLANNINGS
    /\ plannings[place] = NULL
    /\ NextPlace

\* ...the pointer is loaded...
LoadPlanning ==
    /\ pc = "look"
    /\ place < PLANNINGS
    /\ plannings[place] # NULL
    /\ plan' = plannings[place]
    /\ pc' = "match"
    /\ UNCHANGED <<settings, current, clock, pass, wanted, place, entry, gap, best, stale, relays, job, touched>>

\* (the planning is the one: its slots are next)
Found ==
    /\ wanted' = 0 /\ place' = 0
    /\ entry' = 0
    /\ gap' = WEEK
    /\ best' = NULL
    /\ stale' = FALSE
    /\ pc' = "scan"
    /\ UNCHANGED <<settings, current, clock, pass, plan, relays, job, touched>>

\* ...and the id read through it, whether or not the list still has it...
MatchPlanning ==
    /\ pc = "match"
    /\ memory[plan] # "freed"
    /\ IF plan = wanted THEN Found ELSE NextPlace

\* (of a planning freed since, the id may read as any)
MatchFreed ==
    /\ pc = "match"
    /\ memory[plan] = "freed"
    /\ Found \/ NextPlace

NoPlanning == pc = "look" /\ place = PLANNINGS /\ Decide(COZY)

\* Mutant: of two slots as recent as each other, the first one is kept, and a
\* slot that starts now is not seen.
RetainedEarlier(delta, min) == delta > 0 /\ delta < min

\* "reject future slots and slots older than current"
Retained(delta, min) == delta >= 0 /\ delta <= min

\* ...its slots are read one after the other...
ScanSlot ==
    /\ pc = "scan"
    /\ entry < SLOTS
    /\ memory[plan] # "freed"
    /\ slots[plan][entry] # FREED
    /\ LET slot == slots[plan][entry]
       IN  IF slot # NULL /\ Retained(now - slot.start, gap)
           THEN gap' = now - slot.start /\ best' = entry /\ stale' = FALSE
           ELSE UNCHANGED <<gap, best, stale>>
    /\ entry' = entry + 1
    /\ UNCHANGED <<settings, current, clock, pc, pass, wanted, place, plan, relays, job, touched>>

\* (a slot freed and not yet taken off the array reads as any time, and so does
\* whatever a planning freed since seems to have for a slot)
ScanFreed ==
    /\ pc = "scan"
    /\ entry < SLOTS
    /\ memory[plan] = "freed" \/ slots[plan][entry] = FREED
    /\ \/ UNCHANGED <<gap, best, stale>>
       \/ gap' \in 0 .. gap /\ best' = entry /\ stale' = TRUE
    /\ entry' = entry + 1
    /\ UNCHANGED <<settings, current, clock, pc, pass, wanted, place, plan, relays, job, touched>>

EndScan ==
    /\ pc = "scan"
    /\ entry = SLOTS
    /\ pc' = "take"
    /\ UNCHANGED <<settings, current, clock, pass, search, stale, relays, job, touched>>

\* ...and the order of the most recent one is read through its pointer.
TakeOrder ==
    /\ pc = "take"
    /\ best # NULL
    /\ ~stale
    /\ Decide(slots[plan][best].order)

NoSlot == pc = "take" /\ best = NULL /\ Decide(COZY)

\* The slot was freed since it was found, or never was one: anything may come out
\* of it...
TakeFreed ==
    /\ pc = "take"
    /\ stale
    /\ \E order \in Garbage : Decide(order)

\* ...and following a pointer of a freed planning may also panic.
Panic ==
    /\ pc = "match" \/ (pc = "scan" /\ entry < SLOTS)
    /\ memory[plan] = "freed"
    /\ pc' = "down"
    /\ UNCHANGED <<settings, current, clock, pass, search, stale, relays, job, touched>>

\* The first seconds of every fifth minute, when an extended order is economy.
Pulse(time, seconds) == time % PERIOD < seconds

\* ofp_order_to_half_waves: <<positive, negative>>.
Waves(order, time) ==
    LET brief == Pulse(time, BRIEF)
        long == Pulse(time, LONG)
    IN CASE order = 0 -> <<TRUE, FALSE>>
         [] order = 1 -> <<FALSE, TRUE>>
         [] order = 2 -> <<TRUE, TRUE>>
         [] order = 3 -> <<FALSE, FALSE>>
         [] order = 4 -> <<brief, brief>>
         [] order = 5 -> <<long, long>>

\* Mutant: the first zone is pushed first, and so ends up last.
ShiftedFirstFirst(orders, time) ==
    FoldLeft(LAMBDA latched, z :
                IF orders[z] \in Known
                THEN [i \in Zones |-> IF i = 0 THEN Waves(orders[z], time) ELSE latched[i - 1]]
                ELSE latched,
             [z \in Zones |-> <<FALSE, FALSE>>],
             [i \in 1 .. ZONES |-> i - 1])

\* What is latched after hw_m1e1_zone_set_apply has pushed the zones in, last to
\* first, after a reset: every push moves the earlier ones on to the next zone, and
\* a zone whose order has no half waves is skipped.
Shifted(orders, time) ==
    FoldLeft(LAMBDA latched, z :
                IF orders[z] \in Known
                THEN [i \in Zones |-> IF i = 0 THEN Waves(orders[z], time) ELSE latched[i - 1]]
                ELSE latched,
             [z \in Zones |-> <<FALSE, FALSE>>],
             [i \in 1 .. ZONES |-> ZONES - i])

Apply ==
    /\ pc = "zone"
    /\ zone = ZONES
    /\ relays' = Shifted(current, now)
    /\ pc' = "apply"
    /\ UNCHANGED <<settings, current, clock, pass, search, stale, job, touched>>

\* vTaskDelay; what is local to the loop is gone
Sleep ==
    /\ pc = "apply"
    /\ pc' = "start"
    /\ now' = 0 /\ over' = FALSE /\ sent' = COZY /\ zone' = 0
    /\ UNCHANGED <<settings, current, clock, search, stale, relays, job, touched>>

MainStep ==
    \/ Start \/ ReadOverride \/ OverrideZone \/ ReadMode \/ FixedZone
    \/ CallFind \/ SkipPlace \/ LoadPlanning \/ MatchPlanning \/ MatchFreed \/ NoPlanning
    \/ ScanSlot \/ ScanFreed \/ EndScan \/ TakeOrder \/ NoSlot \/ TakeFreed \/ Panic \/ Apply \/ Sleep

-----------------------------------------------------------------------------
(* The httpd task: what the handlers write to memory, and in what order. *)

\* A write of the httpd task to something the main task reads.
Writes(what) ==
    /\ Up
    /\ touched' = touched \cup {what}
    /\ UNCHANGED <<current, clock, locals, relays>>

\* PATCH /zones/:id with a mode writes the mode, then the data.
SetMode(z, new, value) ==
    /\ job = Idle
    /\ Writes(<<"zone", z>>)
    /\ mode' = [mode EXCEPT ![z] = new]
    /\ job' = Job("data", z, value)
    /\ UNCHANGED <<data, active, forced, list, slots, stale>>

SetFixed(z, order) == SetMode(z, "fixed", order)

\* What ofp_planning_list_find_planning_by_id finds when nothing comes in between.
IsListed(id) == \E k \in Places : plannings[k] = id

SetPlanning(z, id) == IsListed(id) /\ SetMode(z, "planning", id)

WriteData ==
    /\ job.op = "data"
    /\ Writes(<<"zone", job.at>>)
    /\ data' = [data EXCEPT ![job.at] = job.value]
    /\ job' = Idle
    /\ UNCHANGED <<mode, active, forced, list, slots, stale>>

\* PUT /override writes the flag, then the order.
SetOverride(flag, order) ==
    /\ job = Idle
    /\ Writes(<<"override", 0>>)
    /\ active' = flag
    /\ job' = Job("force", 0, order)
    /\ UNCHANGED <<mode, data, forced, list, slots, stale>>

EnableOverride(order) == SetOverride(TRUE, order)

\* Mutant: the order of no override is none.
DisableOverrideNone == SetOverride(FALSE, -1)

DisableOverride == SetOverride(FALSE, COZY)

WriteForced ==
    /\ job.op = "force"
    /\ Writes(<<"override", 0>>)
    /\ forced' = job.value
    /\ job' = Idle
    /\ UNCHANGED <<mode, data, active, list, slots, stale>>

\* POST /plannings puts the planning in the first free entry, then gives it its
\* first slot.
AddPlanning(id) ==
    /\ job = Idle
    /\ memory[id] = "none"
    /\ \A other \in PlanIds : memory[other] = "none" => id <= other
    /\ Writes(<<"plan", id>>)
    /\ \E k \in Places :
          /\ plannings[k] = NULL
          /\ \A j \in 0 .. k - 1 : plannings[j] # NULL
          /\ plannings' = [plannings EXCEPT ![k] = id]
    /\ memory' = [memory EXCEPT ![id] = "held"]
    /\ job' = Job("first", 0, id)
    /\ UNCHANGED <<mode, data, active, forced, slots, stale>>

\* Entry k of a planning's slots changes; the slot found by the main task may be
\* the one whose memory goes.
WriteSlot(id, k, slot, frees) ==
    /\ Writes(<<"plan", id>>)
    /\ slots' = [slots EXCEPT ![id][k] = slot]
    /\ stale' = (stale \/ (frees /\ plan = id /\ best = k))
    /\ UNCHANGED <<mode, data, active, forced, list>>

AddFirstSlot ==
    /\ job.op = "first"
    /\ WriteSlot(job.value, 0, [start |-> 0, order |-> COZY], FALSE)
    /\ job' = Idle

Entered(id) == {k \in Entries : slots[id][k] # NULL}
TimeUsed(id, start) == \E k \in Entered(id) : slots[id][k].start = start

\* POST .../slots: the first free entry points to the new slot.
AddSlot(id, slot) ==
    /\ job = Idle
    /\ IsListed(id)
    /\ ~TimeUsed(id, slot.start)
    /\ \E k \in Entries \ Entered(id) :
          /\ 0 .. k - 1 \subseteq Entered(id)
          /\ WriteSlot(id, k, slot, FALSE)
    /\ UNCHANGED job

\* PATCH .../slots/:id, one field of the time: the slot changes in place.
MoveSlot(id, k, start) ==
    /\ job = Idle
    /\ IsListed(id)
    /\ k \in Entered(id)
    /\ slots[id][k].start # 0
    /\ ~TimeUsed(id, start)
    /\ WriteSlot(id, k, [slots[id][k] EXCEPT !.start = start], FALSE)
    /\ UNCHANGED job

\* DELETE .../slots/:id takes the slot off the array and frees it.
RemoveSlot(id, k) ==
    /\ job = Idle
    /\ IsListed(id)
    /\ k \in Entered(id)
    /\ slots[id][k].start # 0
    /\ WriteSlot(id, k, NULL, TRUE)
    /\ UNCHANGED job

\* DELETE /plannings/:id takes the planning off the list...
RemovePlanning(id) ==
    /\ job = Idle
    /\ Writes(<<"plan", id>>)
    /\ \E k \in Places :
          /\ plannings[k] = id
          /\ plannings' = [plannings EXCEPT ![k] = NULL]
    /\ job' = Job("free", 0, id)
    /\ UNCHANGED <<mode, data, active, forced, memory, slots, stale>>

\* ...frees each slot before it clears the entry...
FreeSlot ==
    /\ job.op = "free"
    /\ \E k \in Entered(job.value) :
          /\ 0 .. k - 1 \cap Entered(job.value) = {}
          /\ WriteSlot(job.value, k, FREED, TRUE)
          /\ job' = Job("null", k, job.value)

ClearEntry ==
    /\ job.op = "null"
    /\ WriteSlot(job.value, job.at, NULL, FALSE)
    /\ job' = Job(IF Entered(job.value) = {job.at} THEN "release" ELSE "free", 0, job.value)

Followers(id) == {z \in Zones : mode[z] = "planning" /\ data[z] = id}

\* ...sets each zone that follows it to the default order, mode first...
ReleaseZone ==
    /\ job.op = "release"
    /\ \E z \in Followers(job.value) :
          /\ 0 .. z - 1 \cap Followers(job.value) = {}
          /\ Writes(<<"zone", z>>)
          /\ mode' = [mode EXCEPT ![z] = "fixed"]
          /\ job' = Job("default", z, job.value)
    /\ UNCHANGED <<data, active, forced, list, slots, stale>>

ReleaseData ==
    /\ job.op = "default"
    /\ Writes(<<"zone", job.at>>)
    /\ data' = [data EXCEPT ![job.at] = COZY]
    /\ job' = Job("release", 0, job.value)
    /\ UNCHANGED <<mode, active, forced, list, slots, stale>>

\* ...and frees the planning.
FreePlanning ==
    /\ job.op = "release"
    /\ Followers(job.value) = {}
    /\ Writes(<<"freed", job.value>>)
    /\ memory' = [memory EXCEPT ![job.value] = "freed"]
    /\ job' = Idle
    /\ UNCHANGED <<mode, data, active, forced, plannings, slots, stale>>

\* GET /zones asserts that the order of every zone is known.
GetZones ==
    /\ Up
    /\ job = Idle
    /\ \E z \in Zones : current[z] \notin Known
    /\ pc' = "down"
    /\ NoSearch
    /\ UNCHANGED <<settings, current, clock, pass, relays, job, touched>>

GoOn ==
    \/ WriteData \/ WriteForced \/ AddFirstSlot \/ FreeSlot \/ ClearEntry
    \/ ReleaseZone \/ ReleaseData \/ FreePlanning

Request ==
    \/ \E z \in Zones, order \in Orders : SetFixed(z, order)
    \/ \E z \in Zones, id \in PlanIds : SetPlanning(z, id)
    \/ \E order \in Orders : EnableOverride(order)
    \/ DisableOverride
    \/ \E id \in PlanIds : AddPlanning(id) \/ RemovePlanning(id)
    \/ \E id \in PlanIds, start \in Starts, order \in Orders : AddSlot(id, [start |-> start, order |-> order])
    \/ \E id \in PlanIds, k \in Entries, start \in Starts : MoveSlot(id, k, start)
    \/ \E id \in PlanIds, k \in Entries : RemoveSlot(id, k)
    \/ GetZones

\* Time passes, or the clock is set.
Tick ==
    /\ clock' \in Instants
    /\ UNCHANGED <<settings, current, locals, stale, relays, job, touched>>

Next == MainStep \/ GoOn \/ Request \/ Tick

Spec == Init /\ [][Next]_vars

\* The scheduler lets the main task go on, and the httpd task with a request.
FairSpec == Spec /\ WF_vars(MainStep) /\ WF_vars(GoOn)

-----------------------------------------------------------------------------
(* Properties. *)

\* The slot of a planning a time of the week falls in.
IsLatest(id, k, time) ==
    /\ k \in Entered(id)
    /\ slots[id][k].start <= time
    /\ \A other \in Entered(id) : slots[id][other].start \notin slots[id][k].start + 1 .. time

\* The order a zone is due at a time.
Due(z, time) ==
    IF active THEN forced
    ELSE IF mode[z] = "fixed" THEN data[z]
    ELSE IF IsListed(data[z]) /\ \E k \in Entries : IsLatest(data[z], k, time)
         THEN slots[data[z]][CHOOSE k \in Entries : IsLatest(data[z], k, time)].order
         ELSE COZY

\* A planning was taken off the list and freed since the loop began.
Vanished(id) == {<<"plan", id>>, <<"freed", id>>} \subseteq touched

\* Nothing was written of what the order of a zone depends on; and, where a planning
\* is looked up for it, the search met none that vanished under it.
Undisturbed(z) ==
    /\ <<"override", 0>> \notin touched
    /\ ~active => <<"zone", z>> \notin touched
    /\ ~active /\ mode[z] = "planning" =>
          <<"plan", data[z]>> \notin touched /\ ~\E id \in PlanIds : Vanished(id)

\* Once the loop has gone over the zones, a zone none of whose settings were
\* written meanwhile has the order it is due, whatever was written to the others;
\* except that a planning removed from end to end during the pass may spoil the
\* orders of the zones that follow any (main.c:117-142, ofp.c:653-764, 803-820).
UndisturbedZonesExact ==
    pc = "apply" => \A z \in Zones : Undisturbed(z) => current[z] = Due(z, now)

\* A pass of the loop that no request falls into latches for every zone the half
\* waves of the order that zone is due at that time (main.c:117-142,
\* ofp.c:653-764, hw_m1e1.c:119-159).
UndisturbedRelaysExact ==
    pc = "apply" /\ job = Idle /\ touched = {} =>
        \A z \in Zones : Due(z, now) \in Known /\ relays[z] = Waves(Due(z, now), now)

\* Once settings and clock stay as they are, the relays of every zone get to what
\* it is due and stay there, whatever the main task read of settings being
\* written (main.c:117-142, hw_m1e1.c:119-159).
Converges ==
    <>[][FALSE]_<<settings, clock>> =>
        <>[](Up => \A z \in Zones :
                 Due(z, clock) \in Known /\ relays[z] = Waves(Due(z, clock), clock))

\* ofp.c:542 asserts, on every GET /zones, that each zone's order is one of the
\* enumeration.
ListedOrdersKnown == job = Idle => \A z \in Zones : current[z] \in Known
=============================================================================
