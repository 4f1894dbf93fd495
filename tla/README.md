# Verification of open-fil-pilote

TLA+ models of the open-fil-pilote firmware, an ESP32 program that drives
electric heaters through their pilot wire and is configured by a web API. The
sources modelled are the C files of `src/main/`; line numbers in this
document, in the modules and in `PROJECT.json` refer to them.

## The system

### Tasks

| actor | what it runs | source |
|---|---|---|
| main task | boot, then every second: compute the order of every zone, shift it out | main.c:77-142 |
| httpd task | every API handler, one request at a time | webserver.c:346-427, api_*.c |
| leap task | every second: did the clock jump? | uptime.c:45-108 |
| SNTP callback | clock set from the network | sntp.c |
| WiFi manager callbacks | connection up, connection lost: start and stop the web server | main.c:40-65 |
| reboot task | 10 s after a request: `esp_restart` | api_mgmt.c:38-57 |
| console task | NVS maintenance commands | console.c |

Only the uptime module has a lock. Zones, plannings, override and accounts are
plain globals shared by the main task and the httpd task.

### Components, their state, and what makes them correct

- **Plannings and slots** (ofp.c:779-1651, api_plannings.c). State: a list of
  at most 32 plannings, each with at most 64 slots, both C arrays of pointers;
  counters `max_id` and `max_slot_id` that hand out ids; the NVS namespaces
  `ofp_pl` (planning id to description) and `ofp_sl_<id>` (slot id to
  `dow:hour:minute:order`). Operations: create, rename and remove a planning;
  add, move and remove a slot; load everything at boot. Correct when ids are
  unique and never reused while something is stored under them, what the list
  holds is stored, two slots of a planning never share a time, the slot of
  Sunday 00:00 stays stored, and a removal cut short leaves nothing behind.
- **Zones and their orders** (ofp.c:384-538, 653-764, api_zones.c). State: mode
  and mode data (a C union) of every zone, the order computed last, the
  namespace `ofp_zn_<hw>`. Correct when a zone in planning mode follows a
  planning that exists, and the order sent out is the one its configuration
  asks for.
- **Override** (ofp.c:122-172, api_zones.c:283-349). One order for every zone,
  stored under one key. Read by the main task while the httpd task sets it.
- **Accounts** (ofp.c:1655-1973, api_accounts.c). At most 16 accounts; `admin`
  always exists. Passwords are stored hashed, with the digest, salt and number
  of iterations they were hashed with (utils.c:675-880).
- **Hardware** (ofp.c:182-300, 560-651, api_hw.c, hw_esp32.c, hw_m1e1.c,
  s2p_595.c). A registry of hardware types, the one selected and its
  parameters in NVS, and the shift registers the orders go out through.
  Correct when the parameters stored are those of one request, and whatever is
  stored boots.
- **Web server** (webserver.c). Started and stopped by WiFi events; routes,
  sessions, reading of request bodies. Correct when it serves with a
  certificate and the key of that certificate, serves nothing once a reboot
  is due, and grants what the password of a request allows, whatever its
  kept-alive connection was used for before.
- **Certificates** (api_mgmt.c:253-854, utils.c:1118-1292, webserver.c:592-674).
  A chain of certificates and a private key in two NVS entries, installed from
  a bundle or generated, read when the server starts. Correct when what is
  stored is a chain, the key's certificate first, or half of a pair is missing.
- **Firmware update** (fwupd.c, api_mgmt.c:143-251). Upload in pieces to an OTA
  partition that does not run, validated, chosen for the next boot, and
  confirmed at the end of it. Correct when an acknowledged update is whole and
  next, the firmware that runs is never written over, and one that crashes is
  given up.
- **Reboot** (api_mgmt.c:38-57, 121-141). A delayed restart that no request
  must be caught in.
- **Uptime** (uptime.c). Boot time and connection times corrected when the
  clock leaps.
- **Storage** (storage.c). One NVS commit per `kv_ns_*_atomic` call.
- **Utilities** (utils.c, str.c): bundles of certificates cut into blocks, form
  bodies, integers, password hashes. **Console** (console.c), **mDNS** (m_dns.c),
  **web UI** (ofp.js), mock server and certificate script.

### Hard behaviours

- Power can be lost between any two NVS commits, and most operations make
  several. Memory is then rebuilt from what is stored.
- Requests that fail half way leave what they already did.
- Tables of fixed size fill up, and the code stores first and refuses after.
- Ids come from counters in memory and are handed out again after a reboot.
- The main task reads zones, plannings and override while the httpd task
  changes them.
- The clock jumps while uptimes are being computed from it.
- Connections outlive requests, and the context of one is filled from the name a
  request gives before the outcome of its password is known.
- What clients send is read by small state machines, character by character.
- Firmware that crashes before it is confirmed, uploads that spoil the partition
  chosen for the next boot, receives that fail and are taken for data.

## Modules

| module | what it is |
|---|---|
| `PlanningData` | constants, data types and array searches of ofp.c |
| `Plannings` | plannings, slots and zone configurations, in memory and in NVS, with power loss |
| `OrderLoop` | the main task computing orders while the httpd task writes what it reads |
| `AccountBook` | abstract: a durable table of passwords |
| `Accounts` | the array of accounts and its image in NVS, with power loss |
| `PasswordHash` | hashing, storing and verifying a password: operators, no state |
| `Access` | `Accounts` and the override behind the web server: connections, authentication, rights |
| `Uptime` | boot and connection times corrected by two tasks when the clock leaps |
| `Certificates` | reading a certificate bundle and making a chain of it: operators, no state |
| `FormData` | reading a form body and its integers: operators, no state |
| `Management` | certificates, firmware, hardware configuration, life of the web server, reboot and boot |
| `MCPlannings`, `MCOrderLoop`, `MCAccess`, `MCUptime`, `MCManagement` | instances for TLC |
| `Induction` | lemmas: induction over the natural numbers, and what a fold computes |
| `ParsingProofs` | lemmas on the readers of `FormData` and `Certificates`, for inputs of any length |
| `PlanningsProofs`, `RoomyProofs`, `OrderLoopProofs`, `AccessProofs`, `UptimeProofs`, `ManagementProofs` | theorems |

A module has the properties of its component at its end, and next to a
definition a mutant of it (`...Never`, `...Unsaved`, ...): what a plausible bug
would make of it. Mutants are in no next-state relation; `PROJECT.json` says
which property each one breaks.

### Plannings

`plannings`, `max_id` and `zones` are the globals of ofp.c; `nvs_plan`,
`nvs_slots` and `nvs_zone` are the NVS namespaces. Handlers run one at a time
in the httpd task, so requests do not interleave; what can come between two
steps of a request is power loss. A request is therefore split into steps that
make at most one NVS commit each: `op` says what the request in service has
left to do, `target`, `doomed` and `patch` on what. Losing power inside a step
is losing it before its commit or after it, hence before or after the step.

| handler or function | actions |
|---|---|
| POST /plannings | `PostPlanning` (id, store, list entry), `AddFirstSlot` (slot of Sunday 00:00); `PostPlanningFull` when the list is full |
| PATCH /plannings/:id | `PatchPlanning` |
| DELETE /plannings/:id | `DeletePlanning` (off the list), `PurgeSlot` per slot, `ClearSlots` (zones released, namespace cleared), `EraseKey` |
| POST .../slots | `PostSlot`, `PostSlotFull` |
| PATCH .../slots/:id | `PatchSlot`, then `SetDow`, `SetHour`, `SetMinute`, `SetOrder` for the fields given, in that order; `AbortOnHour` |
| DELETE .../slots/:id | `DeleteSlot` |
| PATCH /zones/:id | `PatchZone`, `DescribeZone` |
| boot | `Restart`, `LoadPlanning` / `DropPlanning` per stored planning in any order, `LoadZones` |

A C array of pointers is a function from indexes to entries or `NULL`;
"the first free entry" and "the first entry with this id" are `IsFirst` of a
set. NVS gives keys in an order the code does not control, so a boot may place
slots in any order (`IsLoadOrder`), and drops those that do not fit.

Abstracted: descriptions are model values; a slot value is a record instead of
`dow:hour:minute:order`; allocation failures, corrupt NVS content and requests
that fail before they change anything are left out.

### OrderLoop

The main task reads globals the httpd task writes, with no lock on either side.
Here a step is one read or one write of a shared global: `pc` and the variables
of `locals` are where the main task is in `app_main`,
`ofp_zone_update_current_orders`, `ofp_zone_update_from_planning` and
`hw_m1e1_zone_set_apply`; `job` is what the request in service has left to
write. `mode` and `data` of a zone are apart because the code writes them one
after the other, and `data` is a C union: whoever reads it with the wrong mode
takes a planning id for an order.

| code | actions |
|---|---|
| main loop, main.c:117-142 | `Start`, `ReadOverride`, `OverrideZone`, `ReadMode`, `FixedZone`, `Apply`, `Sleep` |
| search of the planning, ofp.c:803-820 | `CallFind`, `SkipPlace`, `LoadPlanning`, `MatchPlanning`, `NoPlanning` |
| search of the most recent slot, ofp.c:653-717 | `ScanSlot`, `EndScan`, `TakeOrder`, `NoSlot` |
| both through freed memory | `MatchFreed`, `ScanFreed`, `TakeFreed`, `Panic` |
| PATCH /zones/:id | `SetFixed` or `SetPlanning`, `WriteData` |
| PUT /override | `EnableOverride` or `DisableOverride`, `WriteForced` |
| plannings and slots | `AddPlanning`, `AddFirstSlot`, `AddSlot`, `MoveSlot`, `RemoveSlot`, and `RemovePlanning` to `FreePlanning` for a removal |
| GET /zones | `GetZones`, which stops the firmware when an order is no order |

`plannings` is the array of pointers, `memory` says which plannings are held or
freed. The search loads one pointer and reads the id through it in two steps
(`place`, `plan`): a request may take that planning off the list and free it in
between, and then the id may read as any (`MatchFreed`), a planning that is not
the one wanted is scanned, or the firmware panics. `touched` records what was
written since the loop began. What freed memory holds is any value of `Garbage`.
`Waves` are the half waves of an order at a time: the two extended orders are
economy for 3 and 7 seconds of every fifth minute (`Pulse`), so zones at both
differ in some seconds. `Shifted` is their way through the shift registers,
including the zones that close up when one has none.

Abstracted: a week is a few instants and the clock moves anywhere between two
steps, among the times of `Instants`; a slot is read in one step, so neither a slot whose day and hour come from
two different moves nor one freed between its pointer and its fields is seen,
which concerns only zones whose own planning is being written, or has vanished;
POST /plannings is not asked for more plannings than there is room for; stores
are seen in the order of the source, which the compiler does not promise; what
is stored in NVS is the business of `Plannings`.

### Accounts

`accounts` is the array, `nvs` the namespace `ofp_acc`. A request makes one
change in memory and one NVS write, and power may be lost between the two:
`PostAccount` and `PatchAccount` change the array and leave `StoreAccount` to
do; `DeleteAccount` purges NVS and leaves `ForgetAccount`. `Restart`,
`LoadAccount`, `CreateAdmin`, `StoreAccount` and `Loaded` are a boot, which
creates the administrator's account when there is none.

`AccountBook` says what this amounts to: a book that a request changes, with
`undo` for what a power loss would go back to until the request is done. The
mapping takes `nvs` for `undo`, and for `book` what the device accepts: the
array, except during a boot and once an account is out of NVS.

### Access

`Access` extends `Accounts` with the connections its requests come by.
`session` is the context of each connection, which is kept from one request to
the next; `author` observes whose request is in service. `override` and
`nvs_override` are the override in memory and in NVS, and `forcing` says that
it is about to be stored: PUT /override is the one change any user may make.

| handler or function | definitions |
|---|---|
| `is_authentication_valid` | `Identified` (the context), `Authenticated` (the outcome) |
| `https_handler_generic` | `Handed` |
| POST, PATCH, DELETE /accounts | `Post`, `Patch`, `Delete`, then `Answer` |
| PUT /override | `PutOverride`, `StoreOverride` |
| any request that is refused or only reads | `ServeUnchanged`, which may change a context |
| end of a connection | `Close` |
| power loss and boot | `LosePower`, `LoadAccounts`, `LoadOverride` |

The build is one with authentication,
`CONFIG_OFP_UI_WEBSERVER_REQUIRES_AUTHENTICATION`, which is its default. Failed
allocations and corrupt NVS content are left out.

`PasswordHash` is what happens to a password in `ofp_account_set_password`,
`password_to_string`, `password_from_string` and `password_verify`. A digest is
free: it puts its key in front of what it hashes, so that two hashes are equal
only when made of the same things. `HmacIterations` keeps the three buffers and
two pointers of `hmac_md_iterations`. The string is written with the digest and
iterations of the build, read with its own: `IsKept` compares any two builds.

### Uptime

`elapsed` is the time since boot, `offset` what the clock adds to it: 0 after
power up, anything after a software reset, set by SNTP (`Leap`). `check` is
`uptime_sync_check` in the leap task and in the SNTP callback: `ReadClock`,
`Swap`, `ShiftStart`, `ShiftConnect`, one step per reading and per critical
section. `wifi` is the callback in the WiFi manager's task: `Connect`,
`NoteConnect`, `StartSync`; `Disconnect`, `ReadDisconnect`, `NoteDisconnect`,
`Cumulate`, `StopSync`. `read`, `seen`, `since`, `checked` and `met` only observe:
`read` and `seen` are the offsets that the `now` of each task and `last_time`
were read with, `met` all offsets so far.

What is assumed of time: the leap task checks in every second and the SNTP
callback takes its turn within one (`Tick`); an attempt to connect outlasts the
checks begun before it (`Connect`); the first check precedes the WiFi manager
(`Init`).

Leaps may be of any size. The code takes a change within the trigger for elapsed
time, and whether one near the trigger is seen depends on the seconds that passed
since the last check: 6 s back with one second passed is a difference of 5, which
is left. `Blur` is what a check may miss, the trigger, or nothing as long as the
offsets the clock has had are `Far` from each other; `Error` grows with each leap by what the three checks
that may cross it get wrong, a second and `Blur` each. `UptimeBounded` grants the
boot another `Blur`, since the offset that the clock starts with may itself be
within the trigger.

### Certificates and Management

`Certificates` is what POST /certificate makes of a bundle: a text of labels that
begin and end a block, of data between them, each a certificate of a name
signed by a name, the key of a name, or what does not parse, and of noise.
`IterNext` is one call of the iterator and `Iterated` the loop of the handler
around it; the reference is `WellFormed` for the texts it accepts and `Blocks`
for the parts it finds. `Accepted` says whether the handler stores it and `Chain` what it stores;
`Climb` is one search for the authority above, which starts over at the second
certificate. `IsServerFirst` is the reference: what README.md:121-126 of the
repository asks for.

`FormData` is how a form body becomes parameters: `Split` at separators,
`DecodeByte` for one character of an escaped string, `Parse`, and `GetStr` and
`ParseInt` for what a handler asks for. Characters are their codes. The
references go the other way: every spelling of a string (`Encode`, `Spellings`)
has to decode to it, the body that spells out a form (`Body`) to its
parameters, and digits to the number they are in base ten (`Positional`). POST
/hardware reads its form with these operators.

`Management` holds what an administrator can do to the device itself. `req` is
what the request in service has left to do, one step per NVS write or piece of
an upload; `server` is the pair the web server read when it started. `nvs_*`
are NVS entries, `content` the three firmware partitions, and `chosen` and
`state` the two entries of otadata. `asked`, `promised`, `cut` and `misplaced`
only observe.

| code | actions |
|---|---|
| POST /certificate | `PostCertificate`, `CheckBundle`, `StoreCerts`, `StoreKey` |
| PUT /certificate/selfsigned | `PutSelfSigned`, `StoreOwnKey`, `StoreOwnCert` |
| DELETE /certificate | `DeleteCertificate`, `DeleteKey` |
| POST /hardware | `PostHardware`, `ClearParam`, `Cleared`, `StoreParam` |
| POST /upgrade | `PostUpgrade`, `UploadChunk`, `UploadFails`, `EndUpload`, `EndFails` |
| GET /reboot, reboot task | `GetReboot`, `Reboot` |
| connected, disconnected | `Connected`, `Disconnected` |
| bootloader, app_main | `PowerOn`, `Boot`, `CrashAtBoot`, `FactoryReset` |
| console | `Erase` (nvs_delete, nvs_clear), `PowerLoss` (restart) |

`UploadChunk` may write what the static buffer held before: when a receive
fails and the answer saying so is sent, `webserver_read_request_data` returns
`ESP_OK` (webserver.c:711-727). `Wrapped` is the 32-bit product of hw_m1e1.c:78.
Bootloader, OTA library and TLS are external, modelled from how `src/` uses
them: `Active`, `Attempts`, `PowerOn`, `Choose`, `Other`, `Fits`.

Abstracted: a request is one of a verified administrator with everything its
handler requires; requests refused without a change are left out, and so are
failed allocations. Contents are whole images or `TORN`. `httpd_ssl_stop` waits
for the request in service, as the ESP-IDF server does.

## Runs

| run | instance | what it shows |
|---|---|---|
| `plannings_list` | `Spec`; several plannings of one slot, full tables, power lost anywhere | unique and fresh ids, zones follow listed plannings |
| `plannings_slots` | `Spec`; one planning of several slots | types, unique ids, memory is stored, nothing left over, the slot of Sunday 00:00 stays stored |
| `plannings_roomy` | `RoomySpec`: no table ever full | no two slots at the same time; nothing stored that is not listed |
| `plannings_order` | violation | a slot's order can never be changed |
| `plannings_released` | violation | a released zone follows a new planning after a reboot |
| `plannings_full` | violation | a refused slot comes back as a duplicate |
| `orders_relays` | `FairSpec`; two zones at the two extended orders, a clock that moves | zones whose settings are not being written get the order they are due; a pass that no request falls into latches its half waves of that moment on every relay; relays get to what is due once settings and clock stay as they are |
| `orders_lookup` | `FairSpec`; two plannings of two slots that move, one zone | the order is the one due whatever is written to the other planning while the list is searched, unless one vanished from end to end; relays get to what is due whatever freed memory held |
| `orders_torn` | violation | a planning id is taken for an order, and GET /zones stops the firmware |
| `accounts` | `AccessSpec`; three entries, four users, two connections | accounts implement the durable book, `admin` is kept, a boot always fits; only the password that has the right to it changes anything; the override is durable; passwords are hashed as often as they should be, and open their account with any firmware that knows the digest |
| `uptime` | `Spec`; one leap, near or far, seen by two tasks, and a clock that starts anywhere | no leap is left in an uptime, but for what is within the trigger each time a near one is crossed |
| `management` | `FairSpec`; three requests, power lost anywhere | pairs fit, a bundle with the server first is stored, updates are whole, parameters never mix, a restart tears nothing, the device ends up serving; bundles, forms and integers are read as what they mean |

### Bounds

- *Plannings.* Two entries are the smallest table that can be empty, partly
  full and full; `MAX_PLANNING_ID` and `MAX_SLOT_ID` allow ids beyond what
  fits, so that refusals, drops at boot and reuse of ids all happen. The list
  and the slots of one planning are explored in runs of their own: the code
  never compares the slots of two plannings. Time is cut to what the
  comparisons tell apart: Sunday and another day, midnight and another hour.
  `plannings_roomy` trades the second planning for a third slot, because times
  are only compared within a planning. Descriptions are only compared for
  equality, so they are symmetric.
- *OrderLoop.* Two zones let one be written while the other is computed, and each
  be shifted into the other's place; with pulses of one and two instants of a period of
  three, one instant has both extended orders at economy, one has one of them,
  one none. Two plannings in a list of two are the one searched for and another
  that is written, removed and freed behind or before it; two slots
  in any order of the array, one of them starting now, are what the search of
  slots compares. Slots that move need a third time of the week. The clock stands
  still in that run (`Instants`), amid the starts of the slots: every pass reads it
  once, and the relays run moves it. That one has no planning, and an order without
  half waves comes out of the lookup run only, where its zone is alone: zones that
  close up around it are in no run, and that the next pass without a request is
  right again is `RelaysExact`. Ids of plannings are 6 and 7, no orders, and so is what
  freed memory holds.
- *Accounts.* Three entries and four users fill the array and go beyond it. Two
  connections are enough for what one did not to help the other, two passwords
  for a wrong one, and two orders for one override to replace another. Users
  other than the administrator are symmetric, and so are connections: the code
  only compares them. Up to five iterations, odd and even, turn the buffers of
  a hash in every way; two digests of different lengths and two salts tell the
  parameters of two builds apart.
- *Uptime.* One leap is enough, because a check with an old reading sees it back
  again: two tasks then see it forth, back and forth. Such a turn costs the
  seconds between its two readings, at most three in all, whatever the trigger.
  `TRIGGER` is 2, the smallest that tells a leap from the seconds between two
  checks (the code's is 5, uptime.h:6). `MaxTime` is beyond the three seconds
  that a far leap is allowed. Of the offsets 3 is just beyond the
  trigger: a leap to it is seen, unless by a check that read the clock late, and one
  back from it is not once a second has passed; 100 is far from both others, and
  as long as 3 has not been met nothing may be missed.
- *Management.* Three requests install, replace and remove, or leave an upload
  half done, repeat it and reboot. Bundles are
  two or four of a server, an intermediate, a root and a key in any order, four
  with a part too many, too few or bad, and four with noise between blocks or
  with a label that is not closed or closed as another. The iterator alone reads
  every text of up to five labels and pieces of data (`MCTexts`). Two images,
  one of which crashes, in two pieces. Of seven forms one has too many zones and
  then a repeated name of which only the first value counts, one a prefix that
  is too long, one a product that wraps to four zones, one a negative number
  of boards, and three are refused. Strings of up to three characters
  (`MAX_LENGTH`) hold every escape, whole or cut; `LIMIT` stands for 2^31, and
  digits go beyond it.

### Fairness

`FairSpec` has weak fairness on `MainStep` and on `GoOn`: FreeRTOS runs the
main task and the httpd task when they are ready, neither waits for the other,
and every loop in them is bounded. Nothing is assumed of requests or of time.
`Converges` asks for relays that are right while clock and settings stand
still; a device that has stopped (`Panic`, `GetZones`) is exempted, since the
watchdog's reset is a boot.

In `Management`, weak fairness on `PowerOn` and strong fairness on `Boot` and
`CrashAtBoot` say that the device is switched on again, and now and then stays
on for as long as a boot takes, however often power is lost in between; weak
fairness on `Reboot` is the reboot task's delay, which ends. Nothing is assumed
of requests, WiFi or the console.

## Proofs

`PlanningsProofs` proves, for every size of the tables and every set of values
that meets the assumptions of `PlanningData`:

- `TypeCorrect`: `Spec => []TypeOK`. The strengthening `TypeInv` adds
  `Coherent`: no request while booting, nothing unread while running, a doomed
  planning while removing, and what is unread is stored.
- `IdsAreUnique`, `IdsAreFresh`, `ListIsStored`, `NothingLeftOver` and
  `ZonesFollow`, all from one inductive invariant `IInv`. None of the five is
  inductive alone: a new id is unique because it is above every stored id
  (`CoveredIds`) and what is listed is stored (`MemoryIsStored`); a slot id is
  fresh for a new planning because nothing is left under the id
  (`NoLeftoverSlots`), which itself needs that a removal keeps the key until
  the slots are gone (`DoomedStored`); and a zone may name the planning being
  removed until `ClearSlots` (`ZoneRefs`). There is one lemma per action and
  part, and lemmas on replacing an entry of the list or of a planning.
- `WeekStartIsKept`: `Spec => WeekStartKept`, an action property of the store. A
  boot that finds more than the tables hold may leave that slot out of memory, as
  any other; what is stored it leaves alone. Slots change
  in NVS under a fresh key (`CoveredIds`), or over what memory holds
  (`MemoryIsStored`), which the handlers protect.

`RoomyProofs` proves, for `RoomySpec`, the plannings whose tables never fill up
(`plannings_full` is what happens when one does):

- `TimesAreUnique` and `StoreLoaded`: no two slots of a planning share a time,
  and between requests the list holds everything stored. The invariant `RInv`
  adds to `IInv` that list and store mirror each other but for the request in
  service (`PlansListed`, `SlotsListed`), that what is stored fits the tables
  (`Room`), and that the times of stored slots differ, whatever order a boot
  loads them in (`StoredTimesDiffer`).
- A boot must then drop nothing, which is counting: what is found in a table
  fits its entries (`FoundFits`, by an injection), a full table of differing
  entries holds all there is room for (`FullHoldsAll`, the pigeonhole), hence no
  boot drops a planning (`NoneDropped`).

`OrderLoopProofs` proves, for any number of zones, plannings and slots and any
week:

- `UndisturbedExact`: `Spec => []UndisturbedZonesExact`, the order of a zone is
  the one due when the loop read its settings, unless a request wrote some of
  them since. The exception is a planning that was taken off the list and freed
  during the pass (`Vanished`): the search may have stood on it, whichever
  planning it was for, and its order is then any. The invariant says what the
  main task knows at every `pc`: what it read is what is there unless touched
  (`OverrideInv`, `ZoneInv`), the entries it passed do not hold the planning it
  wants, and the one it stands on is the one the list had there, or was taken
  off since (`LookInv`), the scan of slots holds the most recent of those it
  passed (`ScanInv`), and listed plannings are in memory, once each, with no freed
  slot and no two slots at one time, so that the latest slot is unique
  (`PlanningsInv`, lemma `LatestUnique`).
- `LocalsSound`: `Spec => []TypeInv`, the types the invariant needs.
- `RelaysExact`: `UndisturbedRelaysExact`, that a pass no request falls into
  latches on every zone the half waves its order has at that time, for any
  lengths of the pulses. It needs `DataInv`, that the data of a zone in fixed
  mode is an order unless a request is about to write it, and what `Shifted`
  computes: with half waves for every zone none closes up, by induction over the
  zones.
- `TypeCorrect`: `Spec => []TypeOK`, the relays included: whatever order the
  main task took, `Shifted` is a half wave for every zone.

`AccessProofs` proves of `Accounts`, for every number of entries and every set of
users and passwords:

- `TypeCorrect`, `AdminIsKept` and `BootAlwaysFits`, from an invariant that says
  that array and NVS agree but for the request in service (`Agree`,
  `InService`), that what is stored is in the array or unread (`Covered`,
  `Unread`), and that what is stored is never more than the array holds
  (`Fits`). The last needs counting: lemma `ListedFit`, by an injection into
  the entries.
- `BookRefined`: `Spec => ImplementsBook`, the refinement of `AccountBook`: the
  initial states map to initial states, every action to a step of the book or
  to a stutter (`StepRefines`).

and of `Access`, for every set of connections and orders as well:

- `AccessRefinesAccounts`: `AccessSpec => Spec`. Every step of the guarded
  system is one of `Accounts` or a stutter (`StepOfAccounts`), so all that is
  proved of `Accounts` holds of it: `GuardedAccountsSafe`.
- `AccessTypeCorrect` and `OverrideSurvives`: `AccessTypeOK` and
  `OverrideDurable`, from one invariant (`OverrideInv`).
- `ChangesAreAuthorised`: an action property. The rights of a context are those
  of its author once his password is verified (`RightsOfAuthor`), because
  `Identified` overwrites whatever an earlier request left when the account
  exists.
- `AccountsAreHashed` and `AccountsStayOpen`, for any number of iterations up to
  any `MAX_ITERATIONS`, digests, salts and pairs of builds: after `i` turns the
  buffer that is read next holds the password under `i` keys (`HmacRepeated`, by
  induction over the turns of the loop), which the last turn puts in the output;
  and two passwords under equally many keys are equal only if they were
  (`TimesInjective`).

`UptimeProofs` proves, for any trigger above a second, any offsets and any number
of leaps:

- `UptimeExact` and `ConnectionExact`: `UptimeBounded` and `ConnectionBounded`.
  A reading is an offset and a second. A check that finds the offset unchanged
  detects nothing (`SwapSame`, from the ages of readings in `AgeInv`), and one
  that finds another gets the seconds between its readings wrong, and, when it
  detects nothing, no more than `Blur` besides (`SwapMisses`). A sum of these
  cannot be bounded by itself, since one leap may be crossed three times: the
  invariant bounds what it may still become (`Within`), given how many crossings
  are still owed, which depends on whether the leap task holds a reading of
  before the last leap (`Stale`) and on the offset `last_time` was read with.
  Boot time and connection obey the same bound but for the `Blur` of the boot,
  each with what is pending for it (`StartError`, `ConnectError`); while a
  connection is being noted nothing is (`Quiet`).
- `TypeCorrect`: `TypeOK`. Its range for the boot time follows from the bound on
  the error once what is pending is known: a correction under way is the
  difference of two offsets and at most two seconds, and of two at once one is
  to the offset of `last_time` (`GainInv`).

`ManagementProofs` proves, for every set of bundles, images and forms and any
number of pieces and requests:

- `PromisesKept`, `RunningStaysWhole`, `ParametersNeverMix` and `RebootIsAlone`,
  from an invariant of five parts: what a request needs of the server and the
  device (`LifeInv`), what otadata may choose, with a factory image that is
  never written (`FlashInv`), an upload that goes elsewhere than what runs and
  whose buffer holds its last piece, so that a lost piece is a repetition of
  it (`UploadInv`), `UpdatePromised` itself, and the parameters of one form in
  their separate writes (`ParamsInv`).
- `StoredPairsFit` and `ServedPairsFit`: what is stored, and what the server runs
  with, fits (`PairInv`). That an accepted bundle makes a chain is a lemma: each
  turn of `Path` finds the certificate above the last one or ends (`PathClimbs`).
- `ServerFirstIsStored`: an action property. For a bundle with the server's
  certificate first and its authorities in any order, `Climb` finds each of them
  (`ClimbInOrder`), and so the path is the whole chain (`PathInOrder`).
- `BundlesAreRead`, `StringsAreDecoded`, `FormsAreRead` and `IntegersAreParsed`
  are facts about operators, which `ParsingProofs` proves and the invariants
  state of a device that is up.
- `TypeCorrect`: `TypeOK`. The invariant (`TypeInv`) says that integers of a form
  are integers once they are in flash, that a request with parameters left has
  some left, and that the two entries of otadata choose different partitions.

`ParsingProofs` proves what the readers compute of inputs of any length:

- *Strings* (`AllSpellingsDecoded`): after each byte the decoder holds what was
  spelled so far and is in state `NORMAL` (`SpellingDecoded`, `WordsDecoded`).
- *Forms* (`AllFormsRead`): the pieces of a body without separators in them are
  those that were joined (`SplitJoined`), what is junk is refused whichever way
  it is malformed (`JunkSkipped`, `BadEscape`), and the rest is read in order.
- *Integers* (`AllIntegersParsed`): the digit after digit evaluation of `atoi` is
  the sum of digits times the worth of their places (`HornerPositional`).
- *Bundles* (`AllTextsIterated`): a call of the iterator ends at the next label
  that matters, with a block or a failure (`CallFinds`, `CallFails`,
  `CallAtEnd`), and the blocks it has found so far are those of the labels it
  has passed (`CallComes`).

Loops are folds, and what a fold computes after each turn is shown by induction.
The library states induction with an operator as parameter, which no prover
here can instantiate; `Induction` states it for a set of numbers instead, from
the fact that the order of the naturals is well founded
(`NaturalInduction`, `UpTo`), shows that the recursive function behind a fold
exists (`RecursionExists`, `FoldExists`), and that what each turn preserves
holds of the fold (`FoldUp`).

What the theorems assume of the constants is what the ASSUMEs of the modules
say: that bundles, texts and strings are sequences; that bytes are 1 to 255;
that what `FormData` calls junk is malformed; that a firmware comes in two
pieces or more; that the trigger of `Uptime` is more than a second. TLC evaluates
all of them on the instances.

Every invariant and action property that a passing run checks has its theorem.
Proved and in no run: `RunningWhole`.
Model-checked only: liveness (`Converges`, `ComesUp`), which the prover does not
do, and the four violations.

## Findings

Each is a run in which TLC violates a property that quotes the repository; the
quotes are in `PROJECT.json`.

- `ofp_planning_slot_set_order` always finds the slot itself to be a duplicate.
- A zone released from a removed planning is not stored; ids are reused after a
  reboot, and the zone follows a planning nobody gave it.
- A slot that a full array refuses stays stored and comes back beside the slot
  that took its time.
- Mode and data of a zone are written one after the other; the main task takes
  a planning id for an order, and the next GET /zones fails an assertion.

Met while modelling and not a run of their own:

- Hours 24 to 59 of a slot PATCH reach an assertion (`AbortOnHour`).
- One zone without half waves shifts the others out of place (`Shifted`).
- The list of plannings is searched without a lock (ofp.c:808-818). When a
  planning is removed while the main task stands on it, the id is read from freed
  memory: a zone that follows another planning may get an order of its remains,
  or the firmware may panic (`MatchFreed`, `Panic`). `UndisturbedZonesExact`
  exempts the passes in which a planning vanishes.
- A resynchronisation near the trigger may be left in the uptime, for ever, or be
  counted in one direction only (`Blur`).
- POST /hardware accepts a negative number of zones or boards, and a number of
  boards whose fourfold wraps to one. The allocation of the zones then fails and
  `assert(buf != NULL)` stops every boot (ofp.c:581-582, `Aborts`,
  `CrashAtBoot`) until a factory reset. `ComesUp` exempts it.
- An escape that a string ends in, `%` or `%4`, is dropped without a word
  (utils.c:521); one of other characters than digits drops its parameter.
- Kconfig says that without authentication everyone can change everything
  (Kconfig:9-15), but the contexts of such a build never are the
  administrator's, and changes of accounts are refused. Not modelled.
- A password's string carries the digest and iterations of the build, not those
  it was read with (utils.c:798, 808). Safe only because a password is stored
  nowhere but after `set_password`.
- Power lost while a pair of certificate and key is replaced leaves halves of
  two pairs, with which no connection succeeds; only the console or a factory
  reset help. `StoredPairFits` and `ServedPairFits` exempt it (`cut`).
- A device that fell back to another firmware, because an upload spoilt the one
  chosen, confirms the one it does not run (`Confirm`); what is uploaded there
  next counts as confirmed. `ComesUp` exempts it (`misplaced`).
- A leap of the clock is added to `last_connect_time` when there is no
  connection (uptime.c:67), where 0 means there is none (uptime.c:163): after a
  software reset, whose first check is a leap, a failed attempt to connect counts
  as connected time.

## Plan

Done: `Plannings`, `OrderLoop`, `Accounts` with `AccountBook`, `Access` with
`PasswordHash`, `Uptime`, and `Management` with `Certificates` and `FormData`,
and proofs for all of them.

1. An abstract planning book that `Plannings` implements with room in its
   tables, as `AccountBook` is for accounts, and the refinement proved.
2. Properties of `cumulated_uptime`, which a disconnection between a leap and
   its check spoils (uptime.c:167).

## Not modelled

Corrupt flash and failed allocations; the console deleting plannings, zones and
accounts (it bypasses their handlers on purpose); the JSON helpers, which wrap an
external library; routes and the wording of answers; the initialisation of pins
and shift registers; mDNS, the web UI (a client of the API) and the
development tools.
