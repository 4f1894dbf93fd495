----------------------------- MODULE Management -----------------------------
(***************************************************************************)
(* The administrator's side of the device: certificates, firmware and      *)
(* hardware configuration, the web server that takes the requests, the     *)
(* reboot that puts them into effect, and the boot                         *)
(* (src/main/api_mgmt.c, api_hw.c, webserver.c, fwupd.c, main.c, ofp.c).   *)
(*                                                                         *)
(* Requests run one at a time in the httpd task.  Between two steps of one *)
(* come power loss, the restart of another task and the console.  A step   *)
(* makes at most one write to flash.                                       *)
(***************************************************************************)
EXTENDS Certificates, FormData

CONSTANTS
    Bundles,        \* the bundles that are posted
    OwnKeys,        \* the keys that are generated
    Images,         \* firmware images
    Crashing,       \* those that crash before fwupd_confirm
    CHUNKS,         \* pieces an image is sent in
    Forms,          \* the forms that are posted to /hardware
    MAX_ZONE,       \* OFP_MAX_ZONE_COUNT
    MAX_ID,         \* OFP_MAX_LEN_ID, room for the id of a zone
    MAX_VALUE,      \* OFP_MAX_LEN_VALUE, room for a prefix
    MAX_REQUESTS    \* bound on the requests of a behaviour

OTA == {"ota_0", "ota_1"}
Partitions == OTA \cup {"factory"}

\* The factory partition holds the firmware modelled here.
FIRST == "first"

\* Flash that holds no image as a whole.
TORN == "torn"

Hardware == {"ESP32", "M1E1"}

\* The parameters of a hardware in the order of its definition.
Params(type) == IF type = "ESP32" THEN <<"zone_count", "zone_prefix">> ELSE <<"e1_count">>
Names == {"zone_count", "zone_prefix", "e1_count"}

IntegerNames == {"zone_count", "e1_count"}

\* Values are integers and strings of bytes.
Default == [zone_count |-> 0, zone_prefix |-> <<122>>, e1_count |-> 0]

ASSUME ManagementAssumption ==
    /\ \A text \in Bundles : text \in Seq(Range(text))
    /\ Crashing \subseteq Images
    /\ {FIRST, TORN} \cap Images = {}
    /\ CHUNKS \in Nat /\ CHUNKS > 1
    /\ MAX_ZONE \in Nat /\ MAX_REQUESTS \in Nat
    /\ \A form \in Forms : \A p \in Range(form) : p.name \in IntegerNames => p.value \in Seq(1 .. 255)
    /\ \A form \in Forms : form \in Seq(Range(form))
    /\ NULL \notin [image : Images, n : 1 .. CHUNKS]
    /\ NULL \notin [image : Images, at : OTA]

VARIABLES
    phase,          \* "off", "boot" until fwupd_confirm, "up"
    serving,        \* serving_enabled
    rebooting,      \* a reboot_wait task counts down
    server,         \* the pair the server runs with, NULL when stopped
    req,            \* what the request in service has left to do
    requests,       \* how many there were
    nvs_certs,      \* key https_certs of namespace ofp
    nvs_key,        \* key https_key
    cut,            \* the last install was cut short over the other half of a pair
    nvs_type,       \* key hardware_type
    nvs_params,     \* namespaces ofp_hw_*: hardware -> parameter -> value
    hardware,       \* hw_global: its type and number of zones
    asked,          \* hardware -> values of the last request that got to its parameters
    content,        \* partition -> image
    chosen,         \* otadata: OTA partitions chosen for boot, latest first
    state,          \* otadata: OTA partition -> state
    running,        \* the partition of the firmware that runs
    misplaced,      \* a firmware confirmed another one than itself
    buf,            \* buffer of serve_api_post_upgrade_raw
    promised        \* the update acknowledged since the last start

life == <<phase, serving, rebooting, server>>
request == <<req, requests>>
pair == <<nvs_certs, nvs_key, cut>>
config == <<nvs_type, nvs_params, hardware, asked>>
flash == <<content, chosen, state, running, misplaced>>
upload == <<buf, promised>>
vars == <<life, request, pair, config, flash, upload>>

Job(op, arg) == [op |-> op, arg |-> arg]
Idle == Job("idle", NULL)

Pair(certs, key) == [certs |-> certs, key |-> key]
EMBEDDED == Pair(<<Cert("embedded", "embedded")>>, "embedded")

\* First power up.
Init ==
    /\ phase = "off" /\ serving = TRUE /\ rebooting = FALSE /\ server = NULL
    /\ req = Idle /\ requests = 0
    /\ nvs_certs = NULL /\ nvs_key = NULL /\ cut = FALSE
    /\ nvs_type = NULL
    /\ nvs_params = [type \in Hardware |-> [name \in Names |-> NULL]]
    /\ hardware = NULL
    /\ asked = [type \in Hardware |-> NULL]
    /\ content = [p \in Partitions |-> IF p = "factory" THEN FIRST ELSE TORN]
    /\ chosen = <<>>
    /\ state = [p \in OTA |-> "undefined"]
    /\ running = "factory" /\ misplaced = FALSE
    /\ buf = NULL /\ promised = NULL

-----------------------------------------------------------------------------
(* Start and stop. *)

\* The certificate has to be the key's for a connection to be set up.
Fits(p) == p.certs[1].of = p.key

\* Installs that have half of their pair to write.
CutShort ==
    \/ req.op = "store_key" /\ nvs_key # NULL
    \/ req.op = "own_cert" /\ nvs_certs # NULL

\* Power is lost, or another task restarts the chip: memory is gone.
Off ==
    /\ phase' = "off"
    /\ serving' = TRUE /\ rebooting' = FALSE /\ server' = NULL
    /\ req' = Idle
    /\ cut' = (cut \/ CutShort)
    /\ hardware' = NULL
    /\ buf' = NULL /\ promised' = NULL
    /\ UNCHANGED <<requests, nvs_certs, nvs_key, nvs_type, nvs_params, asked, flash>>

PowerLoss == phase # "off" /\ Off

\* reboot_wait
Reboot == rebooting /\ Off

\* The first partition of a sequence that is one of these, if any is.
FirstOf(sequence, partitions) ==
    sequence[CHOOSE i \in DOMAIN sequence :
                /\ sequence[i] \in partitions
                /\ \A j \in 1 .. i - 1 : sequence[j] \notin partitions]

\* The OTA partition the bootloader takes otadata to choose.
Active(sequence, states) ==
    LET live == {p \in OTA : states[p] # "aborted"}
    IN IF \E i \in DOMAIN sequence : sequence[i] \in live THEN FirstOf(sequence, live) ELSE "factory"

\* The partitions in the order the bootloader tries them.
Attempts(p) ==
    CASE p = "factory" -> <<"factory", "ota_0", "ota_1">>
      [] p = "ota_0" -> <<"ota_0", "factory", "ota_1">>
      [] p = "ota_1" -> <<"ota_1", "ota_0", "factory">>

\* The bootloader gives up an image that was tried and not confirmed, notes that
\* it tries a new one, and starts the first partition that holds an image.
PowerOn ==
    /\ phase = "off"
    /\ phase' = "boot"
    /\ LET tried == [p \in OTA |-> IF state[p] = "pending" THEN "aborted" ELSE state[p]]
           active == Active(chosen, tried)
       IN /\ state' = [p \in OTA |-> IF p = active /\ tried[p] = "new" THEN "pending" ELSE tried[p]]
          /\ running' = FirstOf(Attempts(active), {p \in Partitions : content[p] # TORN})
    /\ UNCHANGED <<serving, rebooting, server, request, pair, config, content, chosen, misplaced, upload>>

\* A parameter that is not stored, or a prefix that is too long, leaves the default.
Value(type, name) ==
    LET stored == nvs_params[type][name]
    IN IF stored = NULL \/ (name = "zone_prefix" /\ Len(stored) >= MAX_VALUE) THEN Default[name] ELSE stored

\* What the build makes of a product that is not an integer.
Wrapped(n) == ((n + LIMIT) % (2 * LIMIT)) - LIMIT

ZoneCount(type) == IF type = "ESP32" THEN Value(type, "zone_count") ELSE Wrapped(4 * Value(type, "e1_count"))

\* Whether the ids of the zones fit, two digits after the prefix.
Named(type) ==
    type = "ESP32" /\ ZoneCount(type) > 0 => Len(Value(type, "zone_prefix")) + 2 < MAX_ID

\* calloc of a negative number of zones fails, and the next line asserts it did not.
Aborts == nvs_type # NULL /\ ZoneCount(nvs_type) < 0

\* ofp_hw_initialize, and what it makes of the hardware, from the init hooks
Started ==
    IF nvs_type # NULL /\ ZoneCount(nvs_type) <= MAX_ZONE /\ Named(nvs_type)
    THEN [type |-> nvs_type, zones |-> ZoneCount(nvs_type)]
    ELSE NULL

\* fwupd_confirm: esp_ota_mark_app_valid_cancel_rollback marks what otadata chooses.
Confirm ==
    LET active == Active(chosen, state)
    IN /\ state' = [p \in OTA |-> IF p = active THEN "valid" ELSE state[p]]
       /\ misplaced' = (misplaced \/ active # running)

\* Mutant: the update is confirmed before the hardware is initialised.
BootConfirmsFirst ==
    /\ phase = "boot"
    /\ Confirm
    /\ IF content[running] \notin Crashing /\ ~Aborts
       THEN phase' = "up" /\ hardware' = Started
       ELSE phase' = "off" /\ hardware' = NULL
    /\ UNCHANGED <<serving, rebooting, server, request, pair, nvs_type, nvs_params, asked>>
    /\ UNCHANGED <<content, chosen, running, upload>>

\* app_main down to fwupd_confirm
Boot ==
    /\ phase = "boot"
    /\ content[running] \notin Crashing /\ ~Aborts
    /\ phase' = "up"
    /\ hardware' = Started
    /\ Confirm
    /\ UNCHANGED <<serving, rebooting, server, request, pair, nvs_type, nvs_params, asked>>
    /\ UNCHANGED <<content, chosen, running, upload>>

CrashAtBoot ==
    /\ phase = "boot"
    /\ content[running] \in Crashing \/ Aborts
    /\ Off

\* README.md:28-35: pulling GPIO36 low at reset erases NVS and otadata.
FactoryReset ==
    /\ phase = "off"
    /\ nvs_certs' = NULL /\ nvs_key' = NULL /\ cut' = FALSE
    /\ nvs_type' = NULL
    /\ nvs_params' = [type \in Hardware |-> [name \in Names |-> NULL]]
    /\ chosen' = <<>>
    /\ state' = [p \in OTA |-> "undefined"]
    /\ UNCHANGED <<life, request, hardware, asked, content, running, misplaced, upload>>

-----------------------------------------------------------------------------
(* The web server. *)

\* The stored pair when there are both halves.  It is read while no request runs:
\* httpd_ssl_stop waits for the httpd task.
Loaded == IF nvs_certs # NULL /\ nvs_key # NULL THEN Pair(nvs_certs, nvs_key) ELSE EMBEDDED

\* Mutant: the server restarts without waiting for the request in service.
ConnectedAnytime ==
    /\ phase = "up"
    /\ server' = Loaded
    /\ UNCHANGED <<phase, serving, rebooting, request, pair, config, flash, upload>>

\* STA_GOT_IP: webserver_start, which restarts a server that runs.
Connected ==
    /\ phase = "up"
    /\ req = Idle
    /\ server' = Loaded
    /\ UNCHANGED <<phase, serving, rebooting, request, pair, config, flash, upload>>

\* STA_DISCONNECTED: webserver_stop
Disconnected ==
    /\ phase = "up"
    /\ req = Idle
    /\ server # NULL
    /\ server' = NULL
    /\ UNCHANGED <<phase, serving, rebooting, request, pair, config, flash, upload>>

\* Mutant: serving_enabled is not looked at.
AdmittedDisabled(job) ==
    /\ phase = "up" /\ server # NULL /\ Fits(server)
    /\ req = Idle
    /\ requests < MAX_REQUESTS
    /\ requests' = requests + 1
    /\ req' = job

\* A request of the administrator gets to its handler.
Admitted(job) ==
    /\ phase = "up" /\ server # NULL /\ Fits(server)
    /\ req = Idle
    /\ serving
    /\ requests < MAX_REQUESTS
    /\ requests' = requests + 1
    /\ req' = job

\* GET /reboot: mgmt_queue_reboot
GetReboot ==
    /\ Admitted(Idle)
    /\ serving' = FALSE
    /\ rebooting' = TRUE
    /\ UNCHANGED <<phase, server, pair, config, flash, upload>>

\* What is left to do of the request in service.
Left(job) ==
    /\ req' = job
    /\ UNCHANGED <<life, requests>>

-----------------------------------------------------------------------------
(* Certificates. *)

\* POST /certificate: a bundle is read, or what the heap held when the body was lost
\* and the client could be told (webserver.c:717-722)...
PostCertificate(bundle) ==
    /\ Admitted(Job("bundle", bundle))
    /\ UNCHANGED <<life, pair, config, flash, upload>>

\* ...made a chain or refused...
CheckBundle ==
    /\ req.op = "bundle"
    /\ Left(IF Accepted(req.arg) THEN Job("store_certs", Pair(Chain(req.arg), KeyName(req.arg))) ELSE Idle)
    /\ UNCHANGED <<pair, config, flash, upload>>

\* ...and stored, certificates first.
StoreCerts ==
    /\ req.op = "store_certs"
    /\ nvs_certs' = req.arg.certs
    /\ Left(Job("store_key", req.arg.key))
    /\ UNCHANGED <<nvs_key, cut, config, flash, upload>>

StoreKey ==
    /\ req.op = "store_key"
    /\ nvs_key' = req.arg
    /\ cut' = FALSE
    /\ Left(Idle)
    /\ UNCHANGED <<nvs_certs, config, flash, upload>>

\* PUT /certificate/selfsigned: a key is generated, or not...
PutSelfSigned(key) ==
    /\ key # nvs_key
    /\ \E job \in {Job("own_key", key), Idle} : Admitted(job)
    /\ UNCHANGED <<life, pair, config, flash, upload>>

\* ...and stored...
StoreOwnKey ==
    /\ req.op = "own_key"
    /\ nvs_key' = req.arg
    /\ Left(Job("own_cert", req.arg))
    /\ UNCHANGED <<nvs_certs, cut, config, flash, upload>>

\* ...before the certificate is made, which may fail.  Up to then a failure also
\* frees structures nothing has initialised (api_mgmt.c:834-835): it ends as a
\* refusal or as a restart, which may come here at any time.
StoreOwnCert ==
    /\ req.op = "own_cert"
    /\ \/ nvs_certs' = <<Cert(req.arg, req.arg)>> /\ cut' = FALSE
       \/ cut' = (cut \/ CutShort) /\ UNCHANGED nvs_certs
    /\ Left(Idle)
    /\ UNCHANGED <<nvs_key, config, flash, upload>>

\* DELETE /certificate, certificates first.
DeleteCertificate ==
    /\ Admitted(Job("delete_key", NULL))
    /\ nvs_certs' = NULL
    /\ UNCHANGED <<life, nvs_key, cut, config, flash, upload>>

DeleteKey ==
    /\ req.op = "delete_key"
    /\ nvs_key' = NULL
    /\ Left(Idle)
    /\ UNCHANGED <<nvs_certs, cut, config, flash, upload>>

\* Console, in a task of its own: nvs_delete of a key, or nvs_clear of a
\* namespace, which erases one after the other.
Erase ==
    /\ phase = "up"
    /\ \/ nvs_certs' = NULL /\ UNCHANGED <<nvs_key, nvs_type, nvs_params>>
       \/ nvs_key' = NULL /\ UNCHANGED <<nvs_certs, nvs_type, nvs_params>>
       \/ nvs_type' = NULL /\ UNCHANGED <<nvs_certs, nvs_key, nvs_params>>
       \/ \E type \in Hardware : \E name \in Range(Params(type)) :
             /\ nvs_params' = [nvs_params EXCEPT ![type][name] = NULL]
             /\ UNCHANGED <<nvs_certs, nvs_key, nvs_type>>
    /\ UNCHANGED <<life, request, cut, hardware, asked, flash, upload>>

-----------------------------------------------------------------------------
(* Hardware configuration. *)

\* A form, read by Parse, has its names as strings here.  It has to name a hardware
\* and to give all of its parameters, integers where they are asked for.
Complete(form) ==
    LET type == GetStr(form, "hardware_type")
    IN /\ type \in Hardware
       /\ \A name \in Range(Params(type)) :
             /\ GetStr(form, name) # NULL
             /\ name \in IntegerNames => ParseInt(GetStr(form, name)) # NULL

\* What it asks for.
Configuration(form) ==
    LET type == GetStr(form, "hardware_type")
    IN [type |-> type,
        values |-> [name \in Range(Params(type)) |->
            IF name \in IntegerNames THEN ParseInt(GetStr(form, name)) ELSE GetStr(form, name)]]

\* POST /hardware: the type is stored...
PostHardware(form) ==
    /\ Complete(form)
    /\ Admitted(Job("clear", Configuration(form)))
    /\ nvs_type' = GetStr(form, "hardware_type")
    /\ UNCHANGED <<life, pair, nvs_params, hardware, asked, flash, upload>>

Configure(c, names) == [type |-> c.type, values |-> c.values, left |-> names]

\* ...the parameters of an earlier request are cleared, one after the other...
ClearParam ==
    /\ req.op = "clear"
    /\ \E name \in Names :
          /\ nvs_params[req.arg.type][name] # NULL
          /\ nvs_params' = [nvs_params EXCEPT ![req.arg.type][name] = NULL]
    /\ UNCHANGED <<life, request, pair, nvs_type, hardware, asked, flash, upload>>

\* Mutant: they are not cleared.
ClearedAnyway ==
    /\ req.op = "clear"
    /\ asked' = [asked EXCEPT ![req.arg.type] = req.arg.values]
    /\ Left(Job("params", Configure(req.arg, Params(req.arg.type))))
    /\ UNCHANGED <<pair, nvs_type, nvs_params, hardware, flash, upload>>

\* ...until there are none...
Cleared ==
    /\ req.op = "clear"
    /\ \A name \in Names : nvs_params[req.arg.type][name] = NULL
    /\ asked' = [asked EXCEPT ![req.arg.type] = req.arg.values]
    /\ Left(Job("params", Configure(req.arg, Params(req.arg.type))))
    /\ UNCHANGED <<pair, nvs_type, nvs_params, hardware, flash, upload>>

\* ...and those of this one are stored one by one.
StoreParam ==
    /\ req.op = "params"
    /\ LET name == req.arg.left[1]
           left == Tail(req.arg.left)
       IN /\ nvs_params' = [nvs_params EXCEPT ![req.arg.type][name] = req.arg.values[name]]
          /\ Left(IF left = <<>> THEN Idle ELSE Job("params", Configure(req.arg, left)))
    /\ UNCHANGED <<pair, nvs_type, hardware, asked, flash, upload>>

-----------------------------------------------------------------------------
(* Firmware update. *)

Chunk(image, n) == [image |-> image, n |-> n]

\* What a partition holds after these chunks.
Flashed(chunks) ==
    IF \E image \in Images : chunks = [n \in 1 .. CHUNKS |-> Chunk(image, n)]
    THEN chunks[1].image
    ELSE TORN

\* esp_ota_get_next_update_partition
Other == IF running = "ota_0" THEN "ota_1" ELSE "ota_0"

Update(image, read, chunks) == [image |-> image, to |-> Other, read |-> read, chunks |-> chunks]

\* POST /upgrade: fwupd_begin
PostUpgrade(image) ==
    /\ Admitted(Job("upload", Update(image, 0, <<>>)))
    /\ UNCHANGED <<life, pair, config, flash, upload>>

\* A chunk is read and written; the first has to look like one.  When the chunk
\* is lost and the client could still be told, webserver_read_request_data returns
\* ESP_OK, and what the buffer held before is written.
UploadChunk ==
    /\ req.op = "upload"
    /\ req.arg.read < CHUNKS
    /\ \E got \in {Chunk(req.arg.image, req.arg.read + 1), buf} :
          LET chunks == Append(req.arg.chunks, got)
          IN /\ buf' = got
             /\ req.arg.read = 0 => got # NULL /\ got.n = 1
             /\ content' = [content EXCEPT ![req.arg.to] = Flashed(chunks)]
             /\ Left(Job("upload", Update(req.arg.image, req.arg.read + 1, chunks)))
    /\ promised' = NULL
    /\ UNCHANGED <<pair, config, chosen, state, running, misplaced>>

\* The client is gone, the headers are wrong, or writing fails.
UploadFails ==
    /\ req.op = "upload"
    /\ req.arg.read < CHUNKS
    /\ buf' \in {Chunk(req.arg.image, req.arg.read + 1), buf}
    /\ \/ UNCHANGED <<content, promised>>
       \/ content' = [content EXCEPT ![req.arg.to] = TORN] /\ promised' = NULL
    /\ Left(Idle)
    /\ UNCHANGED <<pair, config, chosen, state, running, misplaced>>

\* Mutant: the other entry is never given up.
ChooseAgain(p) ==
    /\ chosen' = <<p>> \o chosen
    /\ state' = [state EXCEPT ![p] = "new"]

\* esp_ota_set_boot_partition takes the place of the entry that is not active.
Choose(p) ==
    LET active == Active(chosen, state)
    IN /\ chosen' = IF active \in OTA \ {p} THEN <<p, active>> ELSE <<p>>
       /\ state' = [state EXCEPT ![p] = "new"]

\* Mutant: the result of the validation is not looked at.
EndUploadUnchecked ==
    /\ req.op = "upload"
    /\ req.arg.read = CHUNKS
    /\ Choose(req.arg.to)
    /\ promised' = [image |-> req.arg.image, at |-> req.arg.to]
    /\ Left(Idle)
    /\ UNCHANGED <<pair, config, content, running, misplaced, buf>>

\* fwupd_end: the image is validated, chosen for the next boot and acknowledged.
EndUpload ==
    /\ req.op = "upload"
    /\ req.arg.read = CHUNKS
    /\ content[req.arg.to] # TORN
    /\ Choose(req.arg.to)
    /\ promised' = [image |-> req.arg.image, at |-> req.arg.to]
    /\ Left(Idle)
    /\ UNCHANGED <<pair, config, content, running, misplaced, buf>>

\* The image is not valid, or otadata cannot be written.
EndFails ==
    /\ req.op = "upload"
    /\ req.arg.read = CHUNKS
    /\ Left(Idle)
    /\ UNCHANGED <<pair, config, flash, upload>>

-----------------------------------------------------------------------------

Start == PowerOn \/ Boot \/ CrashAtBoot

Handle ==
    \/ CheckBundle \/ StoreCerts \/ StoreKey \/ StoreOwnKey \/ StoreOwnCert \/ DeleteKey
    \/ ClearParam \/ Cleared \/ StoreParam
    \/ UploadChunk \/ UploadFails \/ EndUpload \/ EndFails

Request ==
    \/ GetReboot
    \/ \E bundle \in Bundles : PostCertificate(bundle)
    \/ \E key \in OwnKeys : PutSelfSigned(key)
    \/ DeleteCertificate
    \/ \E form \in Forms : PostHardware(form)
    \/ \E image \in Images : PostUpgrade(image)

Next ==
    \/ Start \/ Reboot \/ PowerLoss \/ FactoryReset
    \/ Connected \/ Disconnected
    \/ Request \/ Handle
    \/ Erase

Spec == Init /\ [][Next]_vars

\* The device is switched on again, for long enough to boot now and then, and the
\* reboot task counts down.
FairSpec == Spec /\ WF_vars(PowerOn) /\ SF_vars(Boot) /\ SF_vars(CrashAtBoot) /\ WF_vars(Reboot)

-----------------------------------------------------------------------------
(* Properties. *)

\* Types of the state.
TypeOK ==
    /\ phase \in {"off", "boot", "up"}
    /\ serving \in BOOLEAN /\ rebooting \in BOOLEAN /\ cut \in BOOLEAN
    /\ requests \in 0 .. MAX_REQUESTS
    /\ nvs_type \in Hardware \cup {NULL}
    /\ hardware # NULL => hardware.type \in Hardware /\ hardware.zones \in 0 .. MAX_ZONE
    /\ \A p \in Partitions : content[p] \in Images \cup {FIRST, TORN}
    /\ chosen \in SeqOf(OTA, 2) /\ IsInjective(chosen)
    /\ state \in [OTA -> {"undefined", "new", "pending", "valid", "aborted"}]
    /\ running \in Partitions

\* A device that is up finds in any bundle the blocks of a well formed text, in order
\* and with nothing of what is around them, and refuses every other: labels that are
\* cut, nested, swapped, repeated or left open at the end (utils.c:1118-1249).
BundlesRead == phase = "up" => TextsIterated

\* It decodes a string to what its client meant, whatever way the client chose to
\* write its bytes, and whatever it is sent, it writes no more than the buffer
\* holds (utils.c:443-529).
StringsDecoded == phase = "up" => SpellingsDecoded

\* It reads from a form the parameters its client meant, in their order, with
\* anything in their names and values and whatever else is between them
\* (utils.c:347-440).
FormsRead == phase = "up" => BodiesParsed

\* It takes a text for an integer if and only if it is one, and for that integer as
\* far as one can be: what does not fit is the limit of its sign (utils.c:545-563).
IntegersParsed == phase = "up" => DigitsParsed

\* As long as no install was cut short over half of an earlier pair, a stored pair
\* is a chain that begins with the certificate of the key: power lost while
\* installing into an empty store, or while removing, leaves nothing a server
\* could not run with (api_mgmt.c:303-304, 619-628, webserver.c:617-637).
StoredPairFits ==
    ~cut /\ ~CutShort /\ nvs_certs # NULL /\ nvs_key # NULL =>
        IsChain(nvs_certs) /\ Fits(Pair(nvs_certs, nvs_key))

\* Nor does the server ever run with the halves of two pairs, whenever the
\* connection comes and goes (webserver.c:592-684).
ServedPairFits == ~cut /\ server # NULL => Fits(server)

\* A bundle that begins with the certificate of the key is stored whatever the
\* order of the other certificates (README.md:121-126, api_mgmt.c:536-588).
ServerFirstStored ==
    [][req.op = "bundle" /\ req' # req /\ phase' = "up" /\ IsServerFirst(req.arg)
          => req'.op = "store_certs"]_vars

\* The restart that a request asked for never falls into another request: it was
\* the last one to be served (api_mgmt.c:38-57, webserver.c:105-122, 558-562).
RebootTearsNothing == rebooting => req = Idle

\* Parameters of two requests never mix, wherever the later one was cut short: one
\* that is missing leaves a default (api_hw.c:226-255).
NoMixedParameters ==
    \A type \in Hardware, name \in Names :
        nvs_params[type][name] # NULL => nvs_params[type][name] = asked[type][name]

\* An update that was acknowledged is the next to boot, whole and the one that was
\* sent, whatever was lost on the way (api_mgmt.c:146-198, webserver.c:687-731).
UpdatePromised ==
    promised # NULL =>
        /\ content[promised.at] = promised.image
        /\ Active(chosen, state) = promised.at

\* The firmware that runs is never written over (fwupd.c:33).
RunningWhole == phase = "up" => content[running] # TORN

\* A device that is off, or that was asked to reboot, ends up serving, whatever was
\* uploaded or configured, and cut short, before: a firmware that crashes before it
\* is confirmed is given up (main.c:98-103, fwupd.c:111-158).  Exempted is a device
\* that, an upload having spoilt the firmware chosen, confirmed it while running
\* another: the next firmware uploaded there passes for confirmed.  Exempted too is
\* one configured with a negative number of zones, which nothing refuses.
ComesUp == phase = "off" \/ rebooting ~> misplaced \/ Aborts \/ (phase = "up" /\ serving)
=============================================================================
