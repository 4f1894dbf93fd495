-------------------------- MODULE ManagementProofs --------------------------
(* Theorems about Management, for every set of images, forms and bundles,   *)
(* and for every number of pieces an image is sent in.                      *)
EXTENDS Management, ParsingProofs

States == {"undefined", "new", "pending", "valid", "aborted"}
Chunks == [image : Images, n : 1 .. CHUNKS]

\* Nothing is served unless the device is up, and nothing once it has to reboot.
LifeInv ==
    /\ phase \in {"off", "boot", "up"}
    /\ phase # "up" => server = NULL /\ req = Idle /\ promised = NULL
    /\ rebooting => ~serving /\ req = Idle

\* The firmware that runs is whole, and there always is one: the factory's is never
\* written.
FlashInv ==
    /\ content \in [Partitions -> Images \cup {FIRST, TORN}]
    /\ content["factory"] = FIRST
    /\ chosen \in Seq(OTA) /\ Len(chosen) <= 2
    /\ state \in [OTA -> States]
    /\ running \in Partitions
    /\ phase # "off" => content[running] # TORN

\* An upload goes where no firmware runs.  The buffer holds the piece written last,
\* so a piece that is lost is written twice, and what was written is the image that
\* was sent or none.
UploadInv ==
    /\ buf \in Chunks \cup {NULL}
    /\ req.op = "upload" =>
          /\ req.arg.image \in Images
          /\ req.arg.to = Other
          /\ req.arg.chunks \in Seq(Chunks)
          /\ req.arg.read = Len(req.arg.chunks)
          /\ req.arg.read <= CHUNKS
          /\ req.arg.read > 0 => buf = req.arg.chunks[req.arg.read]
          /\ req.arg.read = CHUNKS => content[Other] \in {req.arg.image, TORN}

\* Parameters are those of the request that cleared the earlier ones.
ParamsInv ==
    /\ DOMAIN nvs_params = Hardware
    /\ \A type \in Hardware : DOMAIN nvs_params[type] = Names
    /\ DOMAIN asked = Hardware
    /\ req.op \in {"clear", "params"} => req.arg.type \in Hardware
    /\ req.op = "params" => asked[req.arg.type] = req.arg.values
    /\ NoMixedParameters

IInv == LifeInv /\ FlashInv /\ UploadInv /\ UpdatePromised /\ ParamsInv

-----------------------------------------------------------------------------
(* Lemmas on otadata and the partitions. *)

\* The first of a short sequence is found when there is one.
LEMMA FirstOfShort ==
    ASSUME NEW sequence, DOMAIN sequence \subseteq 1 .. 3, NEW partitions,
           \E i \in DOMAIN sequence : sequence[i] \in partitions,
           \A i \in DOMAIN sequence : \A j \in 1 .. i : j \in DOMAIN sequence
    PROVE  FirstOf(sequence, partitions) \in partitions
<1> DEFINE P(i) == /\ sequence[i] \in partitions
                   /\ \A j \in 1 .. i - 1 : sequence[j] \notin partitions
<1>1. \E i \in DOMAIN sequence : P(i)
  <2>1. PICK i \in DOMAIN sequence : sequence[i] \in partitions
    OBVIOUS
  <2>2. i \in {1, 2, 3}
    OBVIOUS
  <2>3. CASE 1 \in DOMAIN sequence /\ sequence[1] \in partitions
    BY <2>3
  <2>4. CASE sequence[1] \notin partitions /\ 2 \in DOMAIN sequence /\ sequence[2] \in partitions
    BY <2>4
  <2>5. CASE sequence[1] \notin partitions /\ sequence[2] \notin partitions
    BY <2>1, <2>2, <2>5
  <2> QED
    BY <2>1, <2>2, <2>3, <2>4, <2>5
<1> QED
  BY <1>1 DEF FirstOf

\* A sequence that begins with one of them gives that one.
LEMMA FirstOfHead ==
    ASSUME NEW sequence, DOMAIN sequence \subseteq 1 .. 3, 1 \in DOMAIN sequence,
           NEW partitions, sequence[1] \in partitions
    PROVE  FirstOf(sequence, partitions) = sequence[1]
BY DEF FirstOf

\* What otadata chooses is a partition.
LEMMA ActiveIsPartition ==
    ASSUME NEW sequence \in Seq(OTA), Len(sequence) <= 2, NEW states
    PROVE  Active(sequence, states) \in Partitions
<1> DEFINE live == {p \in OTA : states[p] # "aborted"}
<1>1. DOMAIN sequence = 1 .. Len(sequence) /\ Len(sequence) \in Nat
  OBVIOUS
<1>2. CASE \E i \in DOMAIN sequence : sequence[i] \in live
  <2>1. FirstOf(sequence, live) \in live
    <3> HIDE DEF live
    <3> QED BY <1>1, <1>2, FirstOfShort
  <2> QED BY <1>2, <2>1 DEF Active, Partitions
<1> QED
  BY <1>2 DEF Active, Partitions

\* The bootloader comes to a partition that holds an image when the factory's does.
LEMMA AttemptsWhole ==
    ASSUME NEW p \in Partitions, NEW whole, "factory" \in whole
    PROVE  FirstOf(Attempts(p), whole) \in whole
<1>1. CASE p = "factory"
  <2>1. Attempts(p) = <<"factory", "ota_0", "ota_1">>
    BY <1>1 DEF Attempts
  <2> QED BY <2>1, FirstOfHead
<1>2. CASE p = "ota_0"
  <2>1. Attempts(p) = <<"ota_0", "factory", "ota_1">>
    BY <1>2 DEF Attempts
  <2> QED BY <2>1, FirstOfShort
<1>3. CASE p = "ota_1"
  <2>1. Attempts(p) = <<"ota_1", "ota_0", "factory">>
    BY <1>3 DEF Attempts
  <2> QED BY <2>1, FirstOfShort
<1> QED
  BY <1>1, <1>2, <1>3 DEF Partitions, OTA

\* The partition chosen is the one otadata chooses from then on.
LEMMA ChosenIsActive ==
    ASSUME NEW p \in OTA, chosen \in Seq(OTA), Len(chosen) <= 2, state \in [OTA -> States], Choose(p)
    PROVE  /\ Active(chosen', state') = p
           /\ chosen' \in Seq(OTA) /\ Len(chosen') <= 2
           /\ state' \in [OTA -> States]
<1> DEFINE live == {q \in OTA : state'[q] # "aborted"}
<1>1. state' \in [OTA -> States] /\ state'[p] = "new"
  BY DEF Choose, States
<1>2. p \in live
  BY <1>1
<1>3. /\ chosen' \in Seq(OTA) /\ Len(chosen') <= 2
      /\ DOMAIN chosen' \subseteq 1 .. 3 /\ 1 \in DOMAIN chosen' /\ chosen'[1] = p
  BY DEF Choose
<1>4. FirstOf(chosen', live) = p
  <2> HIDE DEF live
  <2> QED BY <1>2, <1>3, FirstOfHead
<1> QED
  BY <1>1, <1>2, <1>3, <1>4 DEF Active

\* An upload never goes where the firmware runs.
LEMMA OtherElsewhere == Other \in OTA /\ Other # running
BY DEF Other, OTA

-----------------------------------------------------------------------------
(* The initial state. *)

LEMMA InitIInv == Init => IInv
<1> SUFFICES ASSUME Init PROVE IInv
  OBVIOUS
<1>1. LifeInv
  BY DEF Init, LifeInv
<1>2. FlashInv
  BY DEF Init, FlashInv, States, Partitions, OTA
<1>3. UploadInv /\ UpdatePromised
  BY DEF Init, UploadInv, UpdatePromised, Idle, Job
<1>4. ParamsInv
  BY DEF Init, ParamsInv, NoMixedParameters, Idle, Job
<1> QED
  BY <1>1, <1>2, <1>3, <1>4 DEF IInv

-----------------------------------------------------------------------------
(* What the actions have in common. *)

\* A step of the request in service: there is one, so the device is up and no
\* reboot is due.
LEMMA HandleIsUp == LifeInv /\ Handle => phase = "up" /\ ~rebooting /\ req # Idle
<1> SUFFICES ASSUME LifeInv, Handle PROVE req # Idle
  BY DEF LifeInv
<1>1. Idle.op = "idle"
  BY DEF Idle, Job
<1>2. req.op # "idle"
  BY DEF Handle, CheckBundle, StoreCerts, StoreKey, StoreOwnKey, StoreOwnCert, DeleteKey,
         ClearParam, Cleared, StoreParam, UploadChunk, UploadFails, EndUpload, EndFails
<1> QED
  BY <1>1, <1>2

\* What a request finds when it gets to its handler.
LEMMA RequestIsUp == LifeInv /\ Request => phase = "up" /\ ~rebooting /\ req = Idle /\ serving
BY DEF Request, GetReboot, PostCertificate, PutSelfSigned, DeleteCertificate, PostHardware,
       PostUpgrade, Admitted, LifeInv

\* A step that is none of a firmware update, nor of a start.
Quiet ==
    /\ UNCHANGED <<flash, upload, phase>>
    /\ req' = req \/ req'.op # "upload"

LEMMA QuietSteps ==
    \/ CheckBundle \/ StoreCerts \/ StoreKey \/ StoreOwnKey \/ StoreOwnCert \/ DeleteKey
    \/ ClearParam \/ Cleared \/ StoreParam
    \/ GetReboot
    \/ \E bundle \in Bundles : PostCertificate(bundle)
    \/ \E key \in OwnKeys : PutSelfSigned(key)
    \/ DeleteCertificate
    \/ \E form \in Forms : PostHardware(form)
    \/ Connected \/ Disconnected \/ Erase
    \/ UNCHANGED vars
    => Quiet
<1>1. CheckBundle => Quiet
  BY DEF CheckBundle, Left, Quiet, life, Idle, Job
<1>2. StoreCerts \/ StoreKey => Quiet
  BY DEF StoreCerts, StoreKey, Left, Quiet, life, Idle, Job
<1>3. StoreOwnKey \/ StoreOwnCert \/ DeleteKey => Quiet
  BY DEF StoreOwnKey, StoreOwnCert, DeleteKey, Left, Quiet, life, Idle, Job
<1>4. ClearParam \/ Cleared => Quiet
  BY DEF ClearParam, Cleared, Left, Quiet, life, request, Idle, Job
<1>5. StoreParam => Quiet
  BY DEF StoreParam, Left, Quiet, life, Idle, Job
<1>6. GetReboot => Quiet
  BY DEF GetReboot, Admitted, Quiet, Idle, Job
<1>7. ASSUME NEW bundle \in Bundles, PostCertificate(bundle) PROVE Quiet
  BY <1>7 DEF PostCertificate, Admitted, Quiet, life, Idle, Job
<1>8. ASSUME NEW key \in OwnKeys, PutSelfSigned(key) PROVE Quiet
  BY <1>8 DEF PutSelfSigned, Admitted, Quiet, life, Idle, Job
<1>9. DeleteCertificate => Quiet
  BY DEF DeleteCertificate, Admitted, Quiet, life, Idle, Job
<1>10. ASSUME NEW form \in Forms, PostHardware(form) PROVE Quiet
  BY <1>10 DEF PostHardware, Admitted, Quiet, life, Idle, Job
<1>11. Connected \/ Disconnected \/ Erase => Quiet
  BY DEF Connected, Disconnected, Erase, Quiet, life, request
<1>12. UNCHANGED vars => Quiet
  BY DEF vars, Quiet, life, request
<1> QED
  BY <1>1, <1>2, <1>3, <1>4, <1>5, <1>6, <1>7, <1>8, <1>9, <1>10, <1>11, <1>12

\* The device goes off.
LEMMA OffSteps == Reboot \/ PowerLoss \/ CrashAtBoot => Off
BY DEF Reboot, PowerLoss, CrashAtBoot

-----------------------------------------------------------------------------
(* Every step preserves the invariant. *)

LEMMA LifeStep == LifeInv /\ [Next]_vars => LifeInv'
<1> SUFFICES ASSUME LifeInv, [Next]_vars PROVE LifeInv'
  OBVIOUS
<1>1. CASE PowerOn
  BY <1>1 DEF PowerOn, LifeInv, request, upload
<1>2. CASE Boot
  BY <1>2 DEF Boot, LifeInv, request, upload
<1>3. CASE Off
  BY <1>3 DEF Off, LifeInv
<1>4. CASE FactoryReset
  BY <1>4 DEF FactoryReset, LifeInv, life, request, upload
<1>5. CASE Connected \/ Disconnected \/ Erase
  BY <1>5 DEF Connected, Disconnected, Erase, LifeInv, life, request, upload
<1>6. CASE GetReboot
  BY <1>6 DEF GetReboot, Admitted, LifeInv, upload
<1>7. CASE Request /\ ~GetReboot
  BY <1>7, RequestIsUp DEF Request, PostCertificate, PutSelfSigned, DeleteCertificate,
     PostHardware, PostUpgrade, LifeInv, life
<1>8. CASE Handle
  <2>1. phase = "up" /\ ~rebooting
    BY <1>8, HandleIsUp
  <2>2. UNCHANGED <<phase, rebooting>>
    BY <1>8 DEF Handle, CheckBundle, StoreCerts, StoreKey, StoreOwnKey, StoreOwnCert,
       DeleteKey, ClearParam, Cleared, StoreParam, UploadChunk, UploadFails, EndUpload, EndFails,
       Left, life, request
  <2> QED BY <2>1, <2>2 DEF LifeInv
<1>9. CASE UNCHANGED vars
  BY <1>9 DEF vars, LifeInv, life, request, upload
<1> QED
  BY <1>1, <1>2, <1>3, <1>4, <1>5, <1>6, <1>7, <1>8, <1>9, OffSteps DEF Next, Start

\* A piece that is written, come with the request or left in the buffer.
LEMMA PieceWritten ==
    ASSUME UploadInv, FlashInv, UploadChunk
    PROVE  \E got \in Chunks :
              LET all == Append(req.arg.chunks, got)
              IN /\ buf' = got
                 /\ content' = [content EXCEPT ![Other] = Flashed(all)]
                 /\ Left(Job("upload", Update(req.arg.image, req.arg.read + 1, all)))
                 /\ req.arg.read > 0 => got \in {Chunk(req.arg.image, req.arg.read + 1), req.arg.chunks[req.arg.read]}
                 /\ all \in Seq(Chunks) /\ Len(all) = req.arg.read + 1 /\ all[req.arg.read + 1] = got
<1> DEFINE read == req.arg.read
           image == req.arg.image
<1>1. PICK got \in {Chunk(image, read + 1), buf} :
         /\ buf' = got
         /\ read = 0 => got # NULL /\ got.n = 1
         /\ content' = [content EXCEPT ![req.arg.to] = Flashed(Append(req.arg.chunks, got))]
         /\ Left(Job("upload", Update(image, read + 1, Append(req.arg.chunks, got))))
  BY DEF UploadChunk
<1>2. /\ read < CHUNKS /\ CHUNKS \in Nat
      /\ image \in Images /\ req.arg.to = Other
      /\ req.arg.chunks \in Seq(Chunks) /\ read = Len(req.arg.chunks)
      /\ read > 0 => buf = req.arg.chunks[read]
  BY ManagementAssumption DEF UploadChunk, UploadInv
<1>3. read \in Nat /\ read + 1 \in 1 .. CHUNKS
  BY <1>2
<1>4. Chunk(image, read + 1) \in Chunks
  BY <1>2, <1>3 DEF Chunk, Chunks
<1>5. got \in Chunks
  BY <1>1, <1>2, <1>3, <1>4 DEF UploadInv
<1> DEFINE all == Append(req.arg.chunks, got)
<1>6. all \in Seq(Chunks) /\ Len(all) = read + 1 /\ all[read + 1] = got
  BY <1>2, <1>3, <1>5
<1>7. read > 0 => got \in {Chunk(image, read + 1), req.arg.chunks[read]}
  BY <1>1, <1>2
<1>8. /\ buf' = got
      /\ content' = [content EXCEPT ![Other] = Flashed(all)]
      /\ Left(Job("upload", Update(image, read + 1, all)))
  BY <1>1, <1>2
<1> HIDE DEF read, image, all
<1> QED
  BY <1>5, <1>6, <1>7, <1>8 DEF read, image, all

LEMMA FlashStep == LifeInv /\ FlashInv /\ UploadInv /\ [Next]_vars => FlashInv'
<1> SUFFICES ASSUME LifeInv, FlashInv, UploadInv, [Next]_vars PROVE FlashInv'
  OBVIOUS
<1>1. CASE PowerOn
  <2> DEFINE tried == [p \in OTA |-> IF state[p] = "pending" THEN "aborted" ELSE state[p]]
             active == Active(chosen, tried)
             whole == {p \in Partitions : content[p] # TORN}
  <2>1. active \in Partitions
    <3> HIDE DEF tried
    <3> QED BY ActiveIsPartition DEF FlashInv
  <2>2. "factory" \in whole
    BY DEF FlashInv, Partitions, FIRST, TORN
  <2>3. running' \in whole
    <3>1. running' = FirstOf(Attempts(active), whole)
      BY <1>1 DEF PowerOn
    <3> HIDE DEF active, whole
    <3> QED BY <2>1, <2>2, <3>1, AttemptsWhole
  <2>4. state' \in [OTA -> States]
    <3>1. tried \in [OTA -> States]
      BY DEF FlashInv, States
    <3>2. state' = [p \in OTA |-> IF p = active /\ tried[p] = "new" THEN "pending" ELSE tried[p]]
      BY <1>1 DEF PowerOn
    <3> HIDE DEF active, tried
    <3> QED BY <3>1, <3>2 DEF States
  <2> QED
    BY <1>1, <2>3, <2>4 DEF PowerOn, FlashInv
<1>2. CASE Boot
  <2> DEFINE active == Active(chosen, state)
  <2>1. state' = [p \in OTA |-> IF p = active THEN "valid" ELSE state[p]]
    BY <1>2 DEF Boot, Confirm
  <2>2. state' \in [OTA -> States]
    <3> HIDE DEF active
    <3> QED BY <2>1 DEF FlashInv, States
  <2> QED
    BY <1>2, <2>2 DEF Boot, FlashInv
<1>3. CASE Off
  BY <1>3 DEF Off, FlashInv, flash
<1>4. CASE FactoryReset
  BY <1>4 DEF FactoryReset, FlashInv, life, States
<1>5. CASE Quiet
  BY <1>5 DEF Quiet, FlashInv, flash
<1>6. ASSUME NEW image \in Images, PostUpgrade(image) PROVE FlashInv'
  BY <1>6 DEF PostUpgrade, FlashInv, life, flash
<1>7. CASE UploadChunk
  <2>1. content' \in [Partitions -> Images \cup {FIRST, TORN}]
    <3>1. PICK chunks \in Seq(Chunks) : /\ content' = [content EXCEPT ![Other] = Flashed(chunks)]
                                        /\ Len(chunks) = req.arg.read + 1
      BY <1>7, PieceWritten
    <3>2. ASSUME NEW image \in Images, chunks = [n \in 1 .. CHUNKS |-> Chunk(image, n)]
          PROVE  chunks[1].image \in Images
      BY <3>2, ManagementAssumption DEF Chunk
    <3>3. Flashed(chunks) \in Images \cup {FIRST, TORN}
      BY <3>2 DEF Flashed
    <3> QED BY <3>1, <3>3 DEF FlashInv
  <2>2. \A p \in Partitions : p # Other => content'[p] = content[p]
    BY <1>7 DEF UploadChunk, UploadInv, FlashInv
  <2> QED
    BY <1>7, <2>1, <2>2, OtherElsewhere DEF UploadChunk, FlashInv, Left, life, OTA, Partitions
<1>8. CASE UploadFails
  <2>1. /\ content' \in [Partitions -> Images \cup {FIRST, TORN}]
        /\ \A p \in Partitions : p # Other => content'[p] = content[p]
    BY <1>8 DEF UploadFails, UploadInv, FlashInv
  <2> QED
    BY <1>8, <2>1, OtherElsewhere DEF UploadFails, FlashInv, Left, life, OTA, Partitions
<1>9. CASE EndUpload
  <2>1. req.arg.to \in OTA
    BY <1>9, OtherElsewhere DEF EndUpload, UploadInv
  <2> QED
    BY <1>9, <2>1, ChosenIsActive DEF EndUpload, FlashInv, Left, life
<1>10. CASE EndFails
  BY <1>10 DEF EndFails, Left, FlashInv, life, flash
<1> QED
  BY <1>1, <1>2, <1>3, <1>4, <1>5, <1>6, <1>7, <1>8, <1>9, <1>10, OffSteps, QuietSteps
     DEF Next, Start, Request, Handle

\* Pieces that make an image are all of that image: the last one is no repetition of
\* the one before, so it came with the request in service.
LEMMA LastPiece ==
    ASSUME NEW chunks \in Seq(Chunks), NEW image \in Images, NEW got \in Chunks,
           Len(chunks) + 1 = CHUNKS,
           got = Chunk(image, CHUNKS) \/ got = chunks[Len(chunks)]
    PROVE  Flashed(Append(chunks, got)) \in {image, TORN}
<1> DEFINE all == Append(chunks, got)
<1>1. Len(chunks) \in Nat \ {0} /\ CHUNKS \in Nat
  BY ManagementAssumption
<1>2. SUFFICES ASSUME NEW other \in Images, all = [n \in 1 .. CHUNKS |-> Chunk(other, n)]
               PROVE  Flashed(all) = image
  BY DEF Flashed
<1>3. all[CHUNKS] = got /\ all[Len(chunks)] = chunks[Len(chunks)]
  BY <1>1
<1>4. got = Chunk(other, CHUNKS) /\ chunks[Len(chunks)] = Chunk(other, Len(chunks))
  BY <1>1, <1>2, <1>3
<1>5. got # chunks[Len(chunks)]
  BY <1>1, <1>4 DEF Chunk
<1>6. other = image
  BY <1>4, <1>5 DEF Chunk
<1>7. all[1].image = image
  BY <1>1, <1>2, <1>6 DEF Chunk
<1> HIDE DEF all
<1> QED
  BY <1>2, <1>7 DEF Flashed

LEMMA UploadStep == LifeInv /\ FlashInv /\ UploadInv /\ [Next]_vars => UploadInv'
<1> SUFFICES ASSUME LifeInv, FlashInv, UploadInv, [Next]_vars PROVE UploadInv'
  OBVIOUS
<1> USE ManagementAssumption
<1>1. CASE PowerOn
  BY <1>1 DEF PowerOn, UploadInv, LifeInv, request, upload, Idle, Job
<1>2. CASE Boot
  BY <1>2 DEF Boot, UploadInv, LifeInv, request, upload, Idle, Job
<1>3. CASE Off
  BY <1>3 DEF Off, UploadInv, Idle, Job
<1>4. CASE FactoryReset
  BY <1>4 DEF FactoryReset, UploadInv, LifeInv, request, upload, Idle, Job
<1>5. CASE Quiet
  BY <1>5 DEF Quiet, UploadInv, flash, upload, Other
<1>6. ASSUME NEW image \in Images, PostUpgrade(image) PROVE UploadInv'
  <2>1. /\ req' = Job("upload", Update(image, 0, <<>>))
        /\ UNCHANGED <<flash, upload>>
    BY <1>6 DEF PostUpgrade, Admitted
  <2>2. Other' = Other
    BY <2>1 DEF flash, Other
  <2>3. /\ req'.arg.image = image /\ req'.arg.to = Other
        /\ req'.arg.read = 0 /\ req'.arg.chunks = <<>>
    BY <2>1 DEF Job, Update
  <2>4. req'.arg.chunks \in Seq(Chunks) /\ Len(req'.arg.chunks) = 0
    BY <2>3
  <2>5. /\ 0 <= CHUNKS /\ CHUNKS # 0
        /\ buf' \in Chunks \cup {NULL}
    BY <2>1 DEF UploadInv, upload
  <2> HIDE ManagementAssumption
  <2> QED
    BY <2>2, <2>3, <2>4, <2>5 DEF UploadInv
<1>7. CASE UploadChunk
  <2> DEFINE read == req.arg.read
             image == req.arg.image
  <2>1. PICK got \in Chunks :
          LET all == Append(req.arg.chunks, got)
          IN /\ buf' = got
             /\ content' = [content EXCEPT ![Other] = Flashed(all)]
             /\ Left(Job("upload", Update(image, read + 1, all)))
             /\ read > 0 => got \in {Chunk(image, read + 1), req.arg.chunks[read]}
             /\ all \in Seq(Chunks) /\ Len(all) = read + 1 /\ all[read + 1] = got
    BY <1>7, PieceWritten
  <2> DEFINE all == Append(req.arg.chunks, got)
  <2>2. /\ read < CHUNKS /\ image \in Images /\ req.arg.chunks \in Seq(Chunks)
        /\ read = Len(req.arg.chunks)
        /\ UNCHANGED running
    BY <1>7 DEF UploadChunk, UploadInv
  <2>3. read + 1 = CHUNKS => Flashed(all) \in {image, TORN}
    <3> SUFFICES ASSUME read + 1 = CHUNKS PROVE Flashed(all) \in {image, TORN}
      OBVIOUS
    <3>1. got = Chunk(image, CHUNKS) \/ got = req.arg.chunks[Len(req.arg.chunks)]
      BY <2>1, <2>2
    <3> QED
      BY <2>2, <3>1, LastPiece
  <2>4. content'[Other] = Flashed(all)
    BY <2>1, OtherElsewhere DEF FlashInv, Partitions
  <2>5. Other' = Other
    BY <2>2 DEF Other
  <2>6. /\ req'.op = "upload"
        /\ req'.arg.image = image /\ req'.arg.to = Other
        /\ req'.arg.read = read + 1 /\ req'.arg.chunks = all
    BY <2>1 DEF Left, Job, Update
  <2>7. /\ buf' = got
        /\ all \in Seq(Chunks) /\ Len(all) = read + 1 /\ all[read + 1] = got
    BY <2>1
  <2>8. read + 1 <= CHUNKS
    BY <2>2
  <2> HIDE DEF read, image, all
  <2> QED
    BY <2>2, <2>3, <2>4, <2>5, <2>6, <2>7, <2>8 DEF UploadInv
<1>8. CASE UploadFails
  <2>1. Chunk(req.arg.image, req.arg.read + 1) \in Chunks
    BY <1>8 DEF UploadFails, UploadInv, Chunk, Chunks
  <2> QED
    BY <1>8, <2>1 DEF UploadFails, UploadInv, Left, Idle, Job
<1>9. CASE EndUpload
  BY <1>9 DEF EndUpload, UploadInv, Left, Idle, Job
<1>10. CASE EndFails
  BY <1>10 DEF EndFails, UploadInv, Left, Idle, Job, upload
<1> QED
  BY <1>1, <1>2, <1>3, <1>4, <1>5, <1>6, <1>7, <1>8, <1>9, <1>10, OffSteps, QuietSteps
     DEF Next, Start, Request, Handle

LEMMA PromiseStep ==
    LifeInv /\ FlashInv /\ UploadInv /\ UpdatePromised /\ [Next]_vars => UpdatePromised'
<1> SUFFICES ASSUME LifeInv, FlashInv, UploadInv, UpdatePromised, [Next]_vars PROVE UpdatePromised'
  OBVIOUS
<1>1. CASE PowerOn \/ Boot \/ FactoryReset
  BY <1>1 DEF PowerOn, Boot, FactoryReset, LifeInv, upload, UpdatePromised
<1>2. CASE Off
  BY <1>2 DEF Off, UpdatePromised
<1>3. CASE Quiet
  BY <1>3 DEF Quiet, flash, upload, UpdatePromised
<1>4. ASSUME NEW image \in Images, PostUpgrade(image) PROVE UpdatePromised'
  BY <1>4 DEF PostUpgrade, flash, upload, UpdatePromised
<1>5. CASE UploadChunk
  BY <1>5 DEF UploadChunk, UpdatePromised
<1>6. CASE UploadFails
  BY <1>6 DEF UploadFails, UpdatePromised
<1>7. CASE EndUpload
  <2>1. req.arg.to = Other /\ content[Other] = req.arg.image
    BY <1>7, ManagementAssumption DEF EndUpload, UploadInv
  <2>2. promised' = [image |-> req.arg.image, at |-> Other] /\ content' = content /\ Choose(Other)
    BY <1>7, <2>1 DEF EndUpload
  <2>3. Active(chosen', state') = Other
    BY <2>2, OtherElsewhere, ChosenIsActive DEF FlashInv
  <2> QED
    BY <2>1, <2>2, <2>3 DEF UpdatePromised
<1>8. CASE EndFails
  BY <1>8 DEF EndFails, flash, upload, UpdatePromised
<1> QED
  BY <1>1, <1>2, <1>3, <1>4, <1>5, <1>6, <1>7, <1>8, OffSteps, QuietSteps
     DEF Next, Start, Request, Handle

LEMMA ParamsStep == LifeInv /\ ParamsInv /\ [Next]_vars => ParamsInv'
<1> SUFFICES ASSUME LifeInv, ParamsInv, [Next]_vars PROVE ParamsInv'
  OBVIOUS
<1>1. CASE PowerOn \/ Boot
  BY <1>1 DEF PowerOn, Boot, request, config, ParamsInv, NoMixedParameters
<1>2. CASE Off
  BY <1>2 DEF Off, ParamsInv, NoMixedParameters, Idle, Job
<1>3. CASE FactoryReset
  BY <1>3 DEF FactoryReset, request, LifeInv, ParamsInv, NoMixedParameters, Idle, Job
<1>4. CASE Connected \/ Disconnected
  BY <1>4 DEF Connected, Disconnected, request, config, ParamsInv, NoMixedParameters
<1>5. CASE Erase
  <2>1. \A type \in Hardware, name \in Names :
           nvs_params'[type][name] \in {nvs_params[type][name], NULL}
    BY <1>5 DEF Erase, ParamsInv
  <2> QED
    BY <1>5, <2>1 DEF Erase, request, ParamsInv, NoMixedParameters
<1>6. CASE Request
  <2>1. CASE GetReboot
    BY <2>1 DEF GetReboot, Admitted, config, ParamsInv, NoMixedParameters, Idle, Job
  <2>2. ASSUME NEW bundle \in Bundles, PostCertificate(bundle) PROVE ParamsInv'
    BY <2>2 DEF PostCertificate, Admitted, config, ParamsInv, NoMixedParameters, Job
  <2>3. ASSUME NEW key \in OwnKeys, PutSelfSigned(key) PROVE ParamsInv'
    BY <2>3 DEF PutSelfSigned, Admitted, config, ParamsInv, NoMixedParameters, Idle, Job
  <2>4. CASE DeleteCertificate
    BY <2>4 DEF DeleteCertificate, Admitted, config, ParamsInv, NoMixedParameters, Job
  <2>5. ASSUME NEW form \in Forms, PostHardware(form) PROVE ParamsInv'
    BY <2>5 DEF PostHardware, Complete, Configuration, Admitted, ParamsInv, NoMixedParameters, Job
  <2>6. ASSUME NEW image \in Images, PostUpgrade(image) PROVE ParamsInv'
    BY <2>6 DEF PostUpgrade, Admitted, config, ParamsInv, NoMixedParameters, Job
  <2> QED
    BY <1>6, <2>1, <2>2, <2>3, <2>4, <2>5, <2>6 DEF Request
<1>7. CASE CheckBundle \/ StoreCerts \/ StoreKey \/ StoreOwnKey \/ StoreOwnCert \/ DeleteKey
  BY <1>7 DEF CheckBundle, StoreCerts, StoreKey, StoreOwnKey, StoreOwnCert, DeleteKey, Left,
     config, ParamsInv, NoMixedParameters, Idle, Job
<1>8. CASE ClearParam
  <2>1. \A type \in Hardware, name \in Names :
           nvs_params'[type][name] \in {nvs_params[type][name], NULL}
    BY <1>8 DEF ClearParam, ParamsInv
  <2> QED
    BY <1>8, <2>1 DEF ClearParam, request, ParamsInv, NoMixedParameters
<1>9. CASE Cleared
  <2>1. req.arg.type \in Hardware
    BY <1>9 DEF Cleared, ParamsInv
  <2>2. /\ req'.op = "params"
        /\ req'.arg.type = req.arg.type /\ req'.arg.values = req.arg.values
    BY <1>9 DEF Cleared, Left, Job, Configure
  <2>3. /\ DOMAIN asked' = Hardware
        /\ asked'[req.arg.type] = req.arg.values
        /\ \A type \in Hardware \ {req.arg.type} : asked'[type] = asked[type]
    BY <1>9, <2>1 DEF Cleared, ParamsInv
  <2> QED
    BY <1>9, <2>1, <2>2, <2>3 DEF Cleared, ParamsInv, NoMixedParameters
<1>10. CASE StoreParam
  <2>1. req.arg.type \in Hardware /\ asked[req.arg.type] = req.arg.values
    BY <1>10 DEF StoreParam, ParamsInv
  <2>2. /\ DOMAIN nvs_params' = Hardware
        /\ \A type \in Hardware : DOMAIN nvs_params'[type] = Names
        /\ \A type \in Hardware, name \in Names :
              nvs_params'[type][name] \in {nvs_params[type][name], asked[type][name]}
    BY <1>10, <2>1 DEF StoreParam, ParamsInv
  <2>3. \/ req' = Idle
        \/ req'.op = "params" /\ req'.arg.type = req.arg.type /\ req'.arg.values = req.arg.values
    BY <1>10 DEF StoreParam, Left, Job, Configure
  <2>4. asked' = asked
    BY <1>10 DEF StoreParam
  <2>5. NoMixedParameters'
    BY <2>2, <2>4 DEF ParamsInv, NoMixedParameters
  <2>6. /\ req'.op \in {"clear", "params"} => req'.arg.type \in Hardware
        /\ req'.op = "params" => asked'[req'.arg.type] = req'.arg.values
    <3>1. CASE req' = Idle
      BY <3>1 DEF Idle, Job
    <3>2. CASE req'.op = "params" /\ req'.arg.type = req.arg.type /\ req'.arg.values = req.arg.values
      BY <2>1, <2>4, <3>2
    <3> QED BY <2>3, <3>1, <3>2
  <2> QED
    BY <2>2, <2>4, <2>5, <2>6 DEF ParamsInv
<1>11. CASE UploadChunk \/ UploadFails \/ EndUpload \/ EndFails
  BY <1>11 DEF UploadChunk, UploadFails, EndUpload, EndFails, Left,
     config, ParamsInv, NoMixedParameters, Idle, Job
<1>12. CASE UNCHANGED vars
  BY <1>12 DEF vars, request, config, ParamsInv, NoMixedParameters
<1> QED
  BY <1>1, <1>2, <1>3, <1>4, <1>5, <1>6, <1>7, <1>8, <1>9, <1>10, <1>11, <1>12, OffSteps
     DEF Next, Start, Handle

-----------------------------------------------------------------------------
(* The theorems. *)

LEMMA Invariant == Spec => []IInv
<1>1. IInv /\ [Next]_vars => IInv'
  BY LifeStep, FlashStep, UploadStep, PromiseStep, ParamsStep DEF IInv
<1> QED BY InitIInv, <1>1, PTL DEF Spec

\* An acknowledged update is whole, the image that was sent and the next to boot,
\* though a body that is lost makes the handler write what its buffer held before.
THEOREM PromisesKept == Spec => []UpdatePromised
<1>1. IInv => UpdatePromised
  BY DEF IInv
<1> QED BY <1>1, Invariant, PTL

\* No sequence of uploads, failures, power losses and rollbacks writes over the
\* firmware that runs.
THEOREM RunningStaysWhole == Spec => []RunningWhole
<1>1. IInv => RunningWhole
  BY DEF IInv, FlashInv, RunningWhole
<1> QED BY <1>1, Invariant, PTL

\* The stored parameters of a hardware are always those of one request.
THEOREM ParametersNeverMix == Spec => []NoMixedParameters
<1>1. IInv => NoMixedParameters
  BY DEF IInv, ParamsInv
<1> QED BY <1>1, Invariant, PTL

\* A request that asked for a restart was the last one served before it.
THEOREM RebootIsAlone == Spec => []RebootTearsNothing
<1>1. IInv => RebootTearsNothing
  BY DEF IInv, LifeInv, RebootTearsNothing
<1> QED BY <1>1, Invariant, PTL

-----------------------------------------------------------------------------
(* Certificates and keys: what is accepted of a bundle.                     *)

IsPair(certs, key) == IsChain(certs) /\ certs[1].of = key

\* What is accepted of a bundle is a chain that begins with the certificate of its key.
LEMMA AcceptedIsPair ==
    ASSUME NEW text \in Bundles, Accepted(text)
    PROVE  IsPair(Chain(text), KeyName(text))
<1> DEFINE parts == Iterated(text).parts
           certs == Certs(parts)
           name == KeyName(text)
           path == Path(certs, name)
           matching == Matching(certs, name)
<1>1. PICK P : parts \in Seq(P)
  <2>1. PICK up \in [0 .. Len(text) + 1 -> Iterators(Range(text))] : Iterated(text) = up[Len(text) + 1]
    <3>1. text \in Seq(Range(text))
      BY ManagementAssumption
    <3> QED BY <3>1, IteratedUp
  <2>2. Len(text) + 1 \in 0 .. Len(text) + 1
    <3>1. text \in Seq(Range(text))
      BY ManagementAssumption
    <3> QED BY <3>1
  <2>3. Iterated(text) \in Iterators(Range(text))
    BY <2>1, <2>2
  <2> QED BY <2>3 DEF Iterators
<1>2. certs \in Seq(P)
  BY <1>1, FoundTyped DEF Certs
<1>3. matching # {}
  BY DEF Accepted, KeyName
<1> HIDE DEF parts, certs, name
<1>4. Len(certs) \in Nat /\ matching \in SUBSET (1 .. Len(certs))
  BY <1>2 DEF Matching
<1>5. Max(matching) \in matching /\ \A i \in matching : i <= Max(matching)
  <2> HIDE DEF matching
  <2> QED BY <1>3, <1>4, MaxOfSet
<1>6. Leaf(certs, name) \in matching
  <2> HIDE DEF matching
  <2> QED BY <1>5 DEF Leaf, matching
<1>7. Leaf(certs, name) \in 1 .. Len(certs) /\ certs[Leaf(certs, name)].of = name
  <2>1. certs[Leaf(certs, name)].of = name
    BY <1>6 DEF Matching
  <2> HIDE DEF matching
  <2> QED BY <1>4, <1>6, <2>1
<1>8. Climbs(certs, path) /\ path[1] = Leaf(certs, name)
  BY <1>2, <1>7, PathClimbs
<1> HIDE DEF path
<1>9. path \in Seq(1 .. Len(certs)) /\ Len(path) \in Nat /\ Len(path) > 0 /\ DOMAIN path = 1 .. Len(path)
  BY <1>8 DEF Climbs
<1> DEFINE chain == [i \in DOMAIN path |-> certs[path[i]]]
<1>10. Chain(text) = chain
  BY DEF Chain, certs, parts, path, name
<1>11. Len(chain) = Len(path) /\ \A i \in 1 .. Len(path) : chain[i] = certs[path[i]]
  BY <1>9
<1> HIDE DEF chain
<1>12. IsChain(chain)
  <2> SUFFICES ASSUME NEW i \in 1 .. Len(path) - 1 PROVE chain[i].by = chain[i + 1].of
    BY <1>11 DEF IsChain
  <2>1. i \in 1 .. Len(path) /\ i + 1 \in 1 .. Len(path)
    BY <1>9
  <2>2. certs[path[i]].by = certs[path[i + 1]].of
    BY <1>8 DEF Climbs
  <2> QED BY <1>11, <2>1, <2>2
<1>13. chain[1].of = name
  BY <1>7, <1>8, <1>9, <1>11
<1> QED BY <1>10, <1>12, <1>13 DEF IsPair, name

-----------------------------------------------------------------------------
(* Certificates and keys: what is stored and served.                        *)

\* A request came through a pair that fits, and its server stays; the halves it has
\* stored or has to store are of one pair, unless the console erased one.
PairInv ==
    /\ req # Idle => server # NULL /\ Fits(server)
    /\ req.op = "bundle" => req.arg \in Bundles
    /\ req.op = "store_certs" => IsPair(req.arg.certs, req.arg.key)
    /\ req.op = "store_key" => nvs_certs = NULL \/ IsPair(nvs_certs, req.arg)
    /\ req.op = "own_cert" => nvs_key \in {NULL, req.arg}
    /\ req.op = "delete_key" => nvs_certs = NULL
    /\ StoredPairFits
    /\ ServedPairFits

LEMMA OwnPair == \A key : IsPair(<<Cert(key, key)>>, key)
BY DEF IsPair, IsChain, Cert

LEMMA LoadedFits == StoredPairFits /\ req = Idle /\ ~cut => Fits(Loaded)
<1>1. Fits(EMBEDDED)
  BY DEF EMBEDDED, Fits, Pair, Cert
<1>2. req = Idle => ~CutShort
  BY DEF CutShort, Idle, Job
<1> QED
  BY <1>1, <1>2 DEF StoredPairFits, Loaded

LEMMA PairStep ==
    ASSUME LifeInv, PairInv, [Next]_vars
    PROVE  PairInv'
<1> USE DEF CutShort
<1>1. CASE PowerOn \/ Boot
  BY <1>1 DEF PowerOn, Boot, request, pair, PairInv, StoredPairFits, ServedPairFits
<1>2. CASE Off
  BY <1>2 DEF Off, PairInv, StoredPairFits, ServedPairFits, Idle, Job
<1>3. CASE FactoryReset
  <2>1. req = Idle /\ req' = Idle /\ UNCHANGED server
    BY <1>3 DEF FactoryReset, LifeInv, request, life
  <2>2. server = NULL
    BY <1>3 DEF FactoryReset, LifeInv
  <2> QED
    BY <1>3, <2>1, <2>2 DEF FactoryReset, PairInv, StoredPairFits, ServedPairFits, Idle, Job
<1>4. CASE Connected \/ Disconnected
  <2>1. req = Idle /\ req' = Idle /\ UNCHANGED pair
    BY <1>4 DEF Connected, Disconnected, request
  <2>2. server' = Loaded \/ server' = NULL
    BY <1>4 DEF Connected, Disconnected
  <2>3. ServedPairFits'
    BY <2>1, <2>2, LoadedFits DEF pair, PairInv, ServedPairFits
  <2>4. StoredPairFits'
    BY <2>1 DEF pair, PairInv, StoredPairFits
  <2> QED
    BY <2>1, <2>3, <2>4 DEF PairInv, Idle, Job
<1>5. CASE Erase
  <2>1. /\ UNCHANGED <<req, server, cut>>
        /\ \/ nvs_certs' = NULL /\ UNCHANGED nvs_key
           \/ nvs_key' = NULL /\ UNCHANGED nvs_certs
           \/ UNCHANGED <<nvs_key, nvs_certs>>
    BY <1>5 DEF Erase, request, life
  <2> QED
    BY <2>1 DEF PairInv, StoredPairFits, ServedPairFits
<1>6. CASE Request
  <2>1. /\ UNCHANGED <<server, nvs_key, cut>>
        /\ nvs_certs' \in {NULL, nvs_certs}
        /\ req = Idle /\ server # NULL /\ Fits(server)
        /\ \/ req'.op = "bundle" /\ req'.arg \in Bundles
           \/ req'.op = "delete_key" /\ nvs_certs' = NULL
           \/ req'.op \in {"idle", "own_key", "clear", "upload"}
    BY <1>6 DEF Request, GetReboot, PostCertificate, PutSelfSigned, DeleteCertificate, PostHardware,
       PostUpgrade, Admitted, Job, Idle, life, pair
  <2> QED
    BY <2>1 DEF PairInv, StoredPairFits, ServedPairFits, Idle, Job
<1>7. CASE Handle
  <2>1. server # NULL /\ Fits(server) /\ UNCHANGED server
    <3>1. UNCHANGED server
      BY <1>7 DEF Handle, CheckBundle, StoreCerts, StoreKey, StoreOwnKey, StoreOwnCert, DeleteKey,
         ClearParam, Cleared, StoreParam, UploadChunk, UploadFails, EndUpload, EndFails, Left, life
    <3>2. req # Idle
      BY <1>7, HandleIsUp
    <3>3. server # NULL /\ Fits(server)
      BY <3>2 DEF PairInv
    <3> QED
      BY <3>1, <3>3
  <2>2. ServedPairFits'
    BY <2>1 DEF ServedPairFits
  <2>3. CASE CheckBundle
    <3>1. \/ req' = Idle
          \/ /\ req' = Job("store_certs", Pair(Chain(req.arg), KeyName(req.arg)))
             /\ Accepted(req.arg)
      BY <2>3 DEF CheckBundle, Left
    <3>2. req' = Idle \/ (req'.op = "store_certs" /\ IsPair(req'.arg.certs, req'.arg.key))
      BY <2>3, <3>1, AcceptedIsPair DEF CheckBundle, PairInv, Job, Pair
    <3> QED
      BY <2>1, <2>2, <2>3, <3>2 DEF CheckBundle, pair, PairInv, StoredPairFits, Idle, Job
  <2>4. CASE StoreCerts
    <3>1. /\ IsPair(nvs_certs', req'.arg) /\ UNCHANGED <<nvs_key, cut>>
          /\ req'.op = "store_key"
      BY <2>4 DEF StoreCerts, Left, PairInv, Job
    <3> QED
      BY <2>1, <2>2, <3>1 DEF PairInv, StoredPairFits
  <2>5. CASE StoreKey
    BY <2>1, <2>2, <2>5 DEF StoreKey, Left, PairInv, StoredPairFits, IsPair, Fits, Pair, Idle, Job
  <2>6. CASE StoreOwnKey
    <3>1. nvs_key' = req'.arg /\ req'.op = "own_cert" /\ UNCHANGED <<nvs_certs, cut>>
      BY <2>6 DEF StoreOwnKey, Left, Job
    <3> QED
      BY <2>1, <2>2, <3>1 DEF PairInv, StoredPairFits
  <2>7. CASE StoreOwnCert
    <3>1. req' = Idle /\ UNCHANGED nvs_key /\ nvs_key \in {NULL, req.arg}
      BY <2>7 DEF StoreOwnCert, Left, PairInv
    <3>2. CASE nvs_certs' = <<Cert(req.arg, req.arg)>>
      BY <2>1, <2>2, <3>1, <3>2, OwnPair DEF PairInv, StoredPairFits, IsPair, Fits, Pair, Idle, Job
    <3>3. CASE cut' = (cut \/ CutShort) /\ UNCHANGED nvs_certs
      BY <2>1, <2>2, <2>7, <3>1, <3>3 DEF PairInv, StoredPairFits, Idle, Job
    <3> QED
      BY <2>7, <3>2, <3>3 DEF StoreOwnCert
  <2>8. CASE DeleteKey
    BY <2>1, <2>2, <2>8 DEF DeleteKey, Left, PairInv, StoredPairFits, Idle, Job
  <2>9. CASE \/ ClearParam \/ Cleared \/ StoreParam
             \/ UploadChunk \/ UploadFails \/ EndUpload \/ EndFails
    <3>1. /\ UNCHANGED <<nvs_certs, nvs_key, cut>>
          /\ req.op \in {"clear", "params", "upload"}
          /\ req'.op \in {"clear", "params", "upload", "idle"}
      BY <2>9 DEF ClearParam, Cleared, StoreParam, UploadChunk, UploadFails, EndUpload, EndFails,
         Left, request, pair, Idle, Job
    <3> QED
      BY <2>1, <2>2, <3>1 DEF PairInv, StoredPairFits
  <2> QED
    BY <1>7, <2>3, <2>4, <2>5, <2>6, <2>7, <2>8, <2>9 DEF Handle
<1>8. CASE UNCHANGED vars
  BY <1>8 DEF vars, request, life, pair, PairInv, StoredPairFits, ServedPairFits
<1> QED
  BY <1>1, <1>2, <1>3, <1>4, <1>5, <1>6, <1>7, <1>8, OffSteps DEF Next, Start

THEOREM PairInvariant == Spec => []PairInv
<1>1. Init => LifeInv /\ PairInv
  BY DEF Init, LifeInv, PairInv, StoredPairFits, ServedPairFits, Idle, Job
<1>2. LifeInv /\ PairInv /\ [Next]_vars => LifeInv' /\ PairInv'
  BY LifeStep, PairStep
<1> QED BY <1>1, <1>2, PTL DEF Spec

\* Wherever installing, replacing or removing a pair is cut short, by a loss of
\* power, the console or a failure, what the store then holds is a chain of the
\* key, but for the window over half of an earlier pair.
THEOREM StoredPairsFit == Spec => []StoredPairFits
<1>1. PairInv => StoredPairFits
  BY DEF PairInv
<1> QED BY <1>1, PairInvariant, PTL

\* The server never runs with the halves of two pairs, but after that window.
THEOREM ServedPairsFit == Spec => []ServedPairFits
<1>1. PairInv => ServedPairFits
  BY DEF PairInv
<1> QED BY <1>1, PairInvariant, PTL

\* A bundle that begins with the certificate of the key is stored, whatever the order
\* of the other certificates and how many there are (README.md:121-126,
\* api_mgmt.c:536-588).
THEOREM ServerFirstIsStored == Spec => ServerFirstStored
<1>1. ASSUME LifeInv, PairInv, [Next]_vars,
             req.op = "bundle", req' # req, phase' = "up", IsServerFirst(req.arg)
      PROVE  req'.op = "store_certs"
  <2>1. phase = "up" /\ req # Idle
    BY <1>1 DEF LifeInv, Idle, Job
  <2>2. CheckBundle
    <3>1. CASE PowerOn \/ Boot
      BY <2>1, <3>1 DEF PowerOn, Boot
    <3>2. CASE Off
      BY <1>1, <3>2 DEF Off
    <3>3. CASE FactoryReset \/ Connected \/ Disconnected \/ Erase
      BY <1>1, <3>3 DEF FactoryReset, Connected, Disconnected, Erase, request
    <3>4. CASE Request
      BY <1>1, <2>1, <3>4, RequestIsUp
    <3>5. CASE Handle
      BY <1>1, <3>5 DEF Handle, StoreCerts, StoreKey, StoreOwnKey, StoreOwnCert, DeleteKey,
         ClearParam, Cleared, StoreParam, UploadChunk, UploadFails, EndUpload, EndFails
    <3>6. CASE UNCHANGED vars
      BY <1>1, <3>6 DEF vars, request
    <3> QED
      BY <1>1, <3>1, <3>2, <3>3, <3>4, <3>5, <3>6, OffSteps DEF Next, Start
  <2>3. Accepted(req.arg)
    <3>1. req.arg \in Seq(Range(req.arg))
      BY <1>1, ManagementAssumption DEF PairInv
    <3> DEFINE text == req.arg
    <3> HIDE DEF text
    <3>2. Accepted(text)
      BY <1>1, <3>1, ServerFirstAccepted DEF text
    <3> QED BY <3>2 DEF text
  <2>4. Left(Job("store_certs", Pair(Chain(req.arg), KeyName(req.arg))))
    BY <2>2, <2>3 DEF CheckBundle
  <2> QED
    BY <2>4 DEF Left, Job
<1>2. LifeInv /\ PairInv /\ [Next]_vars
      => [req.op = "bundle" /\ req' # req /\ phase' = "up" /\ IsServerFirst(req.arg)
             => req'.op = "store_certs"]_vars
  BY <1>1
<1>3. IInv => LifeInv
  BY DEF IInv
<1> QED
  BY <1>2, <1>3, Invariant, PairInvariant, PTL DEF Spec, ServerFirstStored

-----------------------------------------------------------------------------
(* What a device that is up reads.                                          *)

\* A device that is up finds in any text the blocks of a well formed one, in
\* order, and refuses every other, however long it is (utils.c:1118-1249).
THEOREM BundlesAreRead == Spec => []BundlesRead
<1>1. BundlesRead /\ BundlesRead'
  BY AllTexts DEF BundlesRead
<1> QED BY <1>1, PTL

\* It decodes a string of any bytes and any length to what its client meant, in
\* any of the ways to write it, and never writes past the buffer (utils.c:443-529).
THEOREM StringsAreDecoded == Spec => []StringsDecoded
<1>1. StringsDecoded /\ StringsDecoded'
  BY AllSpellingsDecoded DEF StringsDecoded
<1> QED BY <1>1, PTL

\* The body of any form is read as the parameters in it, in order: a piece that is
\* no parameter is skipped and spoils none of the others (utils.c:350-439).
THEOREM FormsAreRead == Spec => []FormsRead
<1>1. FormsRead /\ FormsRead'
  BY AllFormsRead DEF FormsRead
<1> QED BY <1>1, PTL

\* A text is read as an integer if and only if it is a sign or none and digits, and
\* then as that integer or the limit of its sign (utils.c:545-563).
THEOREM IntegersAreParsed == Spec => []IntegersParsed
<1>1. IntegersParsed /\ IntegersParsed'
  BY AllIntegersParsed DEF IntegersParsed
<1> QED BY <1>1, PTL

-----------------------------------------------------------------------------
(* Types. *)

\* Numbers stay numbers from the form through flash to the hardware, and what is left
\* of a request to store is never nothing.
TypeInv ==
    /\ serving \in BOOLEAN /\ rebooting \in BOOLEAN /\ cut \in BOOLEAN
    /\ requests \in 0 .. MAX_REQUESTS
    /\ IsInjective(chosen)
    /\ nvs_type \in Hardware \cup {NULL}
    /\ hardware # NULL => hardware.type \in Hardware /\ hardware.zones \in 0 .. MAX_ZONE
    /\ \A type \in Hardware, name \in IntegerNames : nvs_params[type][name] \in Int \cup {NULL}
    /\ req.op \in {"clear", "params"} =>
          \A name \in Range(Params(req.arg.type)) \cap IntegerNames : req.arg.values[name] \in Int
    /\ req.op = "params" => req.arg.left \in Seq(Range(Params(req.arg.type))) /\ req.arg.left # <<>>

\* A parameter of a form is found where it is named.
LEMMA GivenBy ==
    ASSUME NEW form \in Forms, NEW name, GetStr(form, name) # NULL
    PROVE  \E p \in Range(form) : p.name = name /\ GetStr(form, name) = p.value
<1> DEFINE named == {i \in 1 .. Len(form) : form[i].name = name}
           first == SelectInSeq(form, LAMBDA p : p.name = name)
<1>1. first = IF named # {} THEN Min(named) ELSE 0
  BY DEF SelectInSeq
<1>2. form \in Seq(Range(form)) /\ DOMAIN form = 1 .. Len(form) /\ Len(form) \in Nat
  BY ManagementAssumption
<1>3. GetStr(form, name) = IF first = 0 THEN NULL ELSE form[first].value
  BY DEF GetStr
<1> HIDE DEF first
<1>4. named # {} /\ first = Min(named)
  BY <1>1, <1>3
<1>5. first \in named
  <2>1. named \subseteq Nat
    BY <1>2
  <2> HIDE DEF named
  <2> QED BY <1>4, <2>1, MinOfSet
<1>6. first \in DOMAIN form /\ first # 0 /\ form[first].name = name
  BY <1>2, <1>5
<1>7. form[first] \in Range(form)
  BY <1>6 DEF Range
<1> QED BY <1>3, <1>6, <1>7

\* The integers that a complete form asks for are integers.
LEMMA IntegersAsked ==
    ASSUME NEW form \in Forms, Complete(form)
    PROVE  /\ Configuration(form).type = GetStr(form, "hardware_type")
           /\ Configuration(form).type \in Hardware
           /\ \A name \in Range(Params(Configuration(form).type)) \cap IntegerNames :
                 Configuration(form).values[name] \in Int
<1> DEFINE type == GetStr(form, "hardware_type")
<1>1. type \in Hardware /\ Configuration(form).type = type
  BY DEF Complete, Configuration
<1>2. ASSUME NEW name \in Range(Params(type)), name \in IntegerNames
      PROVE  Configuration(form).values[name] \in Int
  <2>1. GetStr(form, name) # NULL /\ ParseInt(GetStr(form, name)) # NULL
    BY <1>2 DEF Complete
  <2>2. PICK p \in Range(form) : p.name = name /\ GetStr(form, name) = p.value
    BY <2>1, GivenBy
  <2>3. GetStr(form, name) \in Seq(Byte)
    BY <1>2, <2>2, ManagementAssumption DEF Byte
  <2>4. ParseInt(GetStr(form, name)) \in Int
    BY <2>1, <2>3, ParsedTyped
  <2>5. Configuration(form).values[name] = ParseInt(GetStr(form, name))
    BY <1>2 DEF Configuration
  <2> QED BY <2>4, <2>5
<1> QED BY <1>1, <1>2

\* The number of zones is one, and not too great where the hardware is started.
LEMMA StartedTyped ==
    ASSUME nvs_type \in Hardware \cup {NULL},
           \A type \in Hardware, name \in IntegerNames : nvs_params[type][name] \in Int \cup {NULL},
           ~Aborts
    PROVE  Started # NULL => Started.type \in Hardware /\ Started.zones \in 0 .. MAX_ZONE
<1> SUFFICES ASSUME nvs_type # NULL, ZoneCount(nvs_type) <= MAX_ZONE
             PROVE  ZoneCount(nvs_type) \in 0 .. MAX_ZONE
  BY DEF Started
<1>1. nvs_type \in Hardware
  OBVIOUS
<1>2. ASSUME NEW name \in IntegerNames PROVE Value(nvs_type, name) \in Int
  <2>1. name # "zone_prefix" /\ Default[name] \in Int
    BY DEF IntegerNames, Default
  <2>2. nvs_params[nvs_type][name] \in Int \cup {NULL}
    BY <1>1
  <2> QED BY <2>1, <2>2 DEF Value
<1>3. ZoneCount(nvs_type) \in Int
  <2>1. Value(nvs_type, "zone_count") \in Int /\ Value(nvs_type, "e1_count") \in Int
    BY <1>2 DEF IntegerNames
  <2>2. ASSUME NEW n \in Int PROVE Wrapped(4 * n) \in Int
    BY FormAssumption DEF Wrapped
  <2> QED BY <2>1, <2>2 DEF ZoneCount
<1>4. ~ (ZoneCount(nvs_type) < 0)
  BY DEF Aborts
<1> QED BY <1>3, <1>4, ManagementAssumption

\* The parameters of a hardware are some of those there are.
LEMMA ParamsNamed ==
    \A type \in Hardware :
        /\ Params(type) \in Seq(Range(Params(type))) /\ Params(type) # <<>>
        /\ Range(Params(type)) \subseteq Names
<1> SUFFICES ASSUME NEW type \in Hardware
             PROVE  /\ Params(type) \in Seq(Range(Params(type))) /\ Params(type) # <<>>
                    /\ Range(Params(type)) \subseteq Names
  OBVIOUS
<1>1. CASE type = "ESP32"
  <2>1. Params(type) = <<"zone_count", "zone_prefix">>
    BY <1>1 DEF Params
  <2>2. Range(Params(type)) = {"zone_count", "zone_prefix"}
    BY <2>1 DEF Range
  <2> QED BY <2>1, <2>2 DEF Names
<1>2. CASE type # "ESP32"
  <2>1. Params(type) = <<"e1_count">>
    BY <1>2 DEF Params
  <2>2. Range(Params(type)) = {"e1_count"}
    BY <2>1 DEF Range
  <2> QED BY <2>1, <2>2 DEF Names
<1> QED BY <1>1, <1>2

\* Two partitions chosen are never the same.
LEMMA ChosenOnce ==
    ASSUME NEW p \in OTA, chosen \in Seq(OTA), Len(chosen) <= 2, Choose(p)
    PROVE  IsInjective(chosen')
<1> DEFINE active == Active(chosen, state)
<1>1. CASE active \in OTA \ {p}
  <2>1. chosen' = <<p, active>> /\ active # p
    BY <1>1 DEF Choose
  <2> HIDE DEF active
  <2> QED BY <2>1 DEF IsInjective
<1>2. CASE active \notin OTA \ {p}
  <2>1. chosen' = <<p>>
    BY <1>2 DEF Choose
  <2> QED BY <2>1 DEF IsInjective
<1> QED BY <1>1, <1>2

\* Flash that was erased.
LEMMA Erased ==
    /\ IsInjective(<<>>)
    /\ \A type \in Hardware, name \in IntegerNames :
          [t \in Hardware |-> [n \in Names |-> NULL]][type][name] = NULL
BY DEF IsInjective, IntegerNames, Names

LEMMA InitTypeInv == Init => TypeInv
<1> SUFFICES ASSUME Init PROVE TypeInv
  OBVIOUS
<1>1. IsInjective(chosen)
  BY Erased DEF Init
<1>2. \A type \in Hardware, name \in IntegerNames : nvs_params[type][name] = NULL
  BY Erased DEF Init
<1>3. req.op \notin {"clear", "params"}
  BY DEF Init, Idle, Job
<1>4. requests \in 0 .. MAX_REQUESTS
  BY ManagementAssumption DEF Init
<1>5. serving = TRUE /\ rebooting = FALSE /\ cut = FALSE /\ nvs_type = NULL /\ hardware = NULL
  BY DEF Init
<1> QED
  BY <1>1, <1>2, <1>3, <1>4, <1>5 DEF TypeInv

LEMMA TypeStep == IInv /\ TypeInv /\ [Next]_vars => TypeInv'
<1> SUFFICES ASSUME IInv, TypeInv, [Next]_vars PROVE TypeInv'
  OBVIOUS
<1>0. LifeInv /\ FlashInv /\ UploadInv /\ ParamsInv
  BY DEF IInv
<1>1. CASE PowerOn
  BY <1>1 DEF PowerOn, request, pair, config, TypeInv
<1>2. CASE Boot
  <2>1. hardware' # NULL => hardware'.type \in Hardware /\ hardware'.zones \in 0 .. MAX_ZONE
    BY <1>2, StartedTyped DEF Boot, TypeInv
  <2> QED BY <1>2, <2>1 DEF Boot, request, pair, TypeInv
<1>3. CASE Off
  BY <1>3 DEF Off, flash, TypeInv, CutShort, Idle, Job
<1>4. CASE FactoryReset
  <2>1. IsInjective(chosen')
    BY <1>4, Erased DEF FactoryReset
  <2>2. \A type \in Hardware, name \in IntegerNames : nvs_params'[type][name] = NULL
    BY <1>4, Erased DEF FactoryReset
  <2> QED
    BY <1>4, <2>1, <2>2 DEF FactoryReset, life, request, TypeInv
<1>5. CASE Connected \/ Disconnected
  BY <1>5 DEF Connected, Disconnected, request, pair, config, flash, TypeInv
<1>6. CASE Erase
  <2>1. \A type \in Hardware, name \in Names :
           nvs_params'[type][name] \in {nvs_params[type][name], NULL}
    BY <1>0, <1>6 DEF Erase, ParamsInv
  <2>2. IntegerNames \subseteq Names /\ nvs_type' \in {nvs_type, NULL}
    BY <1>6 DEF Erase, IntegerNames, Names
  <2>3. UNCHANGED <<life, request, cut, hardware, flash>>
    BY <1>6 DEF Erase
  <2> QED
    BY <2>1, <2>2, <2>3 DEF life, request, flash, TypeInv
<1>7. CASE Request
  <2>0. requests' \in 0 .. MAX_REQUESTS
    BY <1>7, ManagementAssumption DEF Request, GetReboot, PostCertificate, PutSelfSigned, DeleteCertificate,
       PostHardware, PostUpgrade, Admitted, TypeInv
  <2>1. CASE GetReboot
    BY <2>0, <2>1 DEF GetReboot, Admitted, pair, config, flash, TypeInv, Idle, Job
  <2>2. ASSUME NEW bundle \in Bundles, PostCertificate(bundle) PROVE TypeInv'
    BY <2>0, <2>2 DEF PostCertificate, Admitted, life, pair, config, flash, TypeInv, Job
  <2>3. ASSUME NEW key \in OwnKeys, PutSelfSigned(key) PROVE TypeInv'
    BY <2>0, <2>3 DEF PutSelfSigned, Admitted, life, pair, config, flash, TypeInv, Idle, Job
  <2>4. CASE DeleteCertificate
    BY <2>0, <2>4 DEF DeleteCertificate, Admitted, life, config, flash, TypeInv, Job
  <2>5. ASSUME NEW form \in Forms, PostHardware(form) PROVE TypeInv'
    <3>1. req' = Job("clear", Configuration(form)) /\ nvs_type' = GetStr(form, "hardware_type") /\ Complete(form)
      BY <2>5 DEF PostHardware, Admitted
    <3>2. UNCHANGED <<life, pair, nvs_params, hardware, flash>>
      BY <2>5 DEF PostHardware
    <3>3. /\ Configuration(form).type = GetStr(form, "hardware_type")
          /\ Configuration(form).type \in Hardware
          /\ \A name \in Range(Params(Configuration(form).type)) \cap IntegerNames :
                Configuration(form).values[name] \in Int
      BY <3>1, IntegersAsked
    <3>4. req'.op = "clear" /\ req'.arg = Configuration(form)
      BY <3>1 DEF Job
    <3> QED
      BY <2>0, <3>1, <3>2, <3>3, <3>4 DEF TypeInv, life, pair, flash
  <2>6. ASSUME NEW image \in Images, PostUpgrade(image) PROVE TypeInv'
    BY <2>0, <2>6 DEF PostUpgrade, Admitted, life, pair, config, flash, TypeInv, Job
  <2> QED
    BY <1>7, <2>1, <2>2, <2>3, <2>4, <2>5, <2>6 DEF Request
<1>8. CASE CheckBundle \/ StoreCerts \/ StoreKey \/ StoreOwnKey \/ StoreOwnCert \/ DeleteKey
  <2>1. UNCHANGED <<serving, rebooting, requests, chosen, config>> /\ cut' \in BOOLEAN
    BY <1>8 DEF CheckBundle, StoreCerts, StoreKey, StoreOwnKey, StoreOwnCert, DeleteKey, Left, life, flash, pair, TypeInv, CutShort
  <2>2. req'.op \notin {"clear", "params"}
    BY <1>8 DEF CheckBundle, StoreCerts, StoreKey, StoreOwnKey, StoreOwnCert, DeleteKey, Left, Idle, Job
  <2> QED
    BY <2>1, <2>2 DEF TypeInv, config
<1>9. CASE ClearParam
  <2>1. \A type \in Hardware, name \in Names :
           nvs_params'[type][name] \in {nvs_params[type][name], NULL}
    BY <1>0, <1>9 DEF ClearParam, ParamsInv
  <2>2. IntegerNames \subseteq Names
    BY DEF IntegerNames, Names
  <2>3. UNCHANGED <<life, request, pair, nvs_type, hardware, flash>>
    BY <1>9 DEF ClearParam
  <2> QED
    BY <2>1, <2>2, <2>3 DEF life, request, pair, flash, TypeInv
<1>10. CASE Cleared
  <2>1. req.arg.type \in Hardware /\ req.op = "clear"
    BY <1>0, <1>10 DEF Cleared, ParamsInv
  <2>2. /\ req'.op = "params" /\ req'.arg.left = Params(req.arg.type)
        /\ req'.arg.type = req.arg.type /\ req'.arg.values = req.arg.values
    BY <1>10 DEF Cleared, Left, Job, Configure
  <2>3. UNCHANGED <<life, requests, pair, nvs_type, nvs_params, hardware, flash>>
    BY <1>10 DEF Cleared, Left
  <2> QED
    BY <2>1, <2>2, <2>3, ParamsNamed DEF life, pair, flash, TypeInv
<1>11. CASE StoreParam
  <2> DEFINE type == req.arg.type
             name == req.arg.left[1]
             left == Tail(req.arg.left)
  <2>1. type \in Hardware /\ req.op = "params"
    BY <1>0, <1>11 DEF StoreParam, ParamsInv
  <2>2. req.arg.left \in Seq(Range(Params(type))) /\ req.arg.left # <<>>
        /\ \A n \in Range(Params(type)) \cap IntegerNames : req.arg.values[n] \in Int
    BY <2>1 DEF TypeInv
  <2>3. name \in Range(Params(type)) /\ left \in Seq(Range(Params(type)))
    <3> DEFINE S == Range(Params(type))
    <3>1. req.arg.left \in Seq(S) /\ req.arg.left # <<>>
      BY <2>2
    <3> HIDE DEF S
    <3>2. name \in S /\ left \in Seq(S)
      BY <3>1
    <3> QED BY <3>2 DEF S
  <2>4. nvs_params' = [nvs_params EXCEPT ![type][name] = req.arg.values[name]]
    BY <1>11 DEF StoreParam
  <2>5. \A t \in Hardware, n \in IntegerNames : nvs_params'[t][n] \in Int \cup {NULL}
    <3> TAKE t \in Hardware, n \in IntegerNames
    <3>1. nvs_params[t][n] \in Int \cup {NULL} /\ n \in Names
      BY DEF TypeInv, IntegerNames, Names
    <3>2. CASE t = type /\ n = name
      <4>1. nvs_params'[t][n] = req.arg.values[n]
        BY <1>0, <2>1, <2>4, <3>1, <3>2 DEF ParamsInv
      <4> QED BY <2>2, <2>3, <3>2, <4>1
    <3>3. CASE ~ (t = type /\ n = name)
      <4>1. nvs_params'[t][n] = nvs_params[t][n]
        BY <1>0, <2>1, <2>4, <3>1, <3>3 DEF ParamsInv
      <4> QED BY <3>1, <4>1
    <3> QED BY <3>2, <3>3
  <2>6. \/ req' = Idle
        \/ /\ req'.op = "params" /\ req'.arg.type = type /\ req'.arg.values = req.arg.values
           /\ req'.arg.left = left /\ left # <<>>
    BY <1>11 DEF StoreParam, Left, Job, Configure
  <2>7. UNCHANGED <<life, requests, pair, nvs_type, hardware, flash>>
    BY <1>11 DEF StoreParam, Left
  <2> HIDE DEF type, name, left
  <2>8. req'.op \in {"clear", "params"} =>
            \A n \in Range(Params(req'.arg.type)) \cap IntegerNames : req'.arg.values[n] \in Int
    BY <2>2, <2>6 DEF Idle, Job
  <2>9. req'.op = "params" => req'.arg.left \in Seq(Range(Params(req'.arg.type))) /\ req'.arg.left # <<>>
    BY <2>3, <2>6 DEF Idle, Job
  <2> QED
    BY <2>5, <2>7, <2>8, <2>9 DEF TypeInv, life, pair, flash
<1>12. CASE UploadChunk \/ UploadFails \/ EndUpload \/ EndFails
  <2>1. UNCHANGED <<serving, rebooting, requests, cut, nvs_type, nvs_params, hardware>>
    BY <1>12 DEF UploadChunk, UploadFails, EndUpload, EndFails, Left, life, pair, config
  <2>2. req'.op \notin {"clear", "params"}
    BY <1>12 DEF UploadChunk, UploadFails, EndUpload, EndFails, Left, Idle, Job
  <2>3. IsInjective(chosen')
    <3>1. CASE EndUpload
      <4>1. req.arg.to \in OTA /\ Choose(req.arg.to)
        BY <1>0, <3>1, OtherElsewhere DEF EndUpload, UploadInv
      <4> QED BY <1>0, <4>1, ChosenOnce DEF FlashInv
    <3>2. CASE ~EndUpload
      <4>1. chosen' = chosen
        BY <1>12, <3>2 DEF UploadChunk, UploadFails, EndFails, flash
      <4> QED BY <4>1 DEF TypeInv
    <3> QED BY <3>1, <3>2
  <2> QED
    BY <2>1, <2>2, <2>3 DEF TypeInv
<1>13. CASE UNCHANGED vars
  BY <1>13 DEF vars, life, request, pair, config, flash, TypeInv
<1> QED
  BY <1>1, <1>2, <1>3, <1>4, <1>5, <1>6, <1>7, <1>8, <1>9, <1>10, <1>11, <1>12, <1>13, OffSteps
     DEF Next, Start, Handle

\* The state always has its types.
THEOREM TypeCorrect == Spec => []TypeOK
<1>1. TypeInv /\ IInv => TypeOK
  <2> SUFFICES ASSUME TypeInv, IInv PROVE TypeOK
    OBVIOUS
  <2>1. chosen \in SeqOf(OTA, 2)
    <3> DEFINE n == Len(chosen)
    <3>1. chosen \in Seq(OTA) /\ n <= 2
      BY DEF IInv, FlashInv
    <3>2. n \in Nat
      BY <3>1
    <3> HIDE DEF n
    <3>3. n \in 0 .. 2
      BY <3>1, <3>2
    <3>4. chosen \in [1 .. n -> OTA]
      BY <3>1 DEF n
    <3> QED BY <3>3, <3>4 DEF SeqOf
  <2> QED BY <2>1 DEF IInv, LifeInv, FlashInv, TypeInv, TypeOK, States
<1>2. TypeInv /\ IInv /\ IInv' /\ [Next]_vars => TypeInv'
  BY TypeStep
<1> QED BY InitTypeInv, Invariant, <1>1, <1>2, PTL DEF Spec
=============================================================================
