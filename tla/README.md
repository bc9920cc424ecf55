# FramedPhoto in TLA+

FramedPhoto is an e-paper photo frame: an ESP32-S3 with a two-controller colour
panel, and a server (FastAPI, SQLite, plain files) that decides what the frame
shows, renders it as an FPS6 frame and answers when the device polls. This
directory holds TLA+ models of both, the TLC configurations that check them and
TLAPS proofs about them. Every definition is translated from the source;
`PROJECT.json` ("map") names the lines.

    tlc -workers 2 -config FrameLoop.cfg FrameLoopMC     # and so on: X.cfg checks XMC
    tlc -workers 2 -config WifiPush.cfg WifiProvisionMC
    tlapm FrameLoopProofs.tla                            # and the other ...Proofs

## The system

| Component | State it keeps | Operations | Meets |
|---|---|---|---|
| Display loop (`firmware/main/display.c`, `content_client.c`) | last id in RAM and NVS, storage partition, panel, force flag | one round: join, report, list, compare, erase, download, load, refresh, record; sleep and wake-up; button | content list and `/raw` of the server; WiFi; OTA |
| Panel driver (`gdey_epd`) | controllers' memory, BUSY line | begin, rows, next controller, refresh, power off | display loop |
| Heartbeat and WiFi (`device_client.c`, `wifi_app.c`, `wifi_config.c`, `routers/devices.py`) | credentials and `applied_ack` in NVS, the device's row with `wifi_pending` | heartbeat, push of a configuration, SmartConfig, access point with a form | console, display loop's deep sleep |
| Wake-up alignment (`wake_align.c`, wall clock of `device_client.c`) | clock base in RTC memory | next :01/:31, length of a sleep | heartbeat, deep sleep |
| Firmware update (`ota_client.c`, `routers/ota.py`) | two partitions, firmware table | manifest, download with hash, switch, confirm | display loop |
| Schedule (`slots.py`, `routers/settings.py`) | `slot_segments` or three legacy ranges | normalise, current segment, start of its content | every content source (cache keys) |
| Daily photo (`daily.py`) | frame and record per slot key, `daily_manual`, `used_at` | choose, render, freshness, pick by hand | schedule, library, NAS, model service |
| Temporary display, pushed pictures, content sources (`display.py`, `library.py`, `content_sources.py`, `routers/images.py`) | files of the display, `content_push` | upload, clear, push, list, raw, delete | device, console |
| Free cards (`free_module.py`) | card cache, library id, rotation | generate, cache for a time, regenerate | schedule, model and image services |
| Weather and calendar cards (`weather_card.py`, `calendar_card.py`) | card files with their originals, sentence and design of the day, place found by address | draw or serve from the cache, prune | weather, place and model services; settings |
| Library, categories, analysis, database (`category.py`, `analyzer.py`, `db.py`, `routers/analysis.py`) | folders, `photo_scores` | upload, analyse, create, rename, delete a folder | daily photo, schedule, NAS |
| NAS (`nas_sync.py`, `sync_nas.sh`, `routers/sync.py`) | lock directory, status file, photo tree | mirror, relocate records, push a folder | library |
| Runtime configuration (`runtime_config.py`) | one JSON file | read, change and write | all of the server |
| Images and calibration (`epd_image.py`, `calibration.py`, `routers/calibration.py`) | `calibrated.json`, the profile in memory, the preview's table, `chroma_bias` | dither, pack, check, preview; chart, photograph, palette, bias | every renderer, the device's checks and driver chips |
| ESPTouch sender, web console, tools, scripts | - | requests, one-shot commands | - |

What makes the system hard to test, and what each part owes:

- The device takes the id of the content and the content itself with two
  requests, writes the frame to flash, the frame to the panel and the id to NVS
  one after the other, and can lose its power or its network between any two.
  It must never show anything but an intact frame, never record what it did not
  show, and must in the end show what is listed.
- A pushed WiFi configuration travels in a heartbeat's reply and is confirmed by
  a later heartbeat; replies are lost and requests are handled late. It must not
  be confirmed before it is stored, must not restart the device for ever, and
  should arrive.
- The schedule is normalised from what a console, a script or an older version
  entered; each minute must have one segment and keep its meaning, and the start
  of a segment is the key of all caches, over midnight too.
- A rendering of the daily photo takes seconds, in which the clock, the schedule,
  the picks and the files change and the process may end; the record the list is
  made from and the frame that is served must agree, the category must be kept,
  and the picture must not change during a day.
- The configuration file, the sync lock, the database and the NAS relocation are
  read-then-write sequences without a transaction.
- What the frame is told to show and what it downloads are two requests to a
  server that keeps a picture in up to five places (frame, original, row, score,
  cache); what is listed must be what is served, and a preview must be of the
  frame beside it.
- A synchronisation runs for minutes beside uploads, analyses and the owner on the
  NAS; it must mirror the NAS, carry the scores along and lose no photo that
  arrives meanwhile. Two synchronisations must not run at once, and a killed one
  must not keep the next from running.
- A firmware update may be cut anywhere, and its image may die at its start: the
  device must always come up.
- The conversion to inks works in rounded steps whose errors show as faded areas
  or false colours, and a calibration must reach every picture made after it.

`PROJECT.json` ("hazards") lists these at their lines, with the properties that
watch over them or the reason none does.

## Modules

`FrameView` is the abstract specification: what somebody who looks at the frame
may rely on. The panel goes from one intact picture to another, through a
refresh, to a picture the server was offering during the update; the test
pattern is for devices without content only.

`FrameLoop` is the display task. `pc` is its position in `display_task` and
`update_from_server`; one action per call that can fail or be interrupted. The
server is reduced to what a device sees of it: `pick`, the listed source, and
`frame[s]`, the frame source `s` would answer with now; `Render`, `Pick` and
`Withdraw` change them at any time, which covers every content source. An id is
a pair of a source and the frame it had when the list was built. Generated
sources (`Gen`) answer with their current frame under any id (docs/adr/0002);
library pictures (`Lib`) have one frame per id as long as they exist. `flash`
and `whole` are the storage partition, `canvas` is what the two controllers were
loaded with, and `Flux` is a panel in the middle of a refresh. `Boot` is what
`app_main` does again after deep sleep (timer or button), a restart or a power
loss. `View` is the refinement mapping to `FrameView`; `settled` is `nvsId # NoId`.
`FrameLoopProofs` holds the theorems.

`WifiProvision` is everything that leads to credentials: the row of the devices
table (`known`, `pending`, `want`), heartbeats on their way (`wire`, handled in
any order, as the device gives up on one after 15 s and sends another), NVS with
the name and the password as two entries (`ssid`, `pass`) and the `ack` flag, and
the tasks of the device (`mode`, `round`, `task`). The access point's handler
reads its strings after freeing them, so `SubmitForm` saves what was entered or
any other text. A task that cannot register its handlers ends without having opened
anything (`ListenDies`), and the device stays "deaf" until it restarts. The display
task's round appears as `RoundEnds`, `SleepAndWake` and `PollAgain`: it ends the
provisioning of builds that sleep.

`Slots` are the operators of `slots.py`: `Canonicalize` with its stages, the
legacy ranges (`LegacyRaw`, `FillPartition`), `CurrentSegment`, `SegmentStart`.
`Schedule` puts them under a clock and a console that saves schedules; the
reference definitions it compares with (`MeantAt`, `Covers`) say what a list of
segments or a range means, without sorting or merging.

`DailyPick` extends `Slots` by the daily photo: `frame` and `record` are the two
files per slot key, `pc` is the handler the event loop is in. A request reads clock
and schedule again for each question: its key (`Ask`), whether what is there is fresh
(`Judge`), the answer (`Recall`), the owner's pick and then the category to choose from
(`Pick`, `PickNone`); between any two of them time may pass or a worker thread save
another schedule (`Meanwhile`). `moved` is history: whether another segment became
current on the way. `WriteFrame`, `WriteRecord` and `MarkUsed` follow one by one while
the clock goes on, schedules are saved, photo files come and go and the process may
end. `Pinned`, `Fresh` and `Candidates` are `daily_manual_pick`, `_is_fresh_for` and the
three tiers of `select_daily_photo`, with the limits of the queries (`MatchLimit`,
`ListLimit`, the rows of removed files counting) and of the choice (`TopLimit`).
`SlotsProofs` holds the theorems about `Slots`, `Schedule` and `DailyPick`.

`WakeAlign` is the arithmetic of `wake_align.c`, in seconds, and `WakeClock` the
clock it is used with: `base` and `valid` are the two variables in RTC memory,
`booted` is when `esp_timer` began to count, and `now` is the true time, which the
device does not see. Time jumps from event to event. A heartbeat sets the base
from an answer that is `age` seconds old (-1 because both clocks count whole
seconds); deep sleep keeps the base and resets the count, a power loss clears both,
and after a restart the model allows either. `DeviceProofs` holds the theorems.

`Content` is the server's side of what the device polls: the one-off picture (`frame`
and `thumb` are `display.fps6` and `display.orig.jpg`, `Previewed` what
`DisplaySource.original` returns, and `chart` is history: a calibration chart or another
ready frame was pushed over an upload), the library (`rows`, `frames`, `origs`,
`scores`, `pushed`) and the free cards with their three caches (`mem`, `file` with its
`.libid` in `sidecar`, the library entry). The handlers run on one event loop and do not
wait between two writes, so each is one action; `Cut` and the sets in `cut` are the
process that ends and the write that fails in the middle of one. `ContentList` is `GET
/api/content/list` and `Raw` what `/raw` answers; `listed` is the entry the frame was
sent. A generated id (the one-off picture, a card of a segment) stays the same while its
picture is replaced, which `FrameLoop` models as `Gen`; `Content` forgets `listed` then.
`ContentProofs` holds the theorems.

`Cards` are the weather and the calendar card, whose drawing takes seconds: `call` is
the request in progress, with the steps at which it reads the date, asks the language
model, writes the original, the frame and prunes. A picture is the record of what it was
drawn from (day, style, place, sentence, design), which is what the properties compare.
Every write may fail. The code goes on without an original, a sentence or a design it
cannot save (`MonthOriginalFails`, `WeatherOriginalFails`; `lone` marks a frame without
its own original, `kept` an answer that is on disk) and gives up on a frame
(`FrameFails`). `crossed` is history: a style was changed during a drawing.
`PictureProofs` holds the theorems, also those about `Calibration`.

`Library` is the photo library on the NAS (`nas`), its mirror (`local`) and the table
`photo_scores` (`rec`), with `pc` the step of the running synchronisation:
`SyncStarts` fetches the list, `RelocatePre` moves photos to where the list has them,
`Rsync`, `RelocatePost` trashes orphans and lets rows follow their photos by hash,
`RefreshCategories` and `AnalyseNew` are the analysis after it; each of them may fail
(`RelocatePreFails`, `RsyncFails`, `RelocatePostFails`, `AnalyseFails`). A row's key is a
path in one of three forms: as the service writes it, absolute as the analysis after a
synchronisation does, or relative to the repository (`stray`), which is what an
absolute row becomes when it follows its photo and `PHOTO_LIB_DIR` is relative
(`NewKey`, `AbsLib`); the service finds no file under the third. Uploads with their
two background tasks, the folder requests and the owner's acts on the NAS come
between any two of them. `plain` and `worth` are history: whether the rows could follow
their files and no names clashed, and the photos, by name and content, that had scores
worth keeping when it started. `NasProofs` holds the theorems.

`SyncLock` is who may run that synchronisation: the lock directory and its `pid` file
command by command, the takeover of a stale lock, the trap that frees it, the status
file and `routers/sync.py`, which starts the script when the status allows. From `Pull`
on the rsync runs in the background: if the script alone is killed, its rsync goes on
(`orphans`) until `OrphanEnds`. `NasProofs` holds the theorems.

`Settings` is `runtime_config.json` with its writers, which read it, empty it and write
it back: the threads of the pool `save_settings` runs in and the handlers of the event
loop (`proc` holds what each has read). It contains the check of bound categories
(`folders`, and `rows`, the categories of `photo_scores`), the folder requests that rewrite
the schedule and the pick, the request that fails after its folder is renamed
(`RenameClashes`), and the clearing of the weather cache, whose frames (`frame`, `orig`)
are named by location and not by the place's name. History: `meant` is what was written
last under each key, `lost` the keys some save overtook, and `gone` the folder names the
owner took away. `SettingsProofs` holds the theorems.

`Ota` is publication (`file`, `row`, `latest`), the device's download into the
partition it does not run from, the comparison of the hash, the switch and the boot
loader's single trial (`boot`, `mark`, `run`). `FirmwareView` is the abstract
specification, what the owner of the frame is promised: the device runs the image that
proved itself last, or gives one trial to the image that was published when it asked,
and only an image that came up becomes the confirmed one. `View` is the refinement
mapping: partitions, boot loader's mark and position of the task become `confirmed`,
`trial`, `tried` and `running`. `DeviceProofs` holds the theorems.

`InkMix` is how a picture becomes inks: the nearest ink, the error diffusion with the
weights of Floyd and Steinberg, and for saturated colours outside of the palette's
hull the pair of inks on it and the proportion, exact or deepened by a bias. `Fps6` is
the frame format with the checks of both sides, the rotation of landscapes, the two
driver chips and the preview. `Calibration` puts them under the console: chart,
photograph, palettes by hand or by the tool's process, bias, previews, uploads and
the device's poll. On the bands of the run the ink counts of `InkMix` are those of
`epd_image.py` to within one pixel of 96 (three for grey), the difference being the
rounding of the coarser units.

The `...MC` modules hold the values the `.cfg` files give to constants.
Definitions whose comment begins with "Variant:" are mistakes somebody could make
in the definition below them; each property is known to fail for one of them
(`PROJECT.json`, "mutants"), so no property holds by the shape of the model.

## Runs

| Run | Shows | Bounds |
|---|---|---|
| `frame_loop` | `OnlyIntactFrames`, `RecordAfterRefresh`, `FrameLoop` implements `FrameView`, `NewContentIsShown` | one generated source and one library picture, three frames of which one is for another panel, all four builds, 2 content changes, 2 failures |
| `content` | `ListedIsServed`, `PreviewOfTheFrame`, `NothingLeft`, `CardStays` | three pictures, two modules, one change of segment or day, 1 failure |
| `daily_pick` | `ListedIsServed`, `CategoryShown`, `StableWithinDay` | a day of three instants and the first of the next, four photos in two categories (two not analysed, one with an anniversary), queries of one match and two rows of which the best is chosen, two schedules, 2 acts of the owner, one crash |
| `cards` | `CurrentCard`, `ServedHasItsOriginal`, `SteadyAllDay` | two days, two styles, two places, two sentences, two designs, two cached files (`Keep`), one change of style, one crash, one write that fails |
| `schedule` | `ShowsWhatWasEntered`, `LegacyAsConfigured`, `OneContentOneStart` | days of four instants, every list of up to three of 19 segments, every legacy form over six ranges, two days |
| `settings` | `NothingLost`, `NamesFollow`, `PlaceTakesEffect` | two threads of the pool beside the event loop, two folder names of which one is there and holds today's picture to begin with, three places of which two share a location, 2 changes, 1 crash |
| `library` | `Mirrored`, `ScoresFollow`, `LateUploadStays` | the library itself and two folders, one file name, two photos, rows in each of the forms, a relative `PHOTO_LIB_DIR`, 2 acts of the owner, 1 upload, 1 failure |
| `sync_lock` | `ExclusiveButForRaces`, `LonelyStartRuns` | three launches, 2 kills |
| `wifi_push` | `AckIsTruthful`, `RestartsBounded`, `PushArrives`, `PortalOpensAwake` | four configurations (two that work, one without the server, one the device rejects), 2 entries by the owner, 2 failures, 2 heartbeats under way, all builds |
| `ota` | `Ota` implements `FirmwareView` (`ImplementsFirmware`), `UpdateArrives` | three images of which one dies at its start, two labels, 3 uploads, 2 failures |
| `wake_clock` | `BoundaryIsNext`, `ClockNeverAhead`, `WakesOnTime`, `KeepsBeat` | power at 18 instants next to the boundaries around local midnight, one build that aligns and has a button and one that does neither, parts of a round of 1 s and of more than half an hour, answers -1, 0 and 15 s old, 2 boots |
| `calibration` | `NearestMixture`, `BiasOnlyDeepens`, `PreviewIsThePush`, `AcceptedIsShown`, `PhotoFindsInks` | a panel of 8 by 12, two palettes, six colours, biases -1, 1 and 5, five frames of another make, 3 requests |

The bounds are small and enough for what they count. Two content changes are a
change between list and download and a change back, and each hazard of the
display loop needs one or two failures. Two owner entries are a
configuration and the one that overtakes it; two heartbeats under way are a late
one and its successor. Three segments are what the cut at midnight, a merge on
each side of it and a segment in between need. Two days have one midnight,
three instants a segment before, across and after it. In `daily_pick` the third
photo of a query of two rows is the one a removed file keeps out. For `wake_clock` two boots
are a wake-up and the one after it. Two folders, one name and two photos are a swap, a
copy and a move into a place that is still taken; one upload falls before, into
or after a synchronisation. Three launches are a stale lock and two that take it
over, two kills leave it with and without a pid. Three firmware uploads are a
running version, one that fails and its replacement during a transfer. Three
pictures are one that is listed, one that replaces it and one in the cache. Two
settings changes are two saves in two threads, or a save and a folder request, each at
any step of the other. In `calibration` one calibration, one picture and one preview
or poll fit into three requests, and a band of 8 by 12 pixels is large enough for
the mean of a mixture to settle within the tolerance stated. The proofs cover every
value of the bounds for what they prove. Every bound is a named constant used in a
guard (`Max...`), or a model value set.

Symmetry is used where values are only compared: pictures in `content`, folders
and photos in `library`, places, sentences and designs in `cards`; none of these runs
checks liveness. `cards` has two constraints. `MCOneCard`: the two cards
share the clock and the event loop and no file, and a behaviour draws one of them.
`MCOneMishap`: a behaviour has a crash and a change of style, or else a write that fails.
`daily_pick` has one, `MCOneCrash`: a crash comes beside one act of the owner, not two. The
proofs have none of them.

`schedule`, `daily_pick`, `wake_clock`, `sync_lock` and `calibration` do not check for
deadlock, because the clock, the boots, the launches or the requests stop at their
bound; all others do.

Fairness. `FrameLoop`: weak fairness of the task's own steps together; the task never
waits for ever (each wait has a timeout) and an RTC timer ends every sleep. Failures are
not fair and are bounded by `MaxFaults`, so `NewContentIsShown` says that content
arrives once failures stop. `WifiProvision`: weak fairness of sending, of the event loop
(each request is handled at some time), of the steps of a save, of the SmartConfig
timeout and of the rounds. `Ota`: weak fairness of the device's steps, as `ota_client`
runs once in every round. `SyncLock`: weak fairness of each launch's steps: a shell
script that is not killed goes on. `Settings`: weak fairness of each thread of the pool,
of the handler in progress and of the hour after which a cached card is drawn anew.
Nothing is assumed of the owner.

## Disagreements between code and text

Sentences of the repository that its code does not keep. The models do what the
code does, and the properties are stated so as to leave these cases out (their
comments say where); none of them is a property of a run.

- `docs/api.md:24`: an unchanged id means unchanged content. The list and the
  download are two requests: if a generated source changes between them and back
  later, the panel keeps the picture in between under an id that is equal again.
  `ImplementsView` only promises a picture that was on offer.
- `display.c:344`: a refresh cut by a power loss is repeated in the forced round
  only; if that round fails, the half-refreshed panel stays until the content changes
  (`display.c:359` clears the flag).
- `routers/devices.py:79`: a confirmation clears `wifi_pending` also when it is the
  confirmation of an older configuration; the newer one never arrives. `PushArrives`
  is stated for one that is not overtaken.
- `wifi_config.c:7`: the access point opens after the SmartConfig timeout. In builds
  that sleep the display task's deep sleep comes first, every time; and a task whose
  handlers cannot be registered ends without opening any (`wifi_config.c:63-69`).
  `PortalOpensAwake` is stated for the other builds and tasks.
- `routers/images.py:139`: cancelling a pick returns to the automatic choice. The
  record of the picked photo stays fresh until the day ends.
- `slots.py:222`, `daily.py:200`: a segment that goes on over midnight keeps its start
  as its key, yet the photo is replaced at 0:00, as freshness compares the day.
- `wake_align.c:11`: a device that was powered on off the beat leaves it with a
  failed heartbeat, because the clock base is behind by the time slept.
- `nas_sync.py:293`: uploads that wait for their push are left alone. The code
  (`nas_sync.py:308`) spares those made since the synchronisation began; one made
  before it whose push has failed or not yet run (`routers/analysis.py:127`) is
  taken to the trash. `LateUploadStays` covers the former.
- `nas_sync.py:294`: rows follow their photos. If one would follow to a path that has
  a row, the update breaks the primary key (`nas_sync.py:362`) and no row of
  that synchronisation follows. `ScoresFollow` leaves such clashes out (`Unclashed`).
  Nor does a row follow a photo to another name: only rows under the old one are looked
  for (`nas_sync.py:340`), so a photo renamed on the NAS is analysed anew.
  `ScoresFollow` is stated by name and content.
- `nas_sync.py:353`: a followed row keeps the form of its path, absolute or relative.
  An absolute one becomes `str(hit)`, a path under the root as the script passes it
  (`sync_nas.sh:38-43`, `:258`): where `PHOTO_LIB_DIR` is relative that is
  `services/photos/...`, relative to the repository, and the service, which runs in
  `services/`, finds no file there. The row is there with its scores until the next
  analysis of its photo takes them over; with `NAS_AUTO_ANALYZE=0` it stays. `ScoresFollow`
  asks for rows the service can use only once every photo has been analysed.
- `analyze_photos.py:31`: one row per photo. The analysis looks under absolute paths
  only, so an uploaded photo, whose row is relative, gets a second row with the next
  synchronisation, and a relative row keeps its old category when its photo is moved.
- `sync_nas.sh:79`: one synchronisation at a time. A launch that finds the directory
  before its maker wrote the pid, and two that take over the same stale lock
  (`:93`), end up running together; and the rsync of a killed script goes on
  (`:199`) beside the next launch. `ExclusiveButForRaces` says that these are the only
  ways (`raced`, `orphans`).
- `display.py:175`: a pushed frame has no original. `save_pushed_frame`
  (`display.py:96`) leaves the former `display.orig.jpg` where it is, and
  `DisplaySource.original` returns it (`display.py:174-178`) whatever the flag in
  `display.json` says: the console previews the last upload (`index.html:470-473`) while
  the panel shows the chart pushed after it. `PreviewOfTheFrame` excepts this (`chart`).
- `daily.py:301`: the picture of a key is kept for its day. The key that is judged
  (`:304`) and the key that is rendered (`:329`) are two readings of clock and schedule: a
  midnight, a boundary or a saved schedule between them replaces a fresh picture.
  `StableWithinDay` and `CategoryShown` except a request on whose way this happens
  (`moved`).
- `daily.py:97`, docs/adr/0006: a bound category shows its photos. The query returns 200
  rows and only then are missing files dropped: a category whose 200 best photos were
  removed counts as empty. `CategoryShown` says that this is the only way.
- `runtime_config.py:130`: a save changes its own key. Saves read, change and write the
  whole file without a lock, in the threads of the pool and on the event loop: one
  that is overtaken takes back what was saved meanwhile, and two that write at once may
  leave a file that reads as empty. `NothingLost` bounds what is lost.
- `settings.py:107`, `analysis.py:194`: bindings follow their folders. A save that passed
  its check before a folder was renamed binds a segment to the old name after the
  bindings were rewritten; and when `db.rename_category` fails on a row that has the new
  path already (`db.py:353`), folder and NAS are renamed and the bindings and the pick
  are not. `NamesFollow` excepts the former and is about requests that were answered.
- `docs/calibration.md:99`, `tools/calibrate_profile.py:9`: the tool's calibration takes
  effect at once. It reloads the profile of the tool's own process; the service
  goes on with the old one until it restarts or the console saves (`PreviewIsThePush`
  compares with the calibration a request was handled under).
- `routers/calibration.py:92`: the bias takes effect in all renderings. Cards in a
  cache keep the one they were drawn with.
- `weather_card.py:224`: a day's design is fixed. The file holds the design of the
  last style only: a style left and returned to gets another (`SteadyAllDay` leaves
  such days out). A design or a sentence whose writing fails (`weather_card.py:245`,
  `calendar_card.py:208`) is shown all the same and asked for anew by the next drawing.
- `weather_card.py:670`, `calendar_card.py:352`: a card's preview is made of its original.
  An original that cannot be saved is a warning, and the frame is written beside the
  former one. `ServedHasItsOriginal` excepts that card (`lone`).

## Proofs

TLAPS checks the following for every value of the constants that satisfies the
assumption of the module (`...Assumption`, at its constants). `PROJECT.json`
("theorems") lists them with the properties they state.

`FrameLoopProofs`, from `ConstantsAssumption` (sources and frames disjoint from the
markers, markers distinct, bounds natural numbers): `TypeCorrect`, `IntactFrames`,
`RecordsFollowRefreshes` and `RefinesView` (`Spec => ImplementsView`).
No safety property is inductive by itself: that the panel shows an intact frame
depends on the controllers' memory, which depends on the partition, which
depends on where the task is. The invariant `IInv` ties them together, one
conjunct per stage of the round: `RoundHasManifest` (a round past the list has an
id, and the frame it named is among those offered), `ManifestTracksSource` (the
source's current frame is among those offered since), `StorageReady` (at "load"
the partition holds an intact, fitting, offered frame), `CanvasReady` and
`PanelFollows` (so do the controllers during the refresh and the panel after it),
`DemoOnlyUnshown` (the test pattern's path is taken only with nothing recorded)
and `ServerListsContent` (a listed source has a frame). `InitIInv` and `NextIInv`
show that it is inductive, action by action; `StepImplementsView` maps each step to
a step of `FrameView` or a stutter and is used with `Safety` for the refinement.

`DeviceProofs` on the clock, from `OffsetAssumption` (a whole number of hours from UTC) and
`ClockAssumption` (time after 2001, fixed intervals between a minute and a day,
answers at most 15 s old): all properties of `wake_clock`, and `SleepInRange` (every
sleep lasts between a minute and the longest interval).
The first half is arithmetic: `NextInDayBeat`, `TargetBeat` and `BoundaryBeat` say
that the time chosen is on the beat, ahead by 60 to 1859 seconds, and with
`BeatsApart` (two such times are half an hour apart) that none is left out. The
second half is the invariant `IInv`: `ClockSet` (a valid base is not ahead of the
boot, is a time after 2001 and, once this boot has reported, differs from the boot
by the age of the answer) and `AlarmSet` (the alarm is the one computed at the
moment of falling asleep). `WakesOnTime` and `KeepsBeat` mention only the sleeping
state and need both.

`WifiProvisionProofs`: `AckMeansApplied` (`AckIsTruthful`) and `RestartsArePaid`
(`RestartsBounded`). That the flag in NVS vouches for a whole configuration needs to
know what every heartbeat under way says and where a save stands: `IInv` is `Types`,
`Talking` (the last request says what the flag still says, and a reply that carries a
configuration met a cleared flag), `Writing` (how far the entries of a save have come)
and `Marked`. For the restarts, `Numbers` and `Paid` keep an
account: each restart, and each reply that can still cause one, is paid for by an
entry of the owner or by a failure.

`DeviceProofs` on updates: `BootsAlways` (`AlwaysBoots`, after any power loss there is an
image that starts) and `RefinesFirmware` (`ImplementsFirmware`). `OtaIInv` adds to
`AlwaysBoots` what the update has in hand: `Wanted` (the hash asked for is a published
image's), `Arrived` (at the switch the other partition holds the very image asked for) and
`Running` (what runs is what was booted, and only a confirmed image makes updates, so that
the partition it overwrites is not the one to fall back to). `StepImplementsFirmware` maps
each step: publication, `Check`, `Switch`, the two outcomes of `BootUp`, `Confirm` and the
losses of power to the action of the same meaning, everything else to a stutter, as
writing the other partition changes nothing the owner sees while the mark is valid
(`RunsConfirmed`, `SameView`). That the right image is put on trial is `Arrived` at
`Switch`. `ConfirmedComesUp` is the promise `ComesUp` of `FirmwareView`, carried over.

`NasProofs` on the lock: `OneAtATime` (`ExclusiveButForRaces`). `LockIInv` is the types,
`Begun` (a lock with a pid is of a launch that has begun, and one about to be removed
was made by a launch that is gone) and `Named`: while no race has happened, the lock
bears the name of the launch whose script holds it, or no name while its only maker is
about to write one. Of an rsync that outlived its script it says nothing, as the lock does
not cover it.

`SettingsProofs`: `SettingsKept` (`NothingLost`) and `NamesFollowFolders`
(`NamesFollow`), for any number of threads. `Running`, `Files` and `Numbers` are the types.
`Kept` is about the values: the file is what was meant, but for lost keys, and what a save
holds between its read and its write (`Carries`) is what is meant, but for its own key,
lost ones and those overtaken since. `Folder` and `Names` are about the folders: no writer
will write a name that is gone. The loop never does (`LoopSound`: it rewrites to names that
are known, or known anew), a thread only while the segments are still to be rewritten
(`ThreadSound`), and what is meant has such a name only as long as (`MeantSound`). Both
properties are read off `Kept` and `Names` together.

`ContentProofs`: `ListedStaysServed`, `PreviewsMatch`, `DeletedIsGone` and `CardsStay`,
one per property of the run. The conjuncts of `IInv` are the parts of the properties
(`OneOffPreview`, which leaves out a chart over an upload, `CardPreview`,
`LibraryPreview`, `NothingLeft`), `Current` (the listed entry is what its source has, or
would answer from a cache) and `SameCard` (the card in memory is the one in its file as
long as both are valid and neither was cut).

`NasProofs` on the library: `MirrorIsComplete` (`Mirrored`), `ScoresAreKept`
(`ScoresFollow`) and `LateIsKept` (`LateUploadStays`). `PreKeeps` and `PostKeeps` say that
whatever pairing of photos and places the first relocation chooses, a photo that was in
the mirror is in it afterwards, and that the second takes away only what neither the
list nor the uploads since have. `IInv` adds `Foldered` (no photo is in a folder that
does not exist), `Complete` (after rsync an undisturbed mirror has all that is listed)
and the types. The scores need `Before` (until the second relocation a synchronisation
that nobody disturbs has all the rows it started with) and `After` (from then on the
library is `Settled`). Between the two stands `PostFollows`: the pairings of rows with files
are one to one and as large as they can be (`PairingsMatch`), so a row whose photo is still
somewhere under its name is paired, or stands there already; and as no names clash, no row
is overwritten on the way. `Settled` says that each row names a place with a photo and has
its hash, that the photos still on the NAS have their scores, and that a row under a path
the service does not resolve is the only one of its photo and has its hash (`StrayAlone`,
`StrayHashed`): so the analysis finds it by its hash and takes it over, and after the last
photo none is left (`AnalysisKeeps`).

`SlotsProofs` on the schedule: `ScheduleAsEntered` (`ShowsWhatWasEntered`), `LegacyKept`
(`LegacyAsConfigured`) and `OneStartPerContent` (`OneContentOneStart`), for schedules of
any length and days of any number of instants. `ScheduleIInv` says that what is stored is
the normal form of what was entered; the rest is about that form. A list in it is `Well`
(it starts at 0 and its starts rise) and `Apart` (no two neighbours are the same), and
`CanonicalShows` says that at each instant it shows what belongs there: the latest of
the entries that have begun by then, or the latest of all if none has. Each stage has its
lemma (`Sorted`, `Merges`, `CutShows`, `Raises`, and `Fills` for the ranges of older versions).

`SlotsProofs` on the daily photo: `RecordMatchesFrame` (`ListedIsServed`),
`CategoryIsBound` (`CategoryShown`) and `OnePictureADay` (`StableWithinDay`). `IInv` is
`FilesAgree` (frame and record agree but for a crash, or the rendering that is between
them) and, as long as no other segment became current on the way: `OnKey` (the key of the
request is still that of the current segment, and what was judged fresh is there),
`OfCategory` (also what is being rendered is of the category its key names) and `Outdated`
(what is being rendered without the owner's hand replaces the picture of an earlier day,
whatever happens to the clock meanwhile). That a category with few enough photos has one
to choose is `CategoryHasCandidates`: a file is in its query unless `ListLimit` rows are
better.

`PictureProofs` on the cards: `CardsAreCurrent` (`CurrentCard`), `OriginalsFollow`
(`ServedHasItsOriginal`) and `DayIsSteady` (`SteadyAllDay`). A file's name is fixed when a
drawing begins and its content when it ends, with a day, a style and a place that may
differ. `Timely`, `OnePlace` and `Heeds` say how far what is being drawn can be from its
name; `MonthsRight` and `CardsRight` that each file a request would take is whole and of
what its name says, or has the later day of a drawing over midnight, with its own original
unless that could not be saved; `OneFile` that a name has one file; `OneQuote` and
`OneDesign` that a day has one sentence and, while nobody changes the style, one design, as
far as they are on disk, and that a card whose answers were kept shows those. What concerns
the style of a card holds while no style is changed during a drawing (`crossed`), as in the
property.

`PictureProofs` on the conversion, for any palettes, colours and size of the panel.
`PackedIsPainted`: what is packed passes all checks, and the two driver chips paint the
inks that went in. `PhotoIsRight` (`PhotoFindsInks`), `PreviewsAreFaithful`
(`PreviewIsThePush`), `NothingRefusedLater` (`AcceptedIsShown`) and
`PanelShowsTheConversion` say where frames, previews and photographs come from.
`CalibrationIInv` is `Colouring` (palettes and bias are ones that somebody chose),
`Accepted`, `Photographed` and `Previewed`, one for each way through the server;
`Traced` adds that the frame in store and what the panel shows have the same history.
They rest on the loops of `InkMix` giving one ink for each pixel (`DitheredToInks`), for
which every minimum on the way must be one of a set that is not empty. `BiasSparesTheMixable`
(`MixableIsUntouched`, the first half of `BiasOnlyDeepens`) is geometry: a colour that is
inside a tetrahedron of four inks (`Barycentric`) is inside every facet of their hull
(`Inward`, `GamutIsInside`), so the code, which tests the facets only, asks for no pair
of inks and no bias.

Four theorems say what the conversion does with a colour the inks cannot mix.
`PlanIsNearest`: the pair and its parts are, to one part in 1024 of a squared distance,
nearer to the middle of the colour's cell than any parts of any other pair with a
coloured ink. The distance from a mixture is a quadratic form of the parts (`OffIs`); its
least value lies at an end (`AtAnEnd`) or where the code's projection puts it
(`InBetween`), the fixed point of `res` loses less than one part (`InWholes`), and the best of
the pairs is no farther than any (`BestPairIsAPair`, `LeavesLess`). `PanelKeepsToPlans`: on
the panel each such pixel has the ink it all but is or one of its plan's two, whatever
error was left to it (`DitheredKeepsTo` follows the loop, `Traced` the way to the panel).
`BiasRaisesTheShare`: the share grows with the bias, from the faithful one to all at most.
`BiasOnlyColours`: with the same error left to it a pixel changes under a stronger bias
from black or white to a coloured ink only. Both clampings and the rounding keep the order
in each channel, and the sign of the axis turns it the right way (`FurtherAlong`).

Loops. `Slots` and `InkMix` write the loops of the code as recursive functions. The
library's induction theorems take a predicate as a parameter, which the backends
cannot instantiate; the proofs use a set and its least member instead
(`LeastNat`, `UpTo`), and `LoopRuns` turns the definition of such a function into
its first value and its step.

Model-checked only. Liveness (`NewContentIsShown`, `PushArrives`, `PortalOpensAwake`,
`UpdateArrives`, `LonelyStartRuns`, `PlaceTakesEffect`) needs ENABLED, which the
provers do not support. `NearestMixture` and the second half of `BiasOnlyDeepens` (that a
bias takes no coloured pixel away) are about how often each ink is chosen in a whole
picture. The choice of the inks, their shares and the effect of the bias on one pixel are
proved (above); that the diffused errors then add up to the shares is not. It depends
on the roundings, on what the clamping takes from an error and on the errors lost at the
edges, which the colours and the tolerance of the run's instance bound and nothing in the
code does. A stronger bias also changes the errors that later pixels get, so that
`BiasOnlyColours` does not add up to a count over the picture either.

## Abstractions

- Frames, photos, configurations, names and captions are model values; a photo is
  its content, for which size and modification time stand as they do for rsync. A
  frame whose header does not fit the panel is a member of `Misfit` in `FrameLoop`;
  the header's checks are in `Fps6`.
- A name and a password are told apart only by the configuration they come from.
- In `DailyPick` the choice among the photos it may fall on is any of them (the weights
  are left out), memory scores differ (`Rank`), and a new analysis leaves their order as it
  is. Each read of clock and schedule is a step; what lies between two of them is one
  instant or one saved schedule at most, and either may happen at every read and between
  all other steps.
- A day has `Day` instants instead of 1440 minutes; the algorithms only compare
  instants.
- A channel in `InkMix` has steps of four levels, and `Sub` parts of a step stand for
  the code's floating point; the panel is 8 by 12 instead of 1200 by 1600, its
  algorithms being per pixel and per row.
- In `Library` a path is a folder, a name and one of three forms; the text of the path,
  and with it `rename_category`'s replacing of a folder's name in a path that contains it
  twice, is left out.
- In `Settings` a folder request that fails in the database leaves the rows of the old
  folder as they were or without it, for the transaction it leaves open; the remote and
  local halves of a renaming that come apart are `Mirrored`. A rewriting of bindings that
  was itself overtaken counts as written last, as any save does.
- In `SyncLock` a launch's name is its process id, which no other program takes over.
- In `Cards` writes may fail, reads and the deletion of pruned files do not, and a drawing
  without its services is a drawing with their fall-back.
- For six inks that all lie on one plane `HullFacets` gives both of its sides, where
  `epd_image.py:333` gives one; the palettes of the run and of the code are none of these.

## Not modelled

- The station's retry counter (`wifi_app.c:36`), the button's debouncing, and the
  drift of the RTC timer.
- `--delete` and `--dry-run` of `sync_nas.sh`, its file filters, and the expiry of the
  trash.
- The weights of the choice, captions, and what the language model says of a photo.
- OKLab distances, the path without dithering, scaling, cropping and text of
  `epd_image.py`: numerical, without state.
- Drawing of the cards, holidays, the search for a city, and the external services
  behind them: what matters of their answers is that they differ or fail.
- Packets and encryption of ESPTouch; register contents and SPI transfers of the panel.
- The web console, one-shot tools (`rerender`), installation scripts and the
  tests on the host.

What would come next: packets and timing of ESPTouch, and the file filters of
`sync_nas.sh`. A composition of `Content` with `FrameLoop` would
show nothing new: `FrameLoop` lets its server change at any time, so every server
implements it, and what the panel shows is already one of the frames that were offered.
