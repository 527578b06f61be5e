# VisionPilot: specifications and proofs

VisionPilot takes pictures from a camera, a stream, a video file or a directory, localises the
vehicle in them, detects objects on a second thread and draws the result. It is built on `gaia`, a
library of stores (a cache, a key database, directories, archives), of values (positions, clocks,
octet strings) and of a database of zones. This directory models both: *which* picture is processed
*when and by whom*, with the threads, the queue, the hand-over slot and the life cycles around them;
what each store keeps for its clients when calls fail, interleave or are cut short; and what each
algorithm computes, against a definition of what it should. Paths below are relative to
`src/vision_pilot/`.

```
 VideoLoader ──push──▶ EventQueue ◀──empty/pop── EventRouter ──onFrameReceived──▶ VisionPilotService
 (worker thread)       (max_size_,               (worker thread,                   (called on the router's thread)
                        drops the oldest)         polls every 10 ms)                  │ latest_frame_ (slot of one)
                                                                                      ▼
             LocalizationPort.update ◀── router's thread          ObjectDetectionPort.detectObject ◀── detection thread
             VisualizationPort.render ◀── router's thread, with the latest_results_ the detection thread stored

 shapefile ──ReadMetaData/ReadPolygon──▶ builder.cpp ──bytes of a file──▶ zonedetect.c ◀──ZDLookup── gaia_geography.cpp
```

## 1. Inventory

| component | state | operations | talks to | hard behaviour | what makes it correct |
|---|---|---|---|---|---|
| **EventQueue** `infrastructure/event/include/event_queue.hpp` | `queue_`, `max_size_`, a mutex, a condition variable | `push`, `pop` (blocks), `empty` | producers, consumers | overflow in the middle of a read; one notify per push; several consumers; spurious wakeups | exactly the newest events in order; loss only of what `max_size_` newer ones displaced; no consumer asleep beside an event |
| **EventRouter** `infrastructure/event/src/event_router.cpp` | `running_`, `worker_thread_` | `start`, `stop`, `run` | EventQueue, `FrameReceiveUseCase` | `empty()` and `pop()` lock separately; throwing handlers; restart | pop after a non-empty poll never blocks; order; the worker survives; `stop` returns and is final |
| **VideoLoader** `adapter/in/frame_loader/src/video_loader_impl.cpp` | `running_`, `worker_thread_`, `frame_id_`, `video_capture_` | `start`, `stop`, one loop per source type | EventQueue | restart; start without stop; reads that fail for ever | ids never repeat; `stop` returns and is final; the worker ends only when done |
| **VisionPilotService** `application/service/src/vision_pilot_service_impl.cpp` | `is_running_`, `latest_frame_`, `new_frame_available_`, `latest_results_`, `data_mutex_`, `detection_cv_` | constructor, `onFrameReceived`, `detectionLoop`, destructor | three out ports | lost notification; overwrite while detecting; throwing ports; destructor joins a sleeping thread; order of destruction | no missed wakeup; the flag is exact; what is drawn only moves forward; calls and the destructor return |
| VSLAM adapters `adapter/out/vslam_adapter/src` | the SLAM system, `is_initialized_` | `initialize`, `update`, `stop` | service (`LocalizationPort`) | unbounded wait while a loop bundle adjustment runs; startup that throws; second shutdown; re-initialisation | only a running system is fed; the mono adapter lets no running system go |
| Object detection adapter `adapter/out/object_detection_adapter/src` | the network | `initialize`, `detectObject`, `deinitialize` | service (`ObjectDetectionPort`) | letterbox, rounding and clamping; three parallel vectors | boxes lie inside the picture and where the object is; a detection never mixes two anchors |
| Viewers, domain model | a window; plain data | `start`, `render`, `stop`; constructors | service; everyone | none | not stated |
| main, configuration, assembly, log `main.cpp`, `config`, `assembly`, `gaia/src/gaia_log.cpp` | the path, the level, the logger and the global pointer to it | `parseArgs`, `loadConfig`, `startService` (a stub), `logInit`, `logDeinit` | each other | options that miss their value; the log set up again or half-way | given arguments, starts as the usage says; nothing a sink wants is hidden |
| LruCache `gaia/include/gaia_lru_cache.hpp` | `cache_`, `usage_`, `max_size_` | `put`, `get`, `remove`, `clear` | clients | a reference that outlives the lock; list and map in step | implements an abstract least-recently-used map |
| KeyDB `gaia/src/gaia_key_db.cpp` | `key_id_set_`, a LevelDB database | `inst`, `reset`, `open`, `getNewKeyId*`, `putValue`, `delValue`, ... | clients | test and insertion of an id are not one step; restart; failing deletes | an id in use is never handed out again; a deleted one is free again |
| directories `gaia/src/gaia_dir.cpp` | the file system | `readDir*`, `makeDir*`, `makePath`, `removeDir`, `loadFile`, `saveFile` | the operating system, other processes | what another process does between two system calls; links; hidden entries; failure half-way | nothing beside the directory is removed; what a call says of itself is so |
| DirMan `gaia/src/gaia_dir_man.cpp` | a list of files read earlier, numbered or not | `isIValFile`, `allIValFiles`, `minMaxI`, `remove`, ... | the file system | a listing that is stale; names in other cases; numbers at the ends of their range | numbers and the names made of them are the same files |
| ZipManager `gaia/src/gaia_zip_manager.cpp` | names and contents | `addFile`, `removeFile`, `save*`, `load*` | miniz | stops at the first failing entry, or passes over one; directories as entries | nothing loads that was not saved, and a load that succeeds lacks only what it has passed over |
| geography `gaia/src/gaia_geography.cpp` | none | inside tests of polygons, rectangles and circles, countries | ZoneDetect | meridians through corners and along borders; touching and notched shapes | what is reported inside is inside |
| time `gaia/src/gaia_time.cpp` | base time, leap seconds | clocks of 32 and 64 bits, `setBaseTime`, `setLeapSec` | the system's clock | narrowing, epochs, both ends of the range | the clocks tell one time; it does not go back |
| octet strings, texts `gaia/src/gaia_octstr.cpp`, `gaia_string_util.cpp` | none | codings, edits, shifts, xor, orders, hash, split, trim | clients | incomplete groups, shifts by whole octets, prefixes | codings are undone, shifts move the number |
| ZoneDetect `gaia/ZoneDetect` | the database file; the open library | builder: read, sort, encode, write; library: open, look up, walk, name, close | shapefiles; geography | borders written once and referred to backwards; boxes sorted for an early end; files cut short; two formats | the bytes give back the zones that went in |
| small_vector, exceptions, macros | - | - | - | - | not modelled |

The complete list with what is left out of each part is in `PROJECT.json` under `components`; the
behaviours that are hard to test, each at its line, are under `hazards`.

## 2. Modules

| module | models | state and actions |
|---|---|---|
| `LossyChannel` | the abstract promise of both hand-over points | `sent`, `pending`, `got`, `open`; `Send` (may lose the oldest, only when `Capacity` newer remain), `Deliver` (the oldest), `Close` |
| `BoundedFifo` | the value of `queue_` under `push` | `PushTo`, used by every module that calls the queue |
| `EventQueue` | `event_queue.hpp` | `Push`, `Pop(c)`, `Resume(c)`, `SpuriousWakeup(c)`; a consumer is outside, in `waiting` (inside `cv_.wait`) or in `woken` (notified, without the mutex) |
| `EventRouter` | `event_router.cpp` | worker: `Loop`, `Poll` (`empty()`), `Pop`, `DispatchImage`/`DispatchOther`, `HandlerReturns`/`HandlerThrows`; owner: `Start`, `Stop`, `StopReturns`; producer: `Arrive` |
| `VideoLoader` | `video_loader_impl.cpp` | worker: `BeginStream`/`BeginFrameSet`, `Loop`, `Capture`, `ReadFails`; owner: `Start`, `StartAgain` (start without stop), `Stop`, `StopReturns`; reader: `Take` |
| `VisionPilotService` | `vision_pilot_service_impl.cpp` | caller: `Call`, `Update`, `CallThrows`, `Publish`, `NotifyOne`, `CopyResults`, `Render`; detection thread: `TestRunning`, `Acquire`, `PredicateFails`, `Block`, `SpuriousWakeup`, `SeeStop`, `TakeFrame`, `Detect`/`DetectThrows`, `StoreResults`; owner: `DestroySetsFlags`, `DestroyNotifies`, `DestroyJoins`, `DestroyAdapters` |
| `VisionPipeline` | the four together | `INSTANCE`s of the loader, the router and the service on one `queue_`; the router's `HandlerReturns`/`HandlerThrows` is the service's `Render`/`CallThrows`; one owner thread |
| `LoaderAndRouter` | the loader and the router, each on a queue of its own | `INSTANCE`s of both with their assumptions, and what the run and the proofs say of them |
| `VslamAdapter` | `mono_vslam_adapter_impl.cpp`, `stereo_vslam_adapter_impl.cpp` | `InitializeSystem`, `StartupThrows`, `Update`, `UpdateReturns`, `StopMono`, `StopStereo`, `Destroy`; `systems` lists every SLAM system created and whether it runs |
| `ObjectDetector` | `yolov8_adapter_impl.cpp` | `LoadNetwork`, `DropNetwork`, `Begin` (letterbox), `AnchorRow` (one row of the output: best class, restoration, clamping), `Return` (suppression), `DetectNothing` |
| `RecencyMap` | the abstract promise of the cache | `content`, `older`; `Put`, `Get`, `Forget` of a map that drops the least recently used key |
| `LruCache` | `gaia_lru_cache.hpp` | `PutExisting`, `PutNew`, `GetHit`, `GetMiss`, `Remove`, `Clear`; `usage_` is a sequence of nodes with addresses, an iterator is an address; `ref` is the reference one client keeps |
| `KeyDB` | `gaia_key_db.cpp` | `Open`, `OpenFails`, `Reset` (also a crash); per thread `DrawRandom`, `BeginScan`, `ScanUsed`, `ScanFree`, `ScanEnds`, `Insert`, `PutValue`, `DelValue`, `DelValueFails` |
| `KeyTable` | `gaia_key_db.cpp` | the database as an ordered `table` of texts; `Put`, `OverWrite`, `Get`, `GetStatus`, `Del`, `Seek`, `SeekUntil`, `SeekRange`, `SeekPrefix`, `GetPrefix`, `Open` (the ids read back), `PutValue`, `GetValue`, `DelValue`, `ContainsKey`, each of which may meet an error |
| `Directories` | `gaia_dir.cpp` | `entries` (path to kind), a stack of frames per process; `Call`, and `Step` for every system call of every function, each of which may fail |
| `DirMan` | `gaia_dir_man.cpp` | `present` (on disk), `files` and `values` (as read); one action per question, `RemoveIVal`, and `Elsewhere` for what other programs do |
| `ZipManager` | `gaia_zip_manager.cpp` | `archive_`, the zip file on disk, a `job` in progress; `AddFile`, `RemoveFile`, `Clear`, `SaveToFile`/`SaveToMem`, `WriteFile`, `WriteFails`, `Finalize`, `LoadFromFile`/`LoadFromMem`, `ReadFile`, `SkipEntry` (passes over one), `ReadFails`, `ReadAll` |
| `Stores` | the five stores above, each by itself | `INSTANCE`s with the assumptions on their constants, and what the run and the proofs say of them |
| `Geography` | `gaia_geography.cpp` | pure operators, asked by `AskInside`, `AskPolygon`, `AskRectangle`, `AskCircle`, `AskCountry`, `AskCode` |
| `Clock` | `gaia_time.cpp` | the clock that runs (`Tick`), `ReadTime32`, `ReadTime64`, `SetBaseTime`, `SetLeapSec` |
| `Octets` | `gaia_octstr.cpp`, `gaia_string_util.cpp` | pure operators; each call a step that records its result |
| `Startup` | `main.cpp`, `config_loader.cpp`, `assembly_impl.cpp`, `gaia_log.cpp` | `Parse` (its loop is `Round` by `Round`), `LogInitFromMain`, `LoadConfig`, `StartService`, `Logging` |
| `StringsClockAndStartup` | octet strings, the clock, and main with its log, each by itself | `INSTANCE`s, assumptions and properties as in `Stores` |
| `ZoneBytes` | numbers, points and strings of the file format | `Digits`, `DecodedAt`, `DecodedBefore`, `PointKey`, `PointOf`, `StringAt`: both sides of each coding |
| `ZoneBuilder` | `database/builder/builder.cpp` | `ReadMetaData`, `ReadPolygon`, `ReadOrigin`, `SortPolygons`, `EncodePolygon`, `EncodeRecord`, `Write` |
| `ZoneDetect` | `library/zonedetect.c` | `OpenDatabase`, `CloseDatabase`, and a lookup box by box: `BeginLookup`, `SkipBox`, `TestPolygon`, `LeaveBoxes`, `CleanUp`, `Return`, `FreeResults`; `RECURSIVE` operators read the polygons |
| `Zones` | both, on one file | the builder's `file`, or a beginning of it (`Open`), is what the library reads |
| `CommonLemmas` | - | what the proofs share: smallest elements, induction over a set of numbers, sequences of values given step by step, the queue under `push` |
| `Components_proofs` (the queue, the adapters, the clock, the start and octet strings), `LoaderAndRouter_proofs`, `VisionPilotService_proofs`, `VisionPipeline_proofs`, `Stores_proofs`, `Directories_proofs`, `Geography_proofs` | the theorems | section 5 |
| `MCComponents`, `MCStores`, `MCValues`, `MCZones` | instances for TLC | a variable `part` says which of several independent modules runs in a behaviour; constants, symmetry, and properties that are conjunctions of those of the modules |

Conventions. A critical section that neither waits nor calls out is one action; a section around a
`wait` is split where the thread can be overtaken (test of the predicate, falling asleep, waking
up, retaking the mutex); a system call, and one entry of an archive, is one action. A program counter
(`worker`, `detector`, `caller`, `owner`) says where a thread is; `"joining"` is inside
`std::thread::join`. Pictures, poses and detections are the frame id they belong to. Variables keep the
names of the source (`queue_`, `running_`, `latest_frame_`); where modules are put together they are
renamed by `INSTANCE ... WITH` (the loader's with a prefix `l`, the router's with `r`). Definitions
whose comment begins "Mutant of" are the plausible bugs with which each property is tested: the
property must fail when the mutant takes the place of the definition. Operators that are only helpers
of one larger one pass intermediate values as parameters where TLA+ might have used `LET`, which keeps
TLC's own bookkeeping of definitions small.

Undefined behaviour and `std::terminate` are ends of the process: `alive` (loader) becomes false on a
start without stop, `detector = "terminated"` on an exception that leaves the detection thread.

## 3. What the runs check

| run | question | result |
|---|---|---|
| `components` | the queue, the loader, the router, the detector and the SLAM adapters, each by itself: what the queue holds, may lose and whom it wakes (refinement of `LossyChannel`); `StopIsSafe` (no worker is left after `stop` of loader or router, and a pop after a poll never blocks); `LoaderOffersAll` (numbering across restarts, and no worker gives up early); boxes in the picture and where the object is; no detection of two anchors; no system fed that does not run | holds |
| `service` | missed wakeups, exactness of the flag, order of what is drawn, refinement of `LossyChannel` with capacity 1, starvation of the caller, the destructor, when the owner destroys the service first | holds |
| `service_adapters_first` | the tear-down order of `test_vp_service.cpp:77-84` | **violated**: the detection thread can be inside a destroyed detector |
| `pipeline` | end to end: order through restarts, calls into a destroyed service, starts without stop, progress of frames and of the owner's calls, with the owner starting, stopping and destroying in any legal order | holds |
| `stores` | the cache (map and list in step, refinement of `RecencyMap`, how long a returned reference lives); ids across crashes, resets and refused deletes; readings of the key table, with errors, and the ids found in it; what two processes do to each other's directories; archives saved and loaded with failures half-way and entries passed over; numbered files | holds |
| `key_db_threads` | the same id for two threads (`gaia_key_db.hpp:67`) | **violated** |
| `key_db_failed_delete` | a stored key whose id is no longer reserved (`gaia_key_db.hpp:67`) | **violated** |
| `values` | inside tests against even-odd counting and against each other, clocks against one time line, codings and shifts against numbers, arguments against the usage text (but for none at all, section 4), log levels | holds |
| `geography_inside` | a position on the latitude of a border along a parallel (`gaia_geography.cpp:210`) | **violated** |
| `octets_right_shift` | a right shift by an octet or more (`test_octstr.cpp:773`) | **violated** |
| `zones` | from shapefile through bytes to answers, in both versions of the format: no part of a file opens as a database, polygons read back as drawn but for corners that are each all but straight, lookups find just the right zones, where no corner may have been dropped, and name them | holds |
| `zones_fine_corners` | a position inside a zone on whose border a long step follows one of a unit (`builder.cpp:231`, `ZoneDetect/README.md:3`) | **violated**: it is in no zone |

### Bounds, and why they suffice

*components.* Queue: three places, seven pushes, three interchangeable consumers: it overflows from every
filling, and a consumer can be overtaken by one that never slept while a third sleeps. Loader: two places, five
frames, frame sets of 0, 1 and 3 pictures; with five frames a stream overflows, is stopped and continues.
Router: two places and four events of two types, so that a push can drop the front between poll and
pop twice. Detector: an input of 6 by 4, pictures whose sides are 2, 5, 7 and 13 (smaller and larger
than the input, both ratios, odd paddings, scales that are no whole number) and extents inside, across
and outside the edges; two anchors show every case of suppression and of a candidate beside a
rejected row. VSLAM: five systems, so that a failed startup, a stop, a second initialisation
and another failure fit into one behaviour.

*service, pipeline.* Four frames, so that one can be drawn, one detected, one waiting in the slot and one
being published. The pipeline has two places, three frames and one kind of stream. The bounds on frames
and pushes (`MaxPushes`, `MaxEvents`, `MaxFrames`) only end the behaviours: no property depends on them.

*stores.* Cache: four keys on three places, so that evictions happen between all other operations. KeyDB: a
range of two ids and three random ids (`Half` = 3 in place of 2^31), which fill up, are deleted from and
fill again. Its table: keys of two ids, of one digit and of two so that the order of texts is not that of numbers,
a client's key that reads as an id, one under the prefix that does not, and one behind; limits of 0, 1 and 2.
Directories: two processes with one call each at a time, from 66 trees of a directory with a file, a hidden file and a
subdirectory, file or link in it, beside one that links lead to and that may hold a directory of its own; calls on
paths of one to three names, those that recurse on three, so that `makePath` goes up more than once and two of them
meet on the way. Archive: a file
beside one in a directory, empty and not; that a name which miniz takes for a directory is lost too is left to the theorem. Numbers: two digits, with 0, 10 and 255 at and between the ends, and
names that differ from a number's file in case, digits or extension. Keys, and values, are
interchangeable; the properties of this run are safety properties, for which symmetry is sound.

*values.* Every simple polygon of three or four corners on a lattice of 3 by 3, with some of five that have
notches, around which every position on and beside the lattice is asked; circles of four radii; a world of
four countries, one with a hole and an enclave. Clocks have words of 16 values and run past the end of them.
Octets have 4 bits, so that a digit of base 64 has 3 and incomplete groups of every length occur within five
characters; edits are asked at, in front of and behind the ends, with counts up to all there is.
Texts are trimmed and split by no, one and two characters; one of the two letters is whitespace. The prime of the
hash is what is left of it in a word of 16 bits. Arguments: every list of up to two, and lists of three and four with the words that matter.

*zones.* Two zones on a border that bends in every way, rings that start at different corners, a hole with an
enclave and an island, a third zone on the border of two, countries with unknown codes, and what the builder
refuses; two zones on a border whose corners are a unit or a few apart, with a long step behind some; 62 positions at corners, on borders, beside them and away from them. The file is opened at every
length. A digit has 7 bits, as in the code, and coordinates reach ±131, so that numbers have one and two
(points three) bytes; `PointBits` = 10 is wide enough for them. Four rings show a reference into a ring
that itself follows a reference.

### Fairness and deadlock

Every thread is scheduled (weak fairness of its steps), and every port call returns or
throws. Acquiring `data_mutex_` from the caller's side is strongly fair: a `std::mutex` is not fair, but a
caller that finds the mutex free again and again gets it; without this a detection thread that the
operating system keeps waking spuriously could starve it for ever. Nothing is assumed about how often
frames come, whether a read succeeds, whether the owner ever calls `stop` or destroys anything, or
about spurious wakeups.

Deadlock is checked in `components`, `service`, `pipeline` and the runs of the key database alone. The
states in which those systems may stop are explicit: a terminated process, a service whose owner has
destroyed everything, and a destroyed VSLAM adapter. In `stores`, `values` and `zones` it is not: there a
program makes its calls and is done.

## 4. Findings

* `service_adapters_first` (`application/service/gtest/test_vp_service.cpp:79`, and the same order in
  `test_vp_service_stereo.cpp:83-89`): the fixture destroys the adapters before the service. The service
  holds references to them and its thread is joined only in its destructor, so the thread may call
  `detectObject` of a destroyed object. `test_vp_service_detection.cpp:64-70` has the order that
  the theorem `ServiceFirstIsSafe` proves to be sufficient.
* `key_db_threads` (`gaia/src/gaia_key_db.cpp:288`, also `:268`): the id is looked up outside the mutex
  and inserted under it without a second test, so two threads can be given the same id, which
  `gaia_key_db.hpp:67` says the set is there to prevent.
* `key_db_failed_delete` (`gaia_key_db.cpp:343`): `delValue` forgets the id before the database has agreed
  to delete the key; when it refuses, the key is stored and its id is given out again.
* `zones_fine_corners` (`gaia/ZoneDetect/database/builder/builder.cpp:252`): `sameDirection` compares directions by
  an integer division that drops its rest, so after a step of (1, 0) every step whose longitude changes by less than
  its latitude is taken to go on in the same direction, and the corner is dropped. A corner is dropped only where the line
  through it and the next one passes the one before by less than a unit (`ReadsBackAsDrawn`), but the next one
  may lie at any distance: in the run a border is moved by up to 26 units, and a position more than 10 units inside a zone is
  in none, as the neighbour's border is written in the other direction and kept.
* `geography_inside` (`gaia/src/gaia_geography.cpp:206`): a border along a parallel reports every position on its
  latitude as inside, however far away; the comment at `:210` means positions outside the segment not to meet it.
  In the trace (0,-1) is inside the triangle (0,0), (0,1), (1,0). The property leaves the other cases aside in which
  the test by crossings of the meridian is wrong (below).
* `octets_right_shift` (`gaia/src/gaia_octstr.cpp:396`): `operator>>` drops the octets at the front, as
  `operator<<` rightly does, in place of those at the end: `0x0102 >> 8` is `0x0002`. `test_octstr.cpp:773`
  shifts by less than an octet only.

Met while reading, without a run:

* Frame path. `event.hpp:37` documents the timestamp in milliseconds while the loader stores microseconds;
  `event_router.cpp:48` says that the router blocks until there is data while it polls; the branch at
  `vision_pilot_service_impl.cpp:81-84` is unreachable (`FlagMeansUntakenFrame`).
* VSLAM. `stop()` of the stereo adapter does not shut its system down, so an `initialize` after it lets a
  running system go; the destructor of the mono adapter shuts a stopped system down a second time.
* KeyDB. `gaia_key_db.cpp:259-262` means to fix the two high bits of a random id, but `|= 0UL << 30` clears
  nothing, so bit 30 stays random (the model draws it so); the first path wins for the life of the process, also
  after a failed open, when `inst` returns an instance without a database. `get` with a status sets an error down as
  -1 and two lines on as found (`:165-167`); `overWrite` asks after neither half, so a key can be gone without a
  word; an iterator that meets an error ends a reading as its last key does, also that of the ids in `open`.
* Octet strings. `erase(first, last)` leaves the octet in front of `last` (`gaia_octstr.cpp:228`), as its test
  expects, so a range of one octet erases nothing and an empty range is undefined.
* main and log. The usage brackets every argument (`main.cpp:29`), but the program called without any prints it
  and ends with 1 (`:50-54`); `StartsAsTold` is stated for calls with arguments. The usage text offers `off` as a level (`main.cpp:32`), which `stringToLevel` does not know; a
  value of `-c` that is the word of a level sets the level of the log; the path the usage names as the default is
  not the one the code has; `loadConfig` always succeeds; `logInit` drops the old logger while the global
  pointer still leads to it until the new one is made, and one that fails has already lowered the level.
* Directories. Hidden entries are not listed, so `removeDir` fails at the end on a directory that holds one; a link
  to a directory is followed like a directory; `makePath` is content with a file in the way, and one of three names or more may return false,
  with only a part of the path made, when another program makes a directory on the way between its `mkdir` that met
  ENOENT and that of the directory above (`gaia_dir.cpp:187-217`); `saveFile` truncates before it writes. DirMan finds names in other cases than it makes; the highest number wraps. A load or save of an
  archive that fails half-way leaves the part it has done; a load passes over an entry of which miniz can tell
  nothing and still returns true (`gaia_zip_manager.cpp:237-240`), so that a file can be missing without an error; it asks
  for the data by name (`:248`), which miniz looks up without regard to capitals: of two names that differ in them
  only, one may get the other's data (no such names are in the model).
* Geography and ZoneDetect. The fast test of a country is not conservative off the equator; a hole is
  subtracted only where its box meets the centre; polygon 0 reads as "not found"; borders along a meridian are never
  met by `lineInPolygon`, and `size() - 3` wraps for less than three corners. The test by crossings of the meridian
  is also wrong where a corner only divides a border along a meridian, and where a corner or the position lies at the
  pole, at which the meridian that is followed ends (`Sound` leaves these cases out).
* ZoneDetect, version 0. Two more numbers are read to close a polygon (`zonedetect.c:526`), although "the closing point
  is not encoded" (`:547`). Behind the last polygon of the file there are none, so it cannot be read, the lookup breaks off and
  its zone is never found; other polygons borrow them from the next one, which does no harm. `ReadsBackAsDrawn` and
  `FindsAndNamesZones` leave the last polygon of version 0 out.
* Time. `getTime64` narrows its seconds and `stringToTime64` returns 32 bits; the gap of the epochs is an `int`.

## 5. What is proved

Proved by TLAPS for **every** value of the constants, from the named assumptions only. These say that a queue or a
cache has a place at least (`MaxSizeAssumption`, `QueueSizeAssumption`), that there are finitely many consumers, that
the bounds on frames, events and pushes, which only end TLC's search, are numbers, that pictures and the network's input
have positive sides (`InputAssumption`, `SizesAssumption`; scores, counts and the extents of objects are numbers),
and what kind of thing the arguments of calls are: texts are sequences of characters and ids have a width
(`TableAssumption`), names have a part at least (`NamesAssumption`), paths are not empty, a tree is finite, its entries lie in
directories and nothing on the way to where links lead is a link (`TreesAssumption`), numbers of files have a width (`FilesAssumption`), a range of ids is one of numbers
(`RangeAssumption`), the clock counts numbers (`ClockAssumption`), arguments are texts (`ArgsAssumption`), an octet has bits that four divides
and a machine word holds two octets, and the hash multiplies by an odd number (`WidthsAssumption`), calls of octet strings get octets and places, a number is made of as many octets as it
needs, and of two iterators the first is in front of the last (`CallsAssumption`), and positions are whole numbers of units
(`GeographyAssumption`, which says nothing of where they lie: the cases in which the code is wrong are the hypotheses `Sound` and
`Boxed` of the properties themselves).

### The way of a frame

*EventQueue.* The inductive invariant is `TypeOK /\ Queued /\ OnlyStaleEventsLost /\ NoLostWakeup`.
`Queued` says by index that the queue holds the newest `Len(queue_)` numbers; `NewestForm` shows it
equivalent to `QueueIsNewestSuffix`. It is what makes the content an interval, and
intervals turn "lost" and "displaced" into arithmetic: a push onto a full queue loses exactly the event
`pushed - MaxSize + 1`. `NoLostWakeup` needs the counting of notified consumers: a push adds one event and, if
anybody sleeps, one notified consumer; a consumer that comes back takes one of each. Theorems:
`TypeCorrect`, `HoldsNewest`, `LosesOnlyStale`, `WakesEnough`, and `Implements`: every step maps to `Send`,
`Deliver` or a stutter of `LossyChannel`.

*VideoLoader and EventRouter.* `LoaderInv` adds to what is checked that the queue ends with the frame numbered last, and
that a frame set's worker captures only while a picture is left (`FramesLeft`), so the count never passes 0.
`RouterInv` adds that the event in hand is older than all that are queued. That a pop after a poll never blocks
needs no more than that only the worker takes: an overflow replaces what it drops. Theorems: `StopsSafely`, `OffersAll`.

*VisionPilotService.* None of the checked invariants is inductive alone. `Locking` says who holds
`data_mutex_`, which is what keeps a publisher out of the window between the detector's test and its sleep;
`Numbers` orders the frame numbers along their way (drawn ≤ copied ≤ stored ≤ taken ≤ published ≤
received); `Lifetimes` orders the thread, the service and the adapters. Theorems: `TypeCorrect`,
`WakesForWork`, `FlagIsExact`, `ServiceFirstIsSafe`, `RendersForward` and `Implements` (the slot is a lossy
channel of capacity one).

*VisionPipeline.* `UsesComponentsAsSpecified` shows that a behaviour of the composition is one of the loader, of the
router and of the service by itself, so that their invariants hold in it without being proved
again (`ComponentsStaySafe`, `ServiceKeepsItsWord`). What is new is between them: `OwnerKnows` (what the owner has started and
not stopped is what may run) and `OneCall` (the service is in `onFrameReceived` exactly while the router's thread
handles an event, with the frame taken last). Theorems: `DestructionIsSafe`, `PairedStartsNeverTerminate`,
`DetectsInOrder`, and `Implements`: from the capture to the handler, through two threads and the queue, there is one
`LossyChannel`.

*VslamAdapter.* `FedSystemRuns` and `NoRunningSystemLost` are inductive once `LoweredMeansStopped` joins them: a
lowered flag of the mono adapter means that the system it holds does not run, which is what makes it safe
to replace it. Theorems: `FeedsOnlyRunning`, `LosesNoRunningSystem`.

*ObjectDetector.* `ClampedInside` is the arithmetic of lines 260 to 263: whatever integers come out of the letterbox,
cutting first the corner and then the length leaves a non-empty part of the picture (`BoxesStayInside`).
`RestoresEveryObject` bounds what rounding the scaled side, halving the padding, truncating the corners and clamping
can do together: half a pixel of the input and one of the picture at each edge (`NearPoint`, `ClampedNear`).
`RowsInv` keeps the three vectors in step, and `BestIsHighest` shows that the scan of a row ends at its best class:
`AlignsDetections`, whatever the suppression returns.

### The stores

*LruCache.* `InStep` says that nodes and entries lead to each other, that no two nodes have the same address, and that
there are as many of one as of the other. Every operation is one of two moves, or one after the
other: `TakenOut` (a key leaves both) and `PutIn` (a key enters both); `FrontEvicted` shows that taking
the front of the list costs exactly its own key. That there is always a fresh address is the pigeonhole principle
(`FreshIdIsFresh`). For the refinement the list is read as the relation `Before`, and `MovedOrder` and `ErasedOrder` say what
becomes of it; `RefInv` counts for a returned reference the keys used since. Theorems: `IteratorsStayValid`,
`NeverTooLarge`, `ForgetsOldest`.

*KeyDB.* `KeyDBInv` (nothing in memory survives a reset or a crash, and a deleted id is free) holds for any number of threads:
`DeletedIdsReturn`. `OneThreadInv` is what only a single thread can rely on: the id it has tested is still free when
it is inserted, and all it has passed over are used. `GivesOneThreadNewIds` therefore takes one thread as a hypothesis;
the run `key_db_threads` shows that with two it is false.

*KeyTable.* The texts are shown to be totally ordered (`PrecedesOrders`), those with a prefix to stand together
(`PrefixStandsTogether`), and the rows to have the ranks 1 to n (`EveryRank`), so that a reading that goes from key to key
until a limit or the end of the prefix misses none. That `stoul` reads back what `to_string` has written
(`IdIsReadBack`) is proved on digits, by the least number for which it would fail. Theorem: `FindsEveryKey`, with errors of
the database in any call.

*ZipManager.* `ZipInv` says of a save in progress that what is written and what is left are the archive, and of a load that
what is read, what is passed over (`skipped`) and what is left are the file. Theorem: `LoadsArchives`: all that is loaded was
saved, and after a success all that is missing was passed over; with the previous one, `StoresGiveBack`.

*Directories.* `RemovesNothingBeside` needs two facts about every call in progress: its frames lie below the directory
it was given (`CallsStayBelow`), and no link is newer than the call (`LinksAreOld`), so that whatever it meets through a
link is one that was there. `FollowedIs` is what the resolution of a path computes, a link at a time.

`DirCallsDoAsTheySay` is about what a call returns, and needs an invariant about every frame of its stack (`WordInv`).
A tree stays `Sound` under every step of every call: entries lie in directories, and no link appears on the way to where
links lead. For a `removeDir` that nobody disturbs (`Removal`), the tree is the one of before less what has been removed, and
one of two things holds. Either a frame has followed a link of the directory (`Lost`): then that link is never removed and
the call must throw. Or nothing beside the directory is gone, and, if the directory holds neither links nor hidden entries,
every frame still expects all there is (`Tidy`): the lists it has read and the frame further in name each entry
of its directory once. So a final `rmdir` that fails has met something awkward, and one that succeeds leaves nothing
(`Ending`). For the calls that make directories, the tree has only grown by directories (`Grown`), so a way that was
free stays free. The frames of `makePath` are the beginnings of its path, one name shorter from frame to frame
(`Climbs`), and each but the last waits to make its own directory once the one above is there; `makeDirRecursive` has made
all the names it has passed. `Made` is what is left of that on return. All of it holds while others only make
directories; that nobody is told false who is alone is the part that needs `undisturbed`.

*DirMan.* `NumberedInv` keeps a listing equal to what is there while nobody touches the directory. The
rest is `makeFilename` and `stoul` being inverse (`NumberIsReadBack`, `NameIsWrittenBack`) in base 16, for every number of
digits. Theorem: `ListsWhatItNames`.

### Geography

The theorems hold for polygons of any number of corners, simple or not. `GeographyInv` is little more than the two properties: every
question is answered by itself. What is proved is geometry, and it rests on two ideas.

*Inside or outside* (`TellsInsideFromOutside`). Two ways of counting borders around a polygon, which differ in just those
that lead from one side of something to its other, differ by an even number, because who walks around a polygon comes back to the side
where he began (`SameParity`). For a meridian that runs through corners, `Turn` is the code's bookkeeping of where it came
from and where it left; `MetIs` and `CrossesIs` say what it has counted after any number of corners, and with `SameParity`
the crossings are odd just when the polygon winds around the position (`InsideIs`). `CutsIs` shows that the comparison of
longitudes in `lineInPolygon` finds the borders that cross properly, except along meridians (`PolygonInsideIs`).

*What is inside stays inside* (`ReportedInsideIsInside`). `Apart` is a line with a border on its one side and two positions
on its other. Such a border does not part the positions: with `SameParity` again, both are inside or both outside of a polygon all of
whose borders are apart from them (`SameCrossings`, `ApartFromAll`). That a circle meets no border gives such a line for
its centre and any position in it, from the distance of a segment (`NearIsApart`), in the local plane and carried from there to the
map (`LocalApart`). For a country the library's safe distance is the least of finitely many fractions (`SafeSquareIs`, by
`LeastFraction`): a circle that fits it meets no border of any polygon of the file (`FitsIsNear`), so a position in the circle
lies in the same polygons as the centre, and in the same country.

### Clock and start

*Clock.* `TellsOneTime`: both clocks come from one number of seconds, narrowed in different places, and `ComesBack` shows that
narrowing is undone wherever the seconds fit. For `MovesForward` the invariant says that what was read is not
ahead of what would be read now (`NotAhead`). Until 2004 the clock of 64 bits stands at its first second and counts
microseconds in it again and again, so in the first second of 2004 it may be behind what it said before, by less than a
second: the invariant is weaker there, and the property speaks of that clock only after it.

*Startup.* `LogInv`: the level that is compared first lies below those of all sinks, of the logger that is in use and of the one
being made. `Parsed` says what is known after any number of rounds of the parser: it has stopped just when
an argument read so far is not as documented; otherwise the next one is skipped just when it is a value, and the path is the
latest. `StartsInv` carries that through `main`, for calls with arguments. Theorem: `StartsAsItsUsageSays`.

### Octet strings

`StringsComeOutRight`: every call is answered by itself (`StepsAnswer`), so what is proved is what the functions compute, for
strings of every length. Six ideas carry it.

*Loops.* Every loop of the code is a function of the number of rounds that is shown to exist, with one lemma that says what a round
does (`...Up`, `...Round`) and an invariant that is carried along it by `UpTo`.

*Digits and numbers.* Octets, digits of base 64 and hexadecimal digits are digits of one number (`NumberIn`). A number has one
row of digits of a given length, a longer row is a multiple and a rest, and rows of one length are in the order of their
numbers; `FromUint` and `compare` follow (`UintIs`, `NumbersCompare`).

*Codings.* The invariant of `base64EncStr` (`Encoding`) says that the octets read are the digits written, as numbers, and the bits that
still wait; that of `base64DecStr` (`Decoding`) is its mirror. The machine word may overflow all the time: only the bits that wait are
used, and an octet or a digit more has room beside them, which is why two octets are assumed to fit. At the end the rest is filled up
with zeros, and both directions follow from uniqueness of the digits (`EncodedReadsBack`, `DecodedWritesBack`). `unhexlify` is followed
digit by digit, with one that waits (`DigitsRead`).

*Shifts.* A shift by fewer bits than an octet has multiplies or divides the number, octet by octet (`ShiftedLeftIs`,
`ShiftedRightIs`); whole octets are a power of the base.

*Orders and the hash.* The first difference of two octets is also the first difference of their digits (`HexlifyKeepsOrder`); exclusive or
is 0 only of equal octets, bit by bit (`XorIs`). A round of the hash changes different states into different ones,
because an odd factor can be undone modulo a power of two (`OddFactor`): so strings with one different octet never meet again
(`HashTells`).

*Parts.* `SplitRight` says of a round that what was cut off, joined, and the rest are the text, and that no part has the delimiter in it;
at the end none is left to be found (`SplitIs`). `trim` is the stretch between the first and the last character to keep (`TrimIs`), where `ToTrim` puts whitespace in place of an
empty list of characters.

### What is not

Recursive functions are proved about by showing that a function that goes from step to step exists (`Iterated` in
`CommonLemmas`) and by `UpTo`, which is induction over the members of a set; the library's induction theorems take an
operator as a parameter, which the provers at hand cannot instantiate. Model-checked only are

* the liveness properties: TLAPS handles neither fairness nor `ENABLED`;
* ZoneDetect (`OnlyWholeFilesOpen`, `ReadsBackAsDrawn`, `FindsAndNamesZones`): the library reads polygons with
  `RECURSIVE` operators, for which the prover has no SMT backend.

## 6. Limits and plan

Inputs left out on purpose: a queue or cache of size 0 (undefined behaviour of the first push), two owner
threads that start and stop at once, a loop bundle adjustment that never ends, pictures so thin that their
scaled height is 0. An exception out of `detectObject` ends the process and is modelled as that.

Not modelled: drawing and windows; poses; the network and `NMSBoxes`; compression; formatting and parsing of
dates; the readers of shapefiles and tables; failures to open or map a zone database and its greatest size, and the builder's
assertions on the range of a difference; some errors of `mkdir` and the cut of paths at 256 characters (`gaia_dir.cpp:157-160`); floats, which are exact fractions here; the text readers of
`gaia_dir.cpp`; the listing of directories in DirMan; `assign`, `swap`, single elements, iterators and capacity of
octet strings; `small_vector`, which no code of the program includes; exceptions and macros.

Next:

1. The numbers of `ZoneBytes` (`Digits` and both ways of reading them), with the lemmas on digits that `Components_proofs` has.
2. `OnlyWholeFilesOpen`, with opening and lookup of ZoneDetect in modules of their own so that no `RECURSIVE` operator is in reach.
3. The rest of DirMan, with directories and links among its entries, and KeyDB's threads on the table of `KeyTable`.
