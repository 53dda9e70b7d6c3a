# MtpRetag in TLA+

MtpRetag is a Swing program that copies audio files from a local tree to a
portable player over USB. It drives the player through `jusbpmp`, a Java library
over a C++ DLL that speaks Windows Media Device Manager (MTP devices) or copies
to a mounted drive (mass-storage devices). This directory holds TLA+ models of
the copy pipeline, from the menu of the window down to the blocks of a file, the
TLC configurations that check them and TLAPS proofs about them.

`src/` below is the root of the repository; `native/` abbreviates
`src/c-source/jusbpmp_native_source/`.

## 1. The system

### 1.1 Components

**Main window, copy queue, copy workers** (`src/src/mtpretag/MtpRetag.java`).
- State: check box `menuItemConnect`, reference `usbDevice`, `transferQueue`
  (a concurrent queue of `CopyFileDetails`), counter `transferredOk`, the field
  `worker`, the progress bar (value and maximum), and for each SwingWorker its
  cancelled flag, progress and the two arrays its events refer to.
- Operations: connect and disconnect (`menuItemConnectAction`, `usbConnect`,
  `usbDisconnect`), copy (`menuItemCopyFilesAction`, `addFileToTransferQueue`),
  progress (`propertyChange`, `stepProgressBar`), exit (`terminate`,
  `notifyMe`), and `doInBackground()` of the worker.
- Threads: the event dispatch thread (EDT) runs every handler; each "Copy files"
  starts one more worker on the SwingWorker pool, and nothing prevents a second
  copy run while the first is under way.
- Hard: two workers on one queue; cancel, wait and notify on exit; events that
  refer to shared arrays; `transferredOk++` from several threads; a device that
  goes away under a copy.
- Correct when: each queued file is copied at most once and none is lost; the
  report at the end of a run is right; check box, reference and registry agree;
  exit waits for the file being copied and does happen.

**File tree and copy list** (same file: `populateSubtree`, `navigateTreeToPath`,
`addTreeSelectionToList`, `addNodeToList`).
- State: the tree nodes, which of them are expanded, the list model; on the EDT
  only.
- Operations: fill the tree one level ahead of the user, open the way to the
  folder Music at the start, add what is selected with all that is below it, ask
  the user before the list gets long, clear the list.
- Hard: the file system changes between any two requests of one handler, and the
  recursion holds lists of names that may be gone. The tree is never refreshed.
- Correct when what is selected and stays is added once, and when what the user
  sees can be opened. Paths are compared by their text, of which a file has
  several.

**Native device registry** (`native/devicemanager.cpp`).
- State: `listDevices`, a map from canonical name to `usbdevice*`, under a
  critical section per access.
- Operations: `refresh_devices` (clear, detect MTP, detect drives),
  `release_device`, `get_devicebyid`, `fill_devicesinfo`; `check_device`, which
  asks the USB hubs for one device; `detect_devices_msc`, which asks each volume
  for its number, the hubs for its descriptor and the drive letters for its
  mount point.
- Hard: an object is handed out after the lock is released; scans and releases
  overlap; each search is a long series of requests to Windows, any of which may
  fail, while devices are plugged, unplugged and exchanged between them.
- Correct when no object leaks or is deleted twice, the Java list names only
  devices that exist, a device that stays is found whatever fails elsewhere, and
  the mount point of a drive is its own.

**Java `DeviceManager`** (binary in `src/jusbpmp-0.1.4`, and
`native/jdevicemanager.cpp`). State: `deviceList`. `scanDevices`, `addDevice`
and `removeDevice` are synchronized, `releaseDevice` is native and is not.

**MTP object tree** (`native/usbdevice.cpp`: `transfer_file`, `read_file`,
`get_storage_bypath`, `get_substorage`, `exist_*_mtp`, `delete_mtpitem`,
`create_folder_mtp`). State: the objects on the device. Every operation walks a
path one folder at a time; `transfer_file` creates the folders that are missing.
Hard: other calls change the tree between two steps of a walk; any request may
fail, and most results are dropped. Correct when what is reported done is done,
and nothing else is touched.

**Files of a device** (`native/jusbdevice.cpp` with `update_metadata`,
`get_metadata`, `parse_folder_mtp`, `parse_folder_msc` of `native/usbdevice.cpp`
and `exist_*_msc` of `native/helperlib.cpp`). State: the files and folders of a
device and the properties of each. Hard: metadata are read, changed and stored in
three requests; a folder is enumerated while other calls change it; results of
requests are dropped. Correct when metadata stay with the file they were given
for and an answer of 0 can be trusted.

**Mass-storage copy** (`usbdevice::msc_copy`). State: two streams, a buffer,
counters, the notifier. Hard: four ways out of one loop; the boundary of a block
at the end of the file; an abort from another thread; conversion to `long`.
Correct when 0 means a whole copy, the notifier is told the truth and an abort
stops the copy.

**Notifiers** (`native/jsyncnotifier.cpp`, `native/TransferNotifier.cpp`, Java
`TransferNotifier`). Forward progress to Java; `getAbort` the other way.

**JNI layer** (`native/jusbdevice.cpp`, `jdevicemanager.cpp`). Marshals
arguments, looks the device object up, and calls it.

**The rest**: single-instance server socket, value classes and string helpers,
the COM server module, USB bus inspection, samples, MIDL-generated stubs,
third-party jars.

### 1.2 Interaction

```
 user -> EDT (MtpRetag) --transferQueue--> workers --sendFile()--> usbdevice
          |     ^   ^----- filesCopied events ----|                  |  |
          |     '--------- notifyMe() ------------'           MTP tree  msc_copy
          '-- scanDevices()/releaseDevice() --> DeviceManager --> devicemanager
```

The EDT deletes native device objects (through scan and release) that workers
use: the registry is the shared state between the two halves of the program.

## 2. The modules

| module | stands for | extends / uses |
|---|---|---|
| `TransferJobs` | what the pipeline promises about files: abstract | |
| `MtpRetag` | the window, queue, workers, and the registry as the window sees it | `INSTANCE TransferJobs` |
| `DeviceRegistry` | `listDevices` and the Java list, at one step per critical section | |
| `MtpDevice` | walks and requests on the object tree of an MTP device | `MCMtpDevice` gives names and paths |
| `MscCopy` | `msc_copy()` block by block | |
| `DeviceFiles` | the calls on the files of a folder: metadata, listing, queries, sends, deletes | `MCDeviceFiles` gives the requests that may fail |
| `CheckDevice` | `check_device()` request by request | `MCCheckDevice` gives the bus |
| `DriveScan` | `detect_devices_msc()` with `GetMountPointForDevice()`, request by request | `MCDriveScan` gives the drives |
| `CopyList` | the file tree and the copy list | `MCCopyList` gives the file system |
| `MtpRetag_proofs`, `DeviceRegistry_proofs`, `MscCopy_proofs`, `MtpDevice_proofs`, `DeviceFiles_proofs`, `CheckDevice_proofs`, `DriveScan_proofs`, `CopyList_proofs` | theorems | |

`DeviceRegistry` sees a whole detection as one outcome; `DriveScan` opens up the
detection of drives, and `CheckDevice` the one operation of the registry that
looks at the bus. `MtpDevice` walks paths to objects without properties;
`DeviceFiles` takes the walk as one step and has the properties.

### 2.1 MtpRetag

`edt` is the program counter of the EDT and `pc[w]` that of worker `w`.
A handler is one action where nothing else can see its middle and several where
a worker can observe or disturb it: `usbConnect` is `ScanDevices` (which deletes
all devices) then `ConnectSucceeds` or `ConnectFails`; `usbDisconnect` is
`ReleaseDevice` then `ForgetDevice`; the copy handler is `PrepareCopy`, one
`AddFileToTransferQueue` for each file and `ExecuteWorker`; `terminate` is
`Terminate`, `StopWorker`, `CancelWorker`, `JoinWorker` with the wait as
`edt = "waiting"`. `resume` is the return address of connect and disconnect,
which have two callers each. While a dialog is open the EDT still dispatches
workers' events (`Dispatching`), as a modal Swing dialog does.

`doInBackground` is split at every access to something shared: `RemoveJob`,
`CheckCancelled`, `ReadDevice` (the field), `FindDevice` (the registry),
`SendOk`/`SendFails`/`SendCrashes`, the two halves of `transferredOk++`, the two
array writes, the posting of the event, `SetProgress100` and `NotifyMe`.
The three ways a worker leaves its loop are kept apart: the break after a cancel
(sets progress and notifies), the end of the queue and a null device (both
exceptions, which do neither).

Data left out: a file is a job number, a device is present or not (the first of
the list is used), event values are the counters they carry. The queue is
`taken + 1 .. added`. `result`, `batch` and `report` are history.

`UNCHANGED` groups have names (`unchangedByWorker`, ...) so that an action shows
what it changes.

### 2.2 DeviceRegistry

One step per critical section of the native side, one per synchronized call of
the Java side. A missing entry and a NULL entry are one value, since
`listDevices[devid]` turns the first into the second. Devices are enumerated
nondeterministically and detection may stop at any point. The
searches themselves are `CheckDevice` and `DriveScan`. Left out is the name `""`
that `init_mtp` gives to a device whose canonical name cannot be read a second
time.

### 2.3 MtpDevice

The tree is a function from persistent identifiers to records with parent, name
and kind. A call has the number of names walked (`depth`), the object reached
(`at`), and a history of whether a request failed (`fault`). Each request to the
device is a step and may fail: `EnumFails`, `CreateFails`, `QueryInterfaceFails`,
`TransferFails`, `RequestFails`, `AttributesUnread`. `Masks` is the code's habit of leaving a
failed walk by `throw hr` with `hr = S_OK`. Names are compared without regard to
case and kind (`Matches`), in the order of enumeration, which is any. Siblings of
one name occur: two senders create the same folder, and a file and a folder may
share a name. `NameLost` is the freed path of `existFile()` and `existFolder()`
(jusbdevice.cpp:83, 189): what is left of it is taken to name nothing. Paths are
sequences of names; `""` and `"/"` are left out.

### 2.4 MscCopy

One step per call into the C library or the notifier. Bytes are counted. A read
that meets the end of the file sets `eof`; a read error does not; that difference
decides the return value. `Long` is the conversion to the 32-bit `long` of the
notifier's argument, with `LongMax` as a parameter.

### 2.5 DeviceFiles

The objects of one folder, by identifier, on a drive (names are unique) or on an
MTP device (they are not). Each caller has a record: the operation, its name and
text, the object found, what an update has read (`tags`), what an enumeration has
passed (`seen`) and told (`listed`), the answer, and the history `fault` and
`start`. A `FileMetadata` is one number, `Texts`; a field set from it holds the
number, so that the origin of each property is visible. `SentKey` and
`UpdatedKey` are the property names a send and an update use: they differ for the
album. `Failing` says for which fields the requests of a call fail; the results
are dropped as the code drops them. `given[i]`, a history, collects the texts of
the calls on the name of object `i` that were under way while it was there.

`update_metadata()` is `FindStorage`, `ReadMetadata` and `StoreMetadata`; a delete
on an MTP device is `FindStorage` and `DeleteStorage`; `parse_folder` is one step
for each `Next()`. On a drive an enumeration comes to `.` and `..` too (`Dots`),
since the test that should leave them out (usbdevice.cpp:754) is never true. A
failed `msc_copy()` may leave a part of the file (`SendBreaks`). `ExistItem` may
answer FILE_NOTFOUND at any time, as the name may be lost. The folder itself is
not an object here, so that a send finds it in the same step in which it inserts;
`MtpDevice` has that walk step by step.

### 2.6 CheckDevice

A bus of root hubs with ports; devices move between ports, to an external hub and
out. `pc` is the next request: controller, root hub, information on the hub, port
by port connection, serial number and name. The one exception handler is
`HubFails`. External hubs are passed over (`SkipHub`), as the code says itself.
`read` is what has been read from the port, a field by a request. A string that
cannot be read is `Empty`.

### 2.7 DriveScan

`todo` is the list of volumes Windows has handed out. For each of them
`OpenVolume`, `ReadNumber`, `ReadDescriptor`, one `TryLetter` for each letter,
and `EnterDevice` or one of the ways a volume is skipped. `handle` says whether
the volume opened is still plugged. `NoneMatches` drops a volume whose requests
all succeed but whose serial number is not the one in its instance id (475):
which disks these are is the constant `Matching`, since Windows makes up the
number of a disk that has none. `EnumerationEnds` is the loop of 322, which takes
any failure of `SetupDiEnumDeviceInfo()` for the end. Numbers and letters that
become free are given to what is plugged next. `Others` are drives of other device
types, which have numbers of their own.

### 2.8 CopyList

`kids` and `dots` are the tree: the children of each node and the nodes that have
the placeholder `.` only. `PopulateSubtree` is one step; the directories whose
`list()` fails are chosen, and one that vanishes while its level is being filled
looks like one of them. `navigateTreeToPath()` is `FindMusic`,
`Descend` for each level, `ChildMissing` (the exception that keeps the window
from opening) and `ExpandNext` for each node of the path. Adding is step by step,
because files come and go meanwhile: the recursion of `addNodeToList()` is the
stack of the children still to come on each level, `InCall` a call that begins,
and FALSE as its result empties the stack. A path is an entry and its spelling
(`Ways`): plain, with a doubled separator below the drive (`C:\\dir`, as
MtpRetag.java:599 appends one to `C:\` too), or through a placeholder. `Way` is how
the spelling of a directory gives that of its children, and `IsListed` compares
both parts, as `equals()` does: two texts of one file are two paths. `Key` gives
the entries that are one path to Windows, as a file or a directory or in another
letter case; `exists()` in the start goes by it (`Exists`), the tree does not.
The selection is one or two visible nodes, the second possibly below the first.

## 3. What is checked

Runs that pass:

| run | instance | what it shows |
|---|---|---|
| `core` | 2 workers, 2 jobs, pool of 2; 795 000 states | `TypeOK`; `JobInv` (a job taken from the queue has one owner until it is settled, and none is lost); `DeviceAgrees` (check box, reference and registry agree whenever the user can click); `ExitBetweenFiles` (the awaited worker is not inside a copy at exit); `ReportExact` (the numbers of the final text of a clean run are right); `NoStrandedJob` (a queued file has a worker that will look at the queue again); `ImplementsTransferJobs` (refinement) |
| `live` | 2 workers, 2 jobs, pool of 1, throwing tag reader; 287 000 states | `WorkerEnds`, `WaiterWoken` (no lost wakeup between the check of the progress and `wait()`), `ExitAfterCurrentFile` (exit succeeds in the case `terminate` is written for) |
| `mtp_device` | 2 callers, 2 calls, 4 objects, a folder in two spellings; 1.1 million states | `TypeOK` (every object hangs below an existing folder), `InsertDelivers` (an answer without a failed request means the object is there), `ExistFound` (a yes of a query is right at its moment), `DeleteExact` (nothing disappears but what a call names) |
| `msc_copy` | sizes 0 to 6, blocks of 2, longs up to 4 | `TypeOK`, `SuccessIsWhole`, `ProgressTruthful`, `AbortStops`, `CopyEnds` |
| `device_registry` | 3 threads, 2 devices, 6 objects | `TypeOK` (a scan excludes another), `RegistryOwnsObjects` (no leak, no double delete), `ListedDevicesExist` |
| `device_files` | 2 callers, 3 calls, 4 objects, 2 names, 2 texts; each set of failing requests; 2.5 million states | `TypeOK` (a drive holds one object of a name), `OwnMetadata` (what was known of a deleted or replaced file does not come back in its successor), `UpdateDelivers` (0 means stored, and nothing else changed), `ListingComplete` (0 means a whole list) |
| `check_device` | 3 devices of 2 products, 3 controllers of which 2 are looked at, 2 ports, an external hub, 2 moves; 2.5 million states | `TypeOK` (the loops end), `FoundWasHere` (0 is answered only of a device that was on a root port during the check), `StayingIsFound` (errors and moves elsewhere do not hide a device) |
| `drive_scan` | 4 volumes on 3 disks, one without a serial number, 3 letters, 2 numbers, a CD drive with the number of a disk, 3 moves; 2.6 million states | `TypeOK`, `MountIsOwn` (no drive gets the letter of another one), `ScanTellsAll` (0 means that all drives that stayed, answered and match are listed, unless the enumeration was cut short) |
| `copy_list` | 6 entries on 3 levels, 1 change, 2 clicks, a warning at 1; 2.4 million states | `TypeOK` (mp3 files only), `FilesOnce` (a file is listed once while the nodes selected have one spelling), `AllAdded` (what stays is added whatever vanishes beside it), `LongListAsked`, `TreeIsAhead` (what can be seen can be opened), `StartFindsMusic` (the program starts where the directories are there under their names) |

`PROJECT.json` gives for each of these properties a mutant of the model, a
plausible bug, that violates it.

Runs that end in a violation: the model does what the code does, the property
what a comment, a message or the documentation says.

| run | the disagreement |
|---|---|
| `terminate_ends` | `terminate()` can wait for ever. A worker leaves a drained queue by `NoSuchElementException`, past `setProgress(100)` and `notifyMe()`; so an exit while the last file is being copied, or before the worker starts, never ends. `ExitAfterCurrentFile` is the case that does work: a file is left in the queue. |
| `clean_run` | A step of the bar is lost. All events of a worker share two arrays; an event handled late sees what a later file has put there, between the two writes possibly equal values, and is ignored. The run is then never reported. |
| `device_under_copy` | Disconnecting, and exiting, delete the native device object while `sendFile()` uses it. |

### 3.1 Known deviations without a run

Met while modelling; the models do what the code does, and the properties are
claimed of the other cases.

- `usbConnect()` may fail inside the copy handler, which goes on without a device
  (MtpRetag.java:700).
- `terminate()` knows the latest worker only; an older one still copies when the
  process exits (MtpRetag.java:764).
- `sendFile()` and `getFile()` return 0 after a request to the device has failed:
  `throw hr` with `hr = S_OK`, results that are dropped (usbdevice.cpp:186, 1121,
  239-254). `FindNextFile()` failing is taken for the end of a folder
  (usbdevice.cpp:761).
- `msc_copy()` tests the source where it means to test the target, and writes to
  a NULL stream (usbdevice.cpp:1196).
- An album is sent as `AlbumTitle` (usbdevice.cpp:227), and read and updated as
  `AlbumArt` (jusbdevice.cpp:400, usbdevice.cpp:978): what was sent is read back
  empty.
- `GetMountPointForDevice()` compares storage device numbers and not the types of
  the devices (devicemanager.cpp:1144): a CD drive of the same number gives its
  letter to the player. This is why `MountIsOwn` excludes `OtherNumbers`.
- `check_device()` never finds a device on an external hub (765), which a scan
  does find; it leaks the handle of each controller, since 780 tests the handle
  it has just reset. `get_descriptor_props()` leaks a handle when a request fails
  (1222, 1243).
- `find_first_of` where `find` is meant lets every device path pass the filter
  (devicemanager.cpp:361).
- The answer Cancel to the question on a long list still adds the file, and the
  next selected node goes on (MtpRetag.java:588).
- A file that is reached from the drive and from a folder is listed, and copied,
  twice: 599 makes two texts of its path, and 573 compares texts. A placeholder
  `\.` gives a third. `FilesOnce` is claimed while the nodes selected since the
  list was cleared have one spelling.
- The program does not start where the folder Music is a file, or has other
  letter case: `exists()` (MtpRetag.java:126) is content with it, the tree of
  directories and mp3 files is not, and 184 throws. `StartFindsMusic` is claimed
  of directories that are there under the names the program builds.
- `detect_devices_msc()` returns 0 with volumes missing when
  `SetupDiEnumDeviceInfo()` fails in the middle (322), and when no port of the
  hub tells the serial number of the instance id (475). `ScanTellsAll` excuses
  both, by the history `cut` and the constant `Matching`.
- `existFile()` and `existFolder()` look for a path that has been freed
  (jusbdevice.cpp:83, 189) and answer no for what exists, or anything when the
  attributes cannot be read (usbdevice.cpp:657). `ExistFound` is about the
  answer yes of calls whose requests succeed.
- Two senders that miss the same folder both create it (usbdevice.cpp:475);
  what walks there later takes either.
- The metadata of a file can be those of several calls: a send and an update
  store the album under different keys, and an update whose `AddItem()` fails for
  a field leaves the old value of it.
- `getMetadata()` cuts the rating to a byte (jusbdevice.cpp:415) and hands over
  an empty field for each request that fails; what it hands over is not kept in
  the models.
- `parse_folder_msc()` reports `.` and `..` as folders (usbdevice.cpp:754).
- A scan gives a disk that is exchanged after its number was read the letter of
  its successor; `MountIsOwn` is claimed of a disk that stays.

### 3.2 Bounds

- `MaxWorkers = 2`, `MaxJobs = 2`: two copy runs that overlap, with the files
  split between them in every way, are what the hazards of the window need; two
  runs also give a stopped run followed by a fresh one. Workers interact through
  the queue and one counter and are alike, so that a third adds no new kind of
  interference; the theorems hold for any number. A third file would matter to
  event counting only, where two files already make every pair of pending events.
- `PoolSize`: 2 lets the workers overlap, 1 makes the second wait for the first
  (both occur among Java versions).
- `TagReaderMayThrow` is on in `live`, and off in `core` to keep it small;
  `JobInv`, `DeviceAgrees` and the refinement are proved with it on as well.
- `MtpDevice`: a device starts with any tree of at most two objects and is given
  up to two more; two calls overlap in every way. Paths of one and two names,
  with a folder in two spellings, reach every branch of the walk, and two sends
  leave siblings of one name.
- `MscCopy`: sizes 0 to 6 with blocks of 2 give the empty file, part of a block,
  whole blocks, and sizes below, at and beyond `LongMax = 4`.
- `DeviceRegistry`: a scan, a release that overlaps it and one more thread that
  waits for the monitor; six objects allow three scans of two devices.
- `DeviceFiles`: a folder starts with up to two objects; an update or a listing
  can be overlapped by two whole calls, of which one deletes and one creates: the
  successor of a file that an update has read is there when it stores.
- `CheckDevice`: two devices of one product differ in the serial number only, so
  that an exchange between two requests can mix them; two moves exchange two
  devices; the third controller is beyond the limit.
- `DriveScan`: three moves unplug a disk, plug another one in its place and
  unplug a third; two volumes of one disk have the same number; the third disk
  does not match, so that a volume is dropped between others that must be kept.
- `CopyList`: two files on different levels, a directory between them that is
  Music, and a plain file of that path in its place; one change of the file
  system in every place of every handler; two clicks make the second find what
  the first has added; a warning at one file is reached by the second.

The inserts, calls, runs and objects stop at their bounds by guards named in the
constants (`MaxJobs`, `MaxWorkers`, `MaxObjects`, `MaxCalls`).

### 3.3 Fairness

`MtpRetag!Fairness` is weak fairness of the EDT's continuation of a handler it
has started (`HandlerStep`) and of each worker. Both are threads the JVM
schedules, and calls into the device are assumed to return, as a blocking WMDM
request (`WMDM_MODE_BLOCK`) does in the end. Nothing is assumed of the user, of
spurious wakeups, or of when events are dispatched: none of the liveness
properties needs them. `MscCopy` assumes weak fairness of the copying thread
(`Copy`), not of the abort.

Deadlock is checked everywhere but in `MscCopy`, `CheckDevice` and `DriveScan`,
which end when the function returns, and in `CopyList`, whose window may fail to
open (`pc = "lost"`). `Stopped` and `Finished` are the ends of the process and of the bounded
number of calls.

## 4. What is proved

For every value of the constants allowed by the assumptions (`BoundsAssumption`,
`MscAssumption`, `RegistryAssumption`, `DeviceAssumption`, `FilesAssumption`,
`CheckAssumption`, `ScanAssumption`, `ListAssumption`, which say that bounds are
naturals, that a block is not empty, that a path is a non-empty sequence of
names, and that disks, ports and directories are where they are).

**MtpRetag_proofs**
- `TypeCorrect` : `[]TypeOK`. `TypeOK` is not inductive: `ExecuteWorker` writes
  `pc[lastWorker + 1]`, so one needs that a handler past `CopyFiles` still has a
  worker number left, and that numbers above `lastWorker` are unused.
  `WorkersFresh` adds both; `TypeInv == TypeOK /\ WorkersFresh` is inductive.
- `JobsOwnedOnce` : `[]JobInv`. Inductive relative to `TypeInv`. Steps fall into
  three kinds, one lemma each: those that leave jobs alone, `RemoveJob`, and
  those that settle a job.
- `DeviceConsistent` : `[]DeviceAgrees`, from `DeviceInv`, which also says what
  holds inside `usbConnect` and `usbDisconnect` (a scan only starts without a
  device, a dialog only opens while disconnected).
- `PipelineRefined` : `Spec => ImplementsTransferJobs`. Under the mapping
  `JobStatus` every step is a stutter, a `Submit`, a `Take` or a `Settle`;
  `JobInv` is needed to know that a settled job was taken and unsettled.
- `ExitClean` : `[]ExitBetweenFiles`. `ExitInv` adds that progress 100 is set
  only on the way out of a cancelled run, and that nothing is cancelled before
  `terminate()` waits: without the second, `isDone()` could be true of a worker
  that still copies.
- `NoneStranded` : `TagReaderMayThrow = FALSE` implies `[]NoStrandedJob`.
  `QueueWatched` is the property for every place of the handlers but the loop
  that fills the queue; the worker executed after the loop is the witness. It
  needs `JobInv`, since a dropped job must not have been settled before.
- `ReportIsExact` : `[]ReportExact`. The text is written when an event finds the
  bar full, so one must know what a full bar says of files that other threads
  settle. `RunInv` is about a clean run: nothing of it has begun, or it is the
  work of one worker `w` (`Begun`). `InOrder(w)` says that `w` takes the files in
  their order and has counted all it has taken but the one it is busy with;
  `StepsCounted(w)`, that the bar and the events still waiting are together at
  most one more than the files counted (the event that announces the run; events
  the bar does not see only make it slower); `OkCounted(w)`, that the counter
  lags behind the good files by the one between `load` and `store`, which is true
  because nobody else writes it. A full bar then leaves only one value for the
  files counted (`FullBar`). `ResultsStay`, a job is settled for good, keeps a
  report right once it is out.
- `NoWakeupLost` : `[]WakeupPending`, the safe half of the liveness property
  `WaiterWoken`: while `terminate()` sleeps on a worker that has set its progress
  to 100, `notifyMe()` of that worker is still to come.

**MscCopy_proofs**: `MscTypeCorrect`, `MscSuccessIsWhole`, `MscAbortStops`,
`MscProgressTruthful`. `LoopInv` adds that the end of file implies all was read,
and what an abort still allows at each place of the loop; `ProgressInv` says what
the notifier has been told at each place. The arithmetic of `Long` is two lemmas.

**DeviceRegistry_proofs**: `RegistryTypeCorrect`, `RegistryOwnership`,
`ListedExist`. `ScanInv` says that while a scan detects, the registry holds only
what this scan has entered (so that no entry is overwritten), that the list is
empty until the scan reports, and that what is still to be reported exists or is
being released. The monitor of `DeviceManager` is what makes it hold.

**MtpDevice_proofs**
- `TreeAlwaysOK` : `[]TypeOK`. `WalkInv` says that a call under way has a path
  and that a folder is created only before the last name, so that what is
  inserted has a name. `BelowClosed` is what a delete needs: an object that
  survives has a parent that survives. It is the reason `Below` is defined by
  closed sets and not by recursion.
- `InsertsDeliver`, `FoundExists`, `DeletesExact` : what calls answer and remove.
  All need `WayInv`, proved once (`WaysKnown`) beside the types. `Reached` says
  that while the object a call has come to is there, the names it has walked lead
  to it; it survives the deletes and inserts of every other call, because a
  delete removes all below an object and an identifier is used once
  (`KnownObjects`). A query that answers yes has read the attributes of an object
  that exists, so that its way exists at that moment (`ArrivedWay`), whichever of
  several siblings it took.
  That a way to what a delete leaves avoids all it removes (`WayAvoids`) is
  induction along the way. It is done by the least counterexample
  (`SmallestNat`, from the library's well-founded orderings), which needs no
  induction theorem because a way is a function and not a recursive definition.

**DeviceFiles_proofs**: `FilesTypeCorrect`, `MetadataIsOwn`, `UpdateDelivered`,
`ListingIsComplete`. `CallOK` says of each call what it relies on: the objects of
its name know its text (`given`); an object found is below `fresh`, and has the
name of the call as long as it exists; what an update has read was given to that
object, and the property it does not write is still as it was (nothing but a send
writes it, and a send makes a new object); what an enumeration has passed is
listed, or is the object about to be. `OwnMetadata` then survives
`StoreMetadata`, in which the object is the one that was read: identifiers are
not reused. An update that looked its file up again by name would break it, which
is its mutant.

**CheckDevice_proofs**: `CheckTypeCorrect`, `StayingDeviceIsFound`,
`FoundDeviceWasHere`. `SearchInv` says for each port of a device that stays that
the search is still before it or is just reading this device (`Ahead`);
`PortsOK`, one device on a port, makes what is read there be its own.
`ReadWasHere` is what remains of a mixture of two devices.

**DriveScan_proofs**: `ScanTypeCorrect`, `MountPointIsOwn`, `ScanIsComplete`.
`DrivesOK` is what Windows keeps: a plugged disk shares its number with no
other, and only plugged disks have letters. `LookInv` says that the mount point found so far is the
disk's own (or that of a drive with its number), and that one is found once its
letter has been tried, while the disk stays; `SearchInv` that each volume of the
list that stays and matches is to come, is being looked at, is entered, has no
letter or met a failed request, also when the enumeration is cut short: only then
may a volume that is to come be left.

**CopyList_proofs**: `ListTypeCorrect`, `FilesListedOnce`, `UserAskedBeforeLong`,
`TreeAheadOfUser`. `DialogOK` says that the file the user is asked about is not
in the list; `NodesOK` that children are or were in the file system, that an
expanded node is no leaf, and that a node with children hangs below one: without
it, listing a leaf could replace the children of a node below it.
`PopulateEffect` is the lemma on `populateSubtree()` all else rests on.
`FilesListedOnce` needs that no path is listed twice, and `WaysInv`: the spelling
of each path that is listed, selected or to come in the recursion is one of those
selected since the list was cleared, so that with one spelling a path is a file.
`SelectedIsAdded` rests on `AddInv`: each file to be added is in the list, or its
selected node is still to come, or is being added and `addNodeToList()` is on its
way to it, in the current call or in the children to come of a level.
`WayToMusicFound` rests on `StartInv`: a node with children shows each directory
that is there and has not come or gone, and the node navigation has reached has
children unless it could not be listed, is not there or has come or gone. That
`exists()` was true is not used: it says nothing of the names.

Only model-checked: what is out of the prover's reach, which is all liveness
under fairness (`WorkerEnds`, `WaiterWoken`, `ExitAfterCurrentFile`, `CopyEnds`).
Every invariant, every action property and the refinement that a passing run
checks are theorems. No definition that is proved about is recursive: what is
below an object or a node is a least closed set (`Below`, `Above`), what a path
leads to is given by the ways along it (`Ways`), and lemmas about them follow
from a closed set, or from a way and its last step.

## 5. What is not modelled

- The single-instance socket: one `bind()`. The `TransferNotifier` of the window
  only logs.
- `make_dirs()` and `check_make_dir()`: called by nothing. `releaseInstance()`:
  not called by MtpRetag. The life time of the COM module: `StartMonitor()` is
  never called, so its thread is dead code. `jusbdevice.cpp` 789-853 is under
  `#ifndef _WINDOWS` in a program for Windows.
- `init_mtp()` and the WMDM enumeration: the outcome of a detection in
  `DeviceRegistry`.
- The log: its file may not open (MtpRetag.java:116-119), and then
  `logPrintStream.close()` (473) ends `terminate()` with an exception; the models
  take the log as open.
- Values handed over by `getMetadata()`. NULL metadata in a send
  (usbdevice.cpp:217) and the untested stream of `msc_copy()` (1196, 1222) bring
  the process down: `SendCrashes` of `MtpRetag`; in `DeviceFiles`, whose calls
  have metadata, they are left out.
- A failed request to a hub that leaves a last error of 0
  (devicemanager.cpp:768-774): `LastErrors` of `CheckDevice` are nonzero.
- Drive letters that change while a disk stays plugged. A volume is not told from
  another one of its disk by its letter (`LetterOf`): the code compares the
  number of the disk.
- Open handles but those of `CheckDevice`, memory, the paths `""` and `"/"`,
  marshalling, getters, logging.
- `SetupApiHelper`, `displayusb` and the test programs, which nothing links or
  calls; generated COM stubs; third-party jars: outcomes only, marked external.

Hazards without a property are listed with the reason in `PROJECT.json`.

## 6. Plan

Done, in this order: `TransferJobs` and `MtpRetag` (the behaviour users depend
on, with most of the concurrency), their proofs, `MtpDevice`, `MscCopy` and its
proofs, `DeviceRegistry` and its proofs, the tree of `MtpDevice`; then
`DeviceFiles`, `CheckDevice`, `DriveScan` and `CopyList`, each with its proofs.

Next:
1. An abstract registry (a set of devices) that both `DeviceRegistry` implements
   and `MtpRetag` uses, with `DriveScan` as its source of drives.
2. An abstract object store that `MtpDevice` and `DeviceFiles` implement for
   calls that do not overlap.
3. The composition of `CopyList` and `MtpRetag`: the list that a copy empties.
