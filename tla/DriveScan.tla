----------------------------- MODULE DriveScan -----------------------------
(***************************************************************************)
(* devicemanager::detect_devices_msc() (c-source/jusbpmp_native_source/    *)
(* devicemanager.cpp): the search for the volumes of removable drives.     *)
(* Windows hands out a list of the volumes that are present; each one is   *)
(* opened, its storage device number is read, its USB device is looked for *)
(* on its hub, and all drive letters are tried for one with this number.   *)
(*                                                                         *)
(* Disks are plugged and unplugged between any two requests, and any       *)
(* request may fail.  A number or a letter that became free is given to    *)
(* the next disk.                                                          *)
(***************************************************************************)
EXTENDS Integers

CONSTANTS
  Volumes,      \* the volumes of the removable disks
  Disks,        \* these disks
  Disk,         \* Disk[v]: the disk of v
  Matching,     \* the disks whose instance id ends with the serial number they
                \*   report; Windows makes one up for a disk without any
  Numbers,      \* storage device numbers Windows gives to them
  LetterCount,  \* the drive letters are 1 .. LetterCount
  Others,       \* <<letter, number>> of the drives of other device types
  MaxMoves      \* bound: how often a disk is plugged or unplugged

Letters == 1 .. LetterCount

\* the number, or the letter, of what has none
NoNumber == -1
NoLetter == 0

OtherLetters == {o[1] : o \in Others}
OtherNumbers == {o[2] : o \in Others}

ASSUME ScanAssumption ==
  /\ Disk \in [Volumes -> Disks] /\ Matching \subseteq Disks
  /\ Numbers \subseteq Nat
  /\ LetterCount \in Nat
  /\ Others \subseteq Letters \X Nat
  /\ MaxMoves \in Nat

VARIABLES
  number,    \* the number of each disk, NoNumber when it is not plugged
  letter,    \* the letter of each volume
  moves,     \* number of moves so far
  pc,        \* the place in detect_devices_msc()
  todo,      \* the volumes of the list that are still to come
  vol,       \* the volume looked at
  handle,    \* hVolume: can requests be sent to it?
  devNumber, \* DeviceNumber
  drive,     \* the letter GetMountPointForDevice() tries next
  mount,     \* the letter it has found
  list,      \* the mount point of each volume in listDevices
  result,    \* the result
  present,   \* history: the volumes of the list
  gone,      \* history: the disks that have been unplugged
  failed,    \* history: the volumes a request has failed for
  cut        \* history: has the enumeration ended before its last volume?

drives == <<number, letter, moves, gone>>
found  == <<vol, handle, devNumber, drive, mount>>
vars   == <<drives, found, pc, todo, list, result, present, failed, cut>>

-----------------------------------------------------------------------------
(* The drives                                                              *)

Plugged(d) == number[d] # NoNumber
Of(d) == {v \in Volumes : Disk[v] = d}

FreeLetters ==
  {l \in Letters \ OtherLetters : \A v \in Volumes : letter[v] # l}

Distinct(f, S) ==
  \A v, w \in S : v # w /\ f[v] # NoLetter => f[v] # f[w]

Init ==
  /\ number \in [Disks -> Numbers \cup {NoNumber}]
  /\ \A d, e \in Disks : d # e /\ Plugged(d) => number[d] # number[e]
  /\ letter \in [Volumes -> (Letters \ OtherLetters) \cup {NoLetter}]
  /\ \A v \in Volumes : ~ Plugged(Disk[v]) => letter[v] = NoLetter
  /\ Distinct(letter, Volumes)
  /\ moves = 0 /\ gone = {}
  /\ pc = "start" /\ todo = {} /\ present = {} /\ failed = {} /\ cut = FALSE
  /\ vol \in Volumes /\ handle = FALSE /\ devNumber = NoNumber
  /\ drive = 1 /\ mount = NoLetter
  /\ list = [v \in Volumes |-> NoLetter]
  /\ result = 0

Plug(d) ==
  /\ moves < MaxMoves /\ ~ Plugged(d)
  /\ \E n \in Numbers :
       /\ \A e \in Disks : number[e] # n
       /\ number' = [number EXCEPT ![d] = n]
  /\ \E f \in [Of(d) -> FreeLetters \cup {NoLetter}] :
       /\ Distinct(f, Of(d))
       /\ letter' = [v \in Volumes |-> IF v \in Of(d) THEN f[v]
                                                      ELSE letter[v]]
  /\ moves' = moves + 1
  /\ UNCHANGED <<found, pc, todo, list, result, present, gone, failed, cut>>

\* A handle of a volume that was unplugged stays invalid.
Unplug(d) ==
  /\ moves < MaxMoves /\ Plugged(d)
  /\ number' = [number EXCEPT ![d] = NoNumber]
  /\ letter' = [v \in Volumes |-> IF v \in Of(d) THEN NoLetter ELSE letter[v]]
  /\ handle' = (handle /\ Disk[vol] # d)
  /\ moves' = moves + 1 /\ gone' = gone \cup {d}
  /\ UNCHANGED <<vol, devNumber, drive, mount, pc, todo, list, result,
                 present, failed, cut>>

\* the numbers of the drives that have this letter now: at most one
NumbersAt(l) ==
  {number[Disk[v]] : v \in {w \in Volumes : letter[w] = l}}
    \cup {o[2] : o \in {p \in Others : p[1] = l}}

-----------------------------------------------------------------------------
(* The list of volumes                                                     *)

GoTo(label) == pc' = label
At(label) == pc = label /\ UNCHANGED drives

ListVolumes ==
  /\ At("start")
  /\ todo' = {v \in Volumes : Plugged(Disk[v])}
  /\ present' = todo'
  /\ GoTo("next")
  /\ UNCHANGED <<found, list, result, failed, cut>>

NoList ==
  /\ At("start")
  /\ result' = 1
  /\ GoTo("returned")
  /\ UNCHANGED <<found, todo, list, present, failed, cut>>

\* on with the next volume; a request for this one has failed
Skip ==
  /\ failed' = failed \cup {vol'}
  /\ handle' = FALSE
  /\ GoTo("next")
  /\ UNCHANGED <<list, result, present, cut>>

\* The test for removable media lets every path pass: find_first_of() looks
\* for one of the letters of the word.
OpenVolume ==
  /\ At("next")
  /\ \E v \in todo :
       /\ Plugged(Disk[v])
       /\ vol' = v /\ todo' = todo \ {v}
  /\ handle' = TRUE
  /\ devNumber' = NoNumber
  /\ GoTo("number")
  /\ UNCHANGED <<drive, mount, list, result, present, failed, cut>>

\* the instance id is not told, or the volume cannot be opened
VolumeSkipped ==
  /\ At("next")
  /\ \E v \in todo : vol' = v /\ todo' = todo \ {v}
  /\ Skip
  /\ devNumber' = NoNumber
  /\ UNCHANGED <<drive, mount>>

\* throw E_FAIL: the volumes that are left are not looked at
NoInterface ==
  /\ At("next") /\ todo # {}
  /\ result' = 1
  /\ GoTo("returned")
  /\ UNCHANGED <<found, todo, list, present, failed, cut>>

\* SetupDiEnumDeviceInfo() fails: the loop takes it for the end of the list
EnumerationEnds ==
  /\ At("next") /\ todo # {}
  /\ cut' = TRUE
  /\ GoTo("returned")
  /\ UNCHANGED <<found, todo, list, result, present, failed>>

NoMoreVolumes ==
  /\ At("next") /\ todo = {}
  /\ GoTo("returned")
  /\ UNCHANGED <<found, todo, list, result, present, failed, cut>>

-----------------------------------------------------------------------------
(* One volume                                                              *)

ReadNumber ==
  /\ At("number") /\ handle
  /\ devNumber' = number[Disk[vol]]
  /\ GoTo("descriptor")
  /\ UNCHANGED <<vol, handle, drive, mount, todo, list, result, present,
                 failed, cut>>

\* Mutant: the mount point of the last volume stays
KeepMount ==
  /\ At("descriptor") /\ Plugged(Disk[vol]) /\ Disk[vol] \in Matching
  /\ handle' = FALSE
  /\ drive' = 1 /\ mount' = mount
  /\ GoTo("letter")
  /\ UNCHANGED <<vol, devNumber, todo, list, result, present, failed, cut>>

\* get_descriptor_props() has found the device on a port of its hub: the instance
\* id made of what the port tells is the one Windows has given.  The requests of
\* this walk are those of check_device(), in CheckDevice.
ReadDescriptor ==
  /\ At("descriptor") /\ Plugged(Disk[vol]) /\ Disk[vol] \in Matching
  /\ handle' = FALSE
  /\ drive' = 1 /\ mount' = NoLetter
  /\ GoTo("letter")
  /\ UNCHANGED <<vol, devNumber, todo, list, result, present, failed, cut>>

\* every port has answered, and no id is the one looked for
NoneMatches ==
  /\ At("descriptor") /\ Disk[vol] \notin Matching
  /\ handle' = FALSE
  /\ GoTo("next")
  /\ UNCHANGED <<vol, devNumber, drive, mount, todo, list, result, present,
                 failed, cut>>

\* Mutant: the search ends
RequestEnds ==
  /\ At("number") \/ At("descriptor")
  /\ failed' = failed \cup {vol}
  /\ handle' = FALSE
  /\ GoTo("returned")
  /\ UNCHANGED <<vol, devNumber, drive, mount, todo, list, result, present, cut>>

\* the number is not told, the device is not on the hub or the hub fails
RequestFails ==
  /\ At("number") \/ At("descriptor")
  /\ UNCHANGED <<vol, devNumber, drive, mount, todo>>
  /\ Skip

-----------------------------------------------------------------------------
(* GetMountPointForDevice()                                                *)

\* Mutant: one letter too many
TryTooMany ==
  /\ At("letter")
  /\ mount' = IF devNumber \in NumbersAt(drive) THEN drive ELSE mount
  /\ drive' = drive + 1
  /\ UNCHANGED <<vol, handle, devNumber, pc, todo, list, result, present,
                 failed, cut>>

\* The type of the device is not compared, and the last letter wins.
TryLetter ==
  /\ At("letter") /\ drive \in Letters
  /\ mount' = IF devNumber \in NumbersAt(drive) THEN drive ELSE mount
  /\ drive' = drive + 1
  /\ UNCHANGED <<vol, handle, devNumber, pc, todo, list, result, present,
                 failed, cut>>

\* a drive that cannot be opened or does not tell its number is passed over
LetterFails ==
  /\ At("letter") /\ drive \in Letters
  /\ failed' = IF letter[vol] = drive THEN failed \cup {vol} ELSE failed
  /\ drive' = drive + 1
  /\ UNCHANGED <<vol, handle, devNumber, mount, pc, todo, list, result,
                 present, cut>>

LettersTried ==
  /\ At("letter") /\ drive \notin Letters
  /\ GoTo("information")
  /\ UNCHANGED <<found, todo, list, result, present, failed, cut>>

\* GetVolumeInformation() can succeed when something is mounted there now
Mounted(l) == l \in Letters /\ NumbersAt(l) # {}

EnterDevice ==
  /\ At("information") /\ Mounted(mount)
  /\ list' = [list EXCEPT ![vol] = mount]
  /\ GoTo("next")
  /\ UNCHANGED <<found, todo, result, present, failed, cut>>

InformationFails ==
  /\ At("information") /\ Mounted(mount)
  /\ UNCHANGED <<vol, devNumber, drive, mount, todo>>
  /\ Skip

NotMounted ==
  /\ At("information") /\ ~ Mounted(mount)
  /\ GoTo("next")
  /\ UNCHANGED <<found, todo, list, result, present, failed, cut>>

-----------------------------------------------------------------------------
Step ==
  \/ ListVolumes \/ NoList
  \/ OpenVolume \/ VolumeSkipped \/ NoInterface \/ EnumerationEnds \/ NoMoreVolumes
  \/ ReadNumber \/ ReadDescriptor \/ NoneMatches \/ RequestFails
  \/ TryLetter \/ LetterFails \/ LettersTried
  \/ EnterDevice \/ InformationFails \/ NotMounted

Next == Step \/ \E d \in Disks : Plug(d) \/ Unplug(d)

Spec == Init /\ [][Next]_vars

-----------------------------------------------------------------------------
(* Properties                                                              *)

\* The types of the variables; the loops stay in their bounds.
TypeOK ==
  /\ number \in [Disks -> Numbers \cup {NoNumber}]
  /\ letter \in [Volumes -> Letters \cup {NoLetter}]
  /\ moves \in 0 .. MaxMoves
  /\ pc \in {"start", "next", "number", "descriptor", "letter",
             "information", "returned"}
  /\ todo \subseteq Volumes /\ present \subseteq Volumes
  /\ vol \in Volumes /\ handle \in BOOLEAN
  /\ devNumber \in Nat \cup {NoNumber}
  /\ drive \in 1 .. LetterCount + 1
  /\ mount \in Letters \cup {NoLetter}
  /\ list \in [Volumes -> Letters \cup {NoLetter}]
  /\ result \in {0, 1}
  /\ gone \subseteq Disks /\ failed \subseteq Volumes /\ cut \in BOOLEAN

\* l is a letter of the disk of v
LetterOf(l, v) == \E w \in Of(Disk[v]) : letter[w] = l

\* The mount point of a volume in the list is a letter of its own disk, as long
\* as this disk stays plugged and no drive of another type has its number:
\* others that come and go, take each other's numbers and letters or fail
\* during the search do not put the files of the user on another drive.
MountIsOwn ==
  \A v \in Volumes :
    (/\ list[v] # NoLetter
     /\ Disk[v] \notin gone
     /\ number[Disk[v]] \notin OtherNumbers) => LetterOf(list[v], v)

\* The search returns 0 only when each volume that was there when it began, was
\* not unplugged, has a letter, answered every request and is of a disk whose
\* serial number is in its instance id is in the list, unless the enumeration
\* itself ended before its last volume (which the caller is not told).  The error
\* of one volume, or its device, does not hide another.
ScanTellsAll ==
  (pc = "returned" /\ result = 0 /\ ~ cut) =>
    \A v \in present :
      \/ Disk[v] \in gone \/ Disk[v] \notin Matching
      \/ v \in failed
      \/ letter[v] = NoLetter
      \/ list[v] # NoLetter
=============================================================================
