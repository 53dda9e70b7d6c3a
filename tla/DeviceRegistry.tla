--------------------------- MODULE DeviceRegistry ---------------------------
(***************************************************************************)
(* The native registry of devices (devicemanager::listDevices) and the     *)
(* list of jpmp.manager.DeviceManager that mirrors it.                     *)
(*                                                                         *)
(* scanDevices() is a synchronized Java method: it clears the Java list    *)
(* and has the native side delete, detect and report the devices.          *)
(* releaseDevice() works on the native side first and then calls the       *)
(* synchronized removeDevice().  Each critical section is one step.  The   *)
(* other methods of a device look its object up (get_devicebyid()), which  *)
(* changes nothing here; what becomes of an object they use is the subject *)
(* of MtpRetag.                                                            *)
(***************************************************************************)
EXTENDS Naturals

CONSTANTS
  Callers,     \* Java threads
  Devices,     \* canonical names
  MaxObjects,  \* bound: usbdevice objects ever created
  None

ASSUME RegistryAssumption ==
  /\ MaxObjects \in Nat
  /\ None \notin Callers \cup Devices \cup Nat

VARIABLES
  \* native
  listDevices,  \* the object of a name; a name without an entry has NULL, as
                \* the C++ map answers and enters when it is asked
  alive,        \* usbdevice objects not deleted
  created,      \* number of objects created
  \* Java
  deviceList,   \* names in the list of the DeviceManager
  monitor,      \* the caller inside scanDevices(), or None
  \* the calls
  pc,
  device,       \* argument of releaseDevice()
  report        \* detectDevices(): names detected, then names still to add

native == <<listDevices, alive, created>>
java   == <<deviceList, monitor>>
vars   == <<native, java, pc, device, report>>

-----------------------------------------------------------------------------
NULL    == 0
Objects == 1 .. MaxObjects

Goto(c, label) == pc' = [pc EXCEPT ![c] = label]

Init ==
  /\ listDevices = [d \in Devices |-> NULL] /\ alive = {} /\ created = 0
  /\ deviceList = {} /\ monitor = None
  /\ pc = [c \in Callers |-> "idle"]
  /\ device = [c \in Callers |-> None]
  /\ report = [c \in Callers |-> {}]

-----------------------------------------------------------------------------
(* scanDevices()                                                           *)

\* Mutant: scanDevices() is not synchronized
ScanUnsynchronized(c) ==
  /\ pc[c] = "idle"
  /\ monitor' = c /\ deviceList' = {}
  /\ Goto(c, "clear")
  /\ UNCHANGED <<native, device, report>>

ScanDevices(c) ==
  /\ pc[c] = "idle" /\ monitor = None
  /\ monitor' = c /\ deviceList' = {}
  /\ Goto(c, "clear")
  /\ UNCHANGED <<native, device, report>>

ClearDevices(c) ==
  /\ pc[c] = "clear"
  /\ alive' = alive \ {listDevices[d] : d \in Devices}
  /\ listDevices' = [d \in Devices |-> NULL]
  /\ report' = [report EXCEPT ![c] = {}]
  /\ Goto(c, "mtp")
  /\ UNCHANGED <<created, java, device>>

\* A device that is enumerated is entered.  Names are paths of device
\* interfaces, which the system enumerates once each; the name "" of a device
\* whose name cannot be read a second time is left out.
EnterDevice(c, d) ==
  /\ d \notin report[c]
  /\ created < MaxObjects
  /\ created' = created + 1 /\ alive' = alive \cup {created'}
  /\ listDevices' = [listDevices EXCEPT ![d] = created']
  /\ report' = [report EXCEPT ![c] = @ \cup {d}]
  /\ UNCHANGED <<java, pc, device>>

DetectMtpDevice(c, d) == pc[c] = "mtp" /\ EnterDevice(c, d)

\* refresh_devices() goes on with the drives, even if an error has ended the
\* detection of MTP devices
MtpDetected(c) ==
  /\ pc[c] = "mtp"
  /\ Goto(c, "msc")
  /\ UNCHANGED <<native, java, device, report>>

DetectMscDevice(c, d) == pc[c] = "msc" /\ EnterDevice(c, d)

\* fill_devicesinfo(): detection is over, or has failed, which is not told
FillDevicesInfo(c) ==
  /\ pc[c] = "msc"
  /\ report' = [report EXCEPT
       ![c] = {d \in Devices : listDevices[d] # NULL}]
  /\ Goto(c, "add")
  /\ UNCHANGED <<native, java, device>>

AddDevice(c, d) ==
  /\ pc[c] = "add" /\ d \in report[c]
  /\ report' = [report EXCEPT ![c] = @ \ {d}]
  /\ deviceList' = deviceList \cup {d}
  /\ UNCHANGED <<native, monitor, pc, device>>

\* detectDevices() has added all devices, or gives up when a call through JNI
\* fails
ScanReturns(c) ==
  /\ pc[c] \in {"msc", "add"}
  /\ monitor' = None
  /\ report' = [report EXCEPT ![c] = {}]
  /\ Goto(c, "idle")
  /\ UNCHANGED <<native, deviceList, device>>

-----------------------------------------------------------------------------
(* releaseDevice()                                                         *)

\* Mutant: the entry is not erased
DeleteOnly(c, d) ==
  /\ pc[c] = "idle"
  /\ alive' = alive \ {listDevices[d]}
  /\ device' = [device EXCEPT ![c] = d]
  /\ Goto(c, "remove")
  /\ UNCHANGED <<listDevices, created, java, report>>

\* Mutant: the Java side is not told
ReleaseNativeOnly(c, d) ==
  /\ pc[c] = "idle"
  /\ alive' = alive \ {listDevices[d]}
  /\ listDevices' = [listDevices EXCEPT ![d] = NULL]
  /\ UNCHANGED <<created, java, pc, device, report>>

ReleaseDevice(c, d) ==
  /\ pc[c] = "idle"
  /\ alive' = alive \ {listDevices[d]}
  /\ listDevices' = [listDevices EXCEPT ![d] = NULL]
  /\ device' = [device EXCEPT ![c] = d]
  /\ Goto(c, "remove")
  /\ UNCHANGED <<created, java, report>>

RemoveDevice(c) ==
  /\ pc[c] = "remove" /\ monitor = None
  /\ deviceList' = deviceList \ {device[c]}
  /\ device' = [device EXCEPT ![c] = None]
  /\ Goto(c, "idle")
  /\ UNCHANGED <<native, monitor, report>>

-----------------------------------------------------------------------------
Next ==
  \E c \in Callers :
    \/ ScanDevices(c) \/ ClearDevices(c) \/ MtpDetected(c)
    \/ FillDevicesInfo(c) \/ ScanReturns(c) \/ RemoveDevice(c)
    \/ \E d \in Devices :
         \/ DetectMtpDevice(c, d) \/ DetectMscDevice(c, d)
         \/ AddDevice(c, d) \/ ReleaseDevice(c, d)

Spec == Init /\ [][Next]_vars

-----------------------------------------------------------------------------
(* Properties                                                              *)

\* The types of the variables; the thread in scanDevices() holds the monitor.
TypeOK ==
  /\ listDevices \in [Devices -> Objects \cup {NULL}]
  /\ alive \subseteq 1 .. created /\ created \in 0 .. MaxObjects
  /\ deviceList \subseteq Devices /\ monitor \in Callers \cup {None}
  /\ pc \in [Callers -> {"idle", "clear", "mtp", "msc", "add", "remove"}]
  /\ device \in [Callers -> Devices \cup {None}]
  /\ \A c \in Callers : pc[c] = "remove" => device[c] \in Devices
  /\ report \in [Callers -> SUBSET Devices]
  /\ \A c \in Callers : pc[c] \in {"clear", "mtp", "msc", "add"} <=> monitor = c

\* The registry owns its objects: each object that is alive is the entry of
\* exactly one name, and no entry is an object that was deleted.  A scan while
\* other threads release devices neither leaks an object nor leaves a pointer
\* that would be deleted twice (clear_devices(), release_device(),
\* detect_devices_*()).
RegistryOwnsObjects ==
  /\ alive = {listDevices[d] : d \in Devices} \ {NULL}
  /\ \A d, e \in Devices :
       listDevices[d] = listDevices[e] /\ listDevices[d] # NULL => d = e

\* A device the Java side lists has its native object, unless a releaseDevice()
\* of it is on its way to take it off the list: the list is updated last, and a
\* release that overlaps a scan waits for it (detectDevices, releaseDevice).
ListedDevicesExist ==
  \A d \in deviceList :
    \/ listDevices[d] # NULL
    \/ \E c \in Callers : pc[c] = "remove" /\ device[c] = d
=============================================================================
