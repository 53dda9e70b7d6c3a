---------------------------- MODULE CheckDevice ----------------------------
(***************************************************************************)
(* devicemanager::check_device() (c-source/jusbpmp_native_source/          *)
(* devicemanager.cpp): is a device still plugged in?  It walks the ports   *)
(* of the root hub of each host controller and compares what it reads      *)
(* there with the identifier it was given.                                 *)
(*                                                                         *)
(* Every request to a hub is a step: devices are plugged, unplugged and    *)
(* exchanged between any two of them, and any request may fail.            *)
(***************************************************************************)
EXTENDS Naturals

CONSTANTS
  Devices,      \* what may be plugged; a device is its serial number
  Model,        \* Model[d]: the product of d, which is its name and vid_pid
  Controllers,  \* number of host controllers
  Limit,        \* check_device() looks at controllers 0 .. Limit - 1
  PortCount,    \* ports of a root hub
  Hubs,         \* the root ports that hold an external hub
  LastErrors,   \* what GetLastError() tells of a failed request
  MaxMoves      \* bound: how often a device is plugged or unplugged

Empty == "empty"  \* the string ""

RootPorts == (0 .. Controllers - 1) \X (1 .. PortCount)

ASSUME CheckAssumption ==
  /\ Controllers \in Nat /\ Limit \in Nat /\ PortCount \in Nat
  /\ Hubs \subseteq RootPorts
  /\ LastErrors \subseteq Nat \ {0}
  /\ Empty \notin Devices
  /\ MaxMoves \in Nat

VARIABLES
  place,   \* where each device is
  moves,   \* number of moves so far
  wanted,  \* the device asked for
  pc,      \* the place in check_device()
  hcd,     \* the controller looked at
  port,    \* the port looked at
  read,    \* what has been read there
  hub,     \* is the handle of the hub open?
  open,    \* the controllers with an open handle
  ret,     \* the result
  here,    \* history: the devices that have been on a root port
  moved,   \* history: the devices that have been moved
  failed   \* history: the ports whose requests, or those to their hub, failed

bus     == <<place, moves, here, moved>>
results == <<hub, open, ret, failed>>
vars    == <<bus, wanted, pc, hcd, port, read, results>>

-----------------------------------------------------------------------------
Out     == <<>>        \* not plugged
Below   == <<0>>       \* on some external hub
Nothing == [serial |-> Empty, name |-> Empty, vid_pid |-> Empty]

Places == RootPorts \cup {Out, Below}

Free(s) ==
  /\ s \in RootPorts => s \notin Hubs /\ \A d \in Devices : place[d] # s
  /\ s = Below => Hubs # {}

\* what is on the port now
On(s) == {d \in Devices : place[d] = s}

Init ==
  /\ place \in [Devices -> Places]
  /\ \A d \in Devices :
       /\ place[d] \in RootPorts =>
            place[d] \notin Hubs /\ On(place[d]) = {d}
       /\ place[d] = Below => Hubs # {}
  /\ moves = 0
  /\ wanted \in Devices
  /\ pc = "controller" /\ hcd = 0 /\ port = 1
  /\ read = Nothing
  /\ hub = FALSE /\ open = {}
  /\ ret = 1
  /\ here = {d \in Devices : place[d] \in RootPorts}
  /\ moved = {} /\ failed = {}

\* A device is plugged, unplugged or moved.
Move(d) ==
  /\ moves < MaxMoves
  /\ \E s \in Places \ {place[d]} :
       /\ Free(s)
       /\ place' = [place EXCEPT ![d] = s]
       /\ here' = IF s \in RootPorts THEN here \cup {d} ELSE here
  /\ moves' = moves + 1 /\ moved' = moved \cup {d}
  /\ UNCHANGED <<wanted, pc, hcd, port, read, results>>

-----------------------------------------------------------------------------
(* One controller                                                          *)

GoTo(label) == pc' = label
Look(label) == pc = label /\ UNCHANGED <<bus, wanted>>

\* a request to the controller or to its root hub fails
HubLost == failed' = failed \cup ({hcd} \X (1 .. PortCount))

NextController == hcd' = hcd + 1 /\ port' = 1 /\ read' = Nothing

OpenController ==
  /\ Look("controller") /\ hcd < Limit /\ hcd < Controllers
  /\ open' = open \cup {hcd}
  /\ GoTo("rootHub")
  /\ UNCHANGED <<hcd, port, read, hub, ret, failed>>

\* Mutant: the loop goes on after the last controller
NoEnd ==
  /\ Look("controller")
  /\ HubLost
  /\ NextController
  /\ UNCHANGED <<pc, hub, open, ret>>

\* there is no such controller, or it cannot be opened
NoController ==
  /\ Look("controller") /\ hcd < Limit
  /\ HubLost
  /\ NextController
  /\ UNCHANGED <<pc, hub, open, ret>>

NoMoreControllers ==
  /\ Look("controller") /\ hcd = Limit
  /\ GoTo("returned")
  /\ UNCHANGED <<hcd, port, read, results>>

OpenRootHub ==
  /\ Look("rootHub")
  /\ hub' = TRUE
  /\ GoTo("nodeInformation")
  /\ UNCHANGED <<hcd, port, read, open, ret, failed>>

\* the only way on which the handle of the controller is closed
RootHubNameFails ==
  /\ Look("rootHub")
  /\ open' = open \ {hcd}
  /\ HubLost
  /\ NextController
  /\ GoTo("controller")
  /\ UNCHANGED <<hub, ret>>

ReadNodeInformation ==
  /\ Look("nodeInformation")
  /\ GoTo("port")
  /\ UNCHANGED <<hcd, port, read, results>>

\* Mutant: an error ends the check
StopAtError ==
  /\ \/ Look("rootHub") \/ Look("nodeInformation")
     \/ Look("port") /\ port <= PortCount
  /\ ret' \in LastErrors
  /\ hub' = FALSE
  /\ HubLost
  /\ GoTo("returned")
  /\ UNCHANGED <<hcd, port, read, open>>

\* the hub cannot be opened, or a request to it fails: on with the next
\* controller
HubFails ==
  /\ \/ Look("rootHub") \/ Look("nodeInformation")
     \/ Look("port") /\ port <= PortCount
  /\ ret' \in LastErrors
  /\ hub' = FALSE
  /\ HubLost
  /\ NextController
  /\ GoTo("controller")
  /\ UNCHANGED open

-----------------------------------------------------------------------------
(* One port                                                                *)

NextPort == port' = port + 1 /\ read' = Nothing /\ GoTo("port")

\* vid and pid come with the connection; an empty port has none
ReadConnection ==
  /\ Look("port") /\ port <= PortCount /\ <<hcd, port>> \notin Hubs
  /\ \/ /\ On(<<hcd, port>>) = {}
        /\ read' = read
     \/ \E d \in On(<<hcd, port>>) :
          read' = [read EXCEPT !.vid_pid = Model[d]]
  /\ GoTo("serial")
  /\ UNCHANGED <<hcd, port, results>>

\* the devices of an external hub are not looked at
SkipHub ==
  /\ Look("port") /\ port <= PortCount /\ <<hcd, port>> \in Hubs
  /\ NextPort
  /\ UNCHANGED <<hcd, results>>

\* get_stringdescriptor() asks the device that is on the port now, which need
\* not be that of the connection
ReadSerial ==
  /\ Look("serial")
  /\ \E d \in On(<<hcd, port>>) : read' = [read EXCEPT !.serial = d]
  /\ GoTo("name")
  /\ UNCHANGED <<hcd, port, results>>

ReadName ==
  /\ Look("name")
  /\ \E d \in On(<<hcd, port>>) : read' = [read EXCEPT !.name = Model[d]]
  /\ GoTo("compare")
  /\ UNCHANGED <<hcd, port, results>>

\* the port is empty now, or the request fails: the string is ""
NoString ==
  /\ \/ Look("serial") /\ GoTo("name")
     \/ Look("name") /\ GoTo("compare")
  /\ failed' = IF On(<<hcd, port>>) = {} THEN failed
                                        ELSE failed \cup {<<hcd, port>>}
  /\ UNCHANGED <<hcd, port, read, hub, open, ret>>

\* Mutant: the identifier does not have the serial number
IsOfModel(r) == r.name = Model[wanted] /\ r.vid_pid = Model[wanted]

IsWanted(r) ==
  /\ r.serial = wanted
  /\ r.name = Model[wanted] /\ r.vid_pid = Model[wanted]

DeviceFound ==
  /\ Look("compare") /\ IsWanted(read)
  /\ ret' = 0
  /\ hub' = FALSE
  /\ GoTo("returned")
  /\ UNCHANGED <<hcd, port, read, open, failed>>

OtherDevice ==
  /\ Look("compare") /\ ~ IsWanted(read)
  /\ NextPort
  /\ UNCHANGED <<hcd, results>>

\* ret is the TRUE of the last request
NoMorePorts ==
  /\ Look("port") /\ port > PortCount
  /\ ret' = 1
  /\ hub' = FALSE
  /\ NextController
  /\ GoTo("controller")
  /\ UNCHANGED <<open, failed>>

-----------------------------------------------------------------------------
Step ==
  \/ OpenController \/ NoController \/ NoMoreControllers
  \/ OpenRootHub \/ RootHubNameFails \/ ReadNodeInformation \/ HubFails
  \/ ReadConnection \/ SkipHub \/ ReadSerial \/ ReadName \/ NoString
  \/ DeviceFound \/ OtherDevice \/ NoMorePorts

Next == Step \/ \E d \in Devices : Move(d)

Spec == Init /\ [][Next]_vars

-----------------------------------------------------------------------------
(* Properties                                                              *)

\* The types of the variables; the loops stay in their bounds.
TypeOK ==
  /\ place \in [Devices -> Places] /\ moves \in 0 .. MaxMoves
  /\ wanted \in Devices
  /\ pc \in {"controller", "rootHub", "nodeInformation", "port", "serial",
             "name", "compare", "returned"}
  /\ hcd \in 0 .. Limit /\ port \in 1 .. PortCount + 1
  /\ hub \in BOOLEAN /\ open \subseteq 0 .. Limit - 1
  /\ ret \in {0, 1} \cup LastErrors
  /\ here \subseteq Devices /\ moved \subseteq Devices
  /\ failed \subseteq (0 .. Limit) \X (1 .. PortCount)

\* check_device() answers 0 only when the device has been plugged in during the
\* check, although an identifier may be put together from two devices that were
\* exchanged between two requests.
FoundWasHere == (pc = "returned" /\ ret = 0) => wanted \in here

\* A device that stays on a root port of one of the controllers looked at is
\* found, unless a request to this controller or to this device fails: errors of
\* other hubs and devices, and devices that come and go on other ports, do not
\* hide it.
StayingIsFound ==
  (pc = "returned" /\ wanted \notin moved) =>
    \A s \in RootPorts :
      (place[wanted] = s /\ s[1] < Limit /\ s \notin failed) => ret = 0
=============================================================================
