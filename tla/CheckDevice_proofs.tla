------------------------ MODULE CheckDevice_proofs -------------------------
(***************************************************************************)
(* What check_device() promises, for any devices, controllers, hubs and    *)
(* errors.                                                                 *)
(*                                                                         *)
(* The search for the device passes each port once.  A device that stays   *)
(* on a port is therefore either still ahead of the search, or being read, *)
(* and then all that has been read so far is its own (Ahead).              *)
(***************************************************************************)
EXTENDS CheckDevice, TLAPS

Products == {Model[d] : d \in Devices}

Scanning == {"rootHub", "nodeInformation", "port", "serial", "name",
             "compare"}
Reading  == {"serial", "name", "compare"}

ReadOK ==
  read \in [serial : Devices \cup {Empty}, name : Products \cup {Empty},
            vid_pid : Products \cup {Empty}]

\* where the loops are
LoopsOK ==
  /\ pc \in Scanning => hcd < Limit /\ hcd < Controllers
  /\ pc \in Reading => port <= PortCount
  /\ pc \in {"controller", "rootHub", "nodeInformation"} => port = 1
  /\ ret = 0 => pc = "returned"

\* a root port holds one device or a hub
PortsOK ==
  \A d \in Devices :
    place[d] \in RootPorts =>
      place[d] \notin Hubs /\ On(place[d]) = {d} /\ d \in here

\* what has been read was on a root port
ReadWasHere == read.serial \in Devices => read.serial \in here

\* the wanted device is on the root port s and answers every request
Stays(s) ==
  /\ wanted \notin moved /\ place[wanted] = s
  /\ s \in RootPorts /\ s[1] < Limit /\ s \notin failed

Ahead(s) ==
  /\ pc \in {"controller"} \cup Scanning => hcd <= s[1]
  /\ pc \in {"port"} \cup Reading => hcd < s[1] \/ port <= s[2]
  /\ pc = "returned" => ret = 0
  /\ (hcd = s[1] /\ port = s[2]) =>
       /\ pc \in Reading => read.vid_pid = Model[wanted]
       /\ pc \in {"name", "compare"} => read.serial = wanted
       /\ pc = "compare" => read.name = Model[wanted]

SearchInv == \A s \in RootPorts : Stays(s) => Ahead(s)

IInv ==
  /\ TypeOK /\ ReadOK /\ LoopsOK /\ PortsOK /\ ReadWasHere /\ SearchInv

\* The search begins with nothing read, before all ports.
LEMMA InitInv == Init => IInv
<1> SUFFICES ASSUME Init PROVE IInv
  OBVIOUS
<1> USE CheckAssumption DEF CheckAssumption
<1>0. /\ place \in [Devices -> Places] /\ moves = 0 /\ wanted \in Devices
      /\ pc = "controller" /\ hcd = 0 /\ port = 1 /\ ~ hub /\ open = {}
      /\ ret = 1 /\ here \subseteq Devices /\ moved = {} /\ failed = {}
  BY DEF Init
<1>1. TypeOK
  <2>1. ret \in {0, 1} \cup LastErrors
    BY <1>0
  <2>2. /\ moves \in 0 .. MaxMoves /\ hcd \in 0 .. Limit
        /\ port \in 1 .. PortCount + 1
    BY <1>0
  <2>3. hub \in BOOLEAN
    BY DEF Init
  <2>4. /\ open \subseteq 0 .. Limit - 1
        /\ moved \subseteq Devices
        /\ failed \subseteq (0 .. Limit) \X (1 .. PortCount)
    BY <1>0
  <2> QED
    BY <1>0, <2>1, <2>2, <2>3, <2>4 DEF TypeOK
<1>2. ReadOK
  BY DEF Init, ReadOK, Nothing
<1>3. LoopsOK
  BY DEF Init, LoopsOK, Scanning, Reading
<1>4. PortsOK
  BY DEF Init, PortsOK
<1>5. ReadWasHere
  BY DEF Init, ReadWasHere, Nothing
<1>6. SearchInv
  BY DEF Init, SearchInv, Ahead, Scanning, Reading, RootPorts
<1> QED
  BY <1>1, <1>2, <1>3, <1>4, <1>5, <1>6 DEF IInv

-----------------------------------------------------------------------------
(* The moves                                                               *)

\* A device that is moved goes to a free port, and is none that stays.
LEMMA MoveInv ==
  ASSUME IInv, NEW d \in Devices, Move(d)
  PROVE  IInv'
<1> USE CheckAssumption DEF CheckAssumption
<1>1. PICK s \in Places \ {place[d]} :
        /\ Free(s)
        /\ place' = [place EXCEPT ![d] = s]
        /\ here' = IF s \in RootPorts THEN here \cup {d} ELSE here
  BY DEF Move
<1>2. /\ UNCHANGED <<wanted, pc, hcd, port, read, hub, open, ret, failed>>
      /\ moves < MaxMoves /\ moves' = moves + 1
      /\ moved' = moved \cup {d}
  BY DEF Move, results
<1>3. TypeOK'
  BY <1>1, <1>2 DEF IInv, TypeOK
<1>4. ReadOK' /\ LoopsOK'
  BY <1>2 DEF IInv, ReadOK, LoopsOK
<1>5. PortsOK'
  <2> SUFFICES ASSUME NEW e \in Devices, place'[e] \in RootPorts
               PROVE  place'[e] \notin Hubs /\ On(place[e])' = {e} /\ e \in here'
    BY DEF PortsOK
  <2>1. place \in [Devices -> Places]
    BY DEF IInv, TypeOK
  <2>2. CASE e = d
    BY <1>1, <2>1, <2>2 DEF On, Free
  <2>3. CASE e # d
    <3>1. place'[e] = place[e] /\ place[e] \notin Hubs /\ On(place[e]) = {e}
          /\ e \in here
      BY <1>1, <2>1, <2>3 DEF IInv, PortsOK
    <3>2. s # place[e]
      BY <1>1, <3>1 DEF Free
    <3> QED
      BY <1>1, <2>1, <2>3, <3>1, <3>2 DEF On
  <2> QED
    BY <2>2, <2>3
<1>6. ReadWasHere'
  BY <1>1, <1>2 DEF IInv, ReadWasHere
<1>7. SearchInv'
  <2> SUFFICES ASSUME NEW t \in RootPorts, Stays(t)'
               PROVE  Ahead(t)'
    BY DEF SearchInv
  <2>1. Stays(t)
    BY <1>1, <1>2 DEF IInv, TypeOK, Stays
  <2> QED
    BY <1>2, <2>1 DEF IInv, SearchInv, Ahead
<1> QED
  BY <1>3, <1>4, <1>5, <1>6, <1>7 DEF IInv

-----------------------------------------------------------------------------
(* The steps of check_device()                                             *)

\* check_device() moves no device.
LEMMA StepKeepsBus ==
  ASSUME Step
  PROVE  UNCHANGED <<bus, wanted>>
BY DEF Step, OpenController, NoController, NoMoreControllers, OpenRootHub,
       RootHubNameFails, ReadNodeInformation, HubFails, ReadConnection,
       SkipHub, ReadSerial, ReadName, NoString, DeviceFound, OtherDevice,
       NoMorePorts, Look

\* The types and the bounds of the loops.
LEMMA StepLoops ==
  ASSUME IInv, Step
  PROVE  TypeOK' /\ LoopsOK'
<1> USE CheckAssumption DEF CheckAssumption, Scanning, Reading
<1> USE DEF IInv, TypeOK, LoopsOK, Look, GoTo, HubLost,
            NextController, NextPort
<1>0. UNCHANGED <<place, moves, here, moved, wanted>>
  BY StepKeepsBus DEF bus
<1>1. CASE OpenController
  BY <1>0, <1>1 DEF OpenController, results
<1>2. CASE NoController
  BY <1>0, <1>2 DEF NoController, results
<1>3. CASE NoMoreControllers
  BY <1>0, <1>3 DEF NoMoreControllers, results
<1>4. CASE OpenRootHub
  BY <1>0, <1>4 DEF OpenRootHub, results
<1>5. CASE RootHubNameFails
  BY <1>0, <1>5 DEF RootHubNameFails, results
<1>6. CASE ReadNodeInformation
  BY <1>0, <1>6 DEF ReadNodeInformation, results
<1>7. CASE HubFails
  <2>1. /\ pc' = "controller" /\ hub' = FALSE /\ port' = 1
        /\ hcd' = hcd + 1 /\ hcd < Limit /\ open' = open
    BY <1>7 DEF HubFails, results
  <2>2. ret' \in {1} \cup LastErrors /\ failed' \subseteq (0 .. Limit) \X (1 .. PortCount)
    BY <1>7 DEF HubFails, results
  <2>3. ret' \in {0, 1} \cup LastErrors /\ ret' # 0
    BY <2>2
  <2>4. hcd' \in 0 .. Limit /\ port' \in 1 .. PortCount + 1
    BY <2>1
  <2> QED
    BY <1>0, <2>1, <2>2, <2>3, <2>4
<1>8. CASE ReadConnection
  BY <1>0, <1>8 DEF ReadConnection, results
<1>9. CASE SkipHub
  BY <1>0, <1>9 DEF SkipHub, results
<1>10. CASE ReadSerial
  BY <1>0, <1>10 DEF ReadSerial, results
<1>11. CASE ReadName
  BY <1>0, <1>11 DEF ReadName, results
<1>12. CASE NoString
  BY <1>0, <1>12 DEF NoString, results
<1>13. CASE DeviceFound
  BY <1>0, <1>13 DEF DeviceFound, results
<1>14. CASE OtherDevice
  BY <1>0, <1>14 DEF OtherDevice, results
<1>15. CASE NoMorePorts
  <2>1. /\ pc' = "controller" /\ hub' = FALSE /\ port' = 1
        /\ hcd' = hcd + 1 /\ hcd < Limit /\ open' = open
    BY <1>15 DEF NoMorePorts, results
  <2>2. ret' \in {1} \cup LastErrors /\ failed' \subseteq (0 .. Limit) \X (1 .. PortCount)
    BY <1>15 DEF NoMorePorts, results
  <2>3. ret' \in {0, 1} \cup LastErrors /\ ret' # 0
    BY <2>2
  <2>4. hcd' \in 0 .. Limit /\ port' \in 1 .. PortCount + 1
    BY <2>1
  <2> QED
    BY <1>0, <2>1, <2>2, <2>3, <2>4
<1> QED
  BY <1>1, <1>2, <1>3, <1>4, <1>5, <1>6, <1>7, <1>8, <1>9, <1>10, <1>11, <1>12, <1>13, <1>14, <1>15 DEF Step

\* The ports are those of before, and what is read comes from a device that is
\* on its port.
LEMMA StepReads ==
  ASSUME IInv, Step
  PROVE  ReadOK' /\ PortsOK' /\ ReadWasHere'
<1> USE CheckAssumption DEF CheckAssumption
<1>0. UNCHANGED <<place, here>>
  BY StepKeepsBus DEF bus
<1>1. PortsOK'
  BY <1>0 DEF IInv, PortsOK, On
<1>2. CASE ReadSerial
  <2>1. PICK d \in On(<<hcd, port>>) : read' = [read EXCEPT !.serial = d]
    BY <1>2 DEF ReadSerial
  <2>2. d \in Devices /\ place[d] = <<hcd, port>>
    BY <2>1 DEF On
  <2>3. <<hcd, port>> \in RootPorts
    BY <1>2 DEF IInv, LoopsOK, TypeOK, RootPorts, ReadSerial, Look, Scanning,
                Reading
  <2>4. d \in here
    BY <2>2, <2>3 DEF IInv, PortsOK
  <2> QED
    BY <1>0, <1>1, <2>1, <2>2, <2>4 DEF IInv, ReadOK, ReadWasHere
<1>3. CASE ReadConnection
  <2>1. \/ read' = read
        \/ \E d \in Devices : read' = [read EXCEPT !.vid_pid = Model[d]]
    BY <1>3 DEF ReadConnection, On
  <2> QED
    BY <1>0, <1>1, <2>1 DEF IInv, ReadOK, ReadWasHere, Products
<1>4. CASE ReadName
  <2>1. \E d \in Devices : read' = [read EXCEPT !.name = Model[d]]
    BY <1>4 DEF ReadName, On
  <2> QED
    BY <1>0, <1>1, <2>1 DEF IInv, ReadOK, ReadWasHere, Products
<1>5. CASE ~ (ReadSerial \/ ReadConnection \/ ReadName)
  <2>1. read' = read \/ read' = Nothing
    BY <1>5 DEF Step, OpenController, NoController, NoMoreControllers,
       OpenRootHub, RootHubNameFails, ReadNodeInformation, HubFails, SkipHub,
       NoString, DeviceFound, OtherDevice, NoMorePorts, NextController, NextPort
  <2> QED
    BY <1>0, <1>1, <2>1 DEF IInv, ReadOK, ReadWasHere, Nothing
<1> QED
  BY <1>2, <1>3, <1>4, <1>5

\* A device that stays is not passed over.
LEMMA StepSearch ==
  ASSUME IInv, Step
  PROVE  SearchInv'
<1> SUFFICES ASSUME NEW s \in RootPorts, Stays(s)'
             PROVE  Ahead(s)'
  BY DEF SearchInv
<1> USE CheckAssumption DEF CheckAssumption, Scanning, Reading
<1>0. UNCHANGED <<place, here, moved, wanted>>
  BY StepKeepsBus DEF bus
<1>a. failed \subseteq failed'
  BY DEF Step, OpenController, NoController, NoMoreControllers, OpenRootHub,
       RootHubNameFails, ReadNodeInformation, HubFails, ReadConnection,
       SkipHub, ReadSerial, ReadName, NoString, DeviceFound, OtherDevice,
       NoMorePorts, HubLost, results
<1>b. Stays(s) /\ s \notin failed'
  BY <1>0, <1>a DEF Stays
<1>c. Ahead(s)
  BY <1>b DEF IInv, SearchInv
<1>d. /\ s \notin Hubs /\ On(s) = {wanted}
      /\ s[1] \in Nat /\ s[1] < Limit /\ s[1] < Controllers
      /\ s[2] \in 1 .. PortCount /\ s = <<s[1], s[2]>>
  BY <1>b DEF IInv, PortsOK, TypeOK, Stays, RootPorts
<1>e. /\ hcd \in Nat /\ port \in Nat /\ wanted \in Devices
      /\ hcd <= Limit /\ port >= 1 /\ port <= PortCount + 1
      /\ pc \in {"controller", "returned"} \cup Scanning
  BY DEF IInv, TypeOK
<1>f. /\ pc \in Scanning => hcd < Limit /\ hcd < Controllers
      /\ pc \in {"controller", "rootHub", "nodeInformation"} => port = 1
      /\ pc \in Reading => port <= PortCount
      /\ ret = 0 => pc = "returned"
  BY DEF IInv, LoopsOK
<1>g. HubLost => hcd # s[1]
  BY <1>b, <1>d DEF HubLost
<1>h. <<hcd, port>> = s <=> hcd = s[1] /\ port = s[2]
  BY <1>d
<1> USE <1>0, <1>b, <1>c, <1>d, <1>e, <1>f DEF Ahead, Look, GoTo
<1>1. CASE OpenController
  BY <1>1 DEF OpenController, results
<1>2. CASE NoController
  BY <1>2, <1>g DEF NoController, NextController, results
<1>3. CASE NoMoreControllers
  BY <1>3 DEF NoMoreControllers, results
<1>4. CASE OpenRootHub
  BY <1>4 DEF OpenRootHub, results
<1>5. CASE RootHubNameFails
  BY <1>5, <1>g DEF RootHubNameFails, NextController, results
<1>6. CASE ReadNodeInformation
  BY <1>6 DEF ReadNodeInformation, results
<1>7. CASE HubFails
  BY <1>7, <1>g DEF HubFails, NextController, results
<1>8. CASE ReadConnection
  <2>1. UNCHANGED <<hcd, port>>
    BY <1>8 DEF ReadConnection, results
  <2>2. (hcd = s[1] /\ port = s[2]) => read' = [read EXCEPT !.vid_pid = Model[wanted]]
    BY <1>8, <1>h DEF ReadConnection
  <2>3. read \in [serial : Devices \cup {Empty}, name : Products \cup {Empty},
                 vid_pid : Products \cup {Empty}]
    BY DEF IInv, ReadOK
  <2> QED
    BY <1>8, <2>1, <2>2, <2>3 DEF ReadConnection
<1>9. CASE SkipHub
  BY <1>9, <1>h DEF SkipHub, NextPort, results
<1>10. CASE ReadSerial
  <2>1. UNCHANGED <<hcd, port>>
    BY <1>10 DEF ReadSerial, results
  <2>2. (hcd = s[1] /\ port = s[2]) => read' = [read EXCEPT !.serial = wanted]
    BY <1>10, <1>h DEF ReadSerial
  <2>3. read \in [serial : Devices \cup {Empty}, name : Products \cup {Empty},
                 vid_pid : Products \cup {Empty}]
    BY DEF IInv, ReadOK
  <2> QED
    BY <1>10, <2>1, <2>2, <2>3 DEF ReadSerial
<1>11. CASE ReadName
  <2>1. UNCHANGED <<hcd, port>>
    BY <1>11 DEF ReadName, results
  <2>2. (hcd = s[1] /\ port = s[2]) => read' = [read EXCEPT !.name = Model[wanted]]
    BY <1>11, <1>h DEF ReadName
  <2>3. read \in [serial : Devices \cup {Empty}, name : Products \cup {Empty},
                 vid_pid : Products \cup {Empty}]
    BY DEF IInv, ReadOK
  <2> QED
    BY <1>11, <2>1, <2>2, <2>3 DEF ReadName
<1>12. CASE NoString
  BY <1>12, <1>h DEF NoString, results
<1>13. CASE DeviceFound
  BY <1>13 DEF DeviceFound, results
<1>14. CASE OtherDevice
  BY <1>14, <1>h DEF OtherDevice, NextPort, IsWanted, results
<1>15. CASE NoMorePorts
  BY <1>15 DEF NoMorePorts, NextController, results
<1> QED
  BY <1>1, <1>2, <1>3, <1>4, <1>5, <1>6, <1>7, <1>8, <1>9, <1>10, <1>11, <1>12, <1>13, <1>14, <1>15 DEF Step

-----------------------------------------------------------------------------
(* The theorems                                                            *)

\* Types, loops, ports and the search: the inductive invariant.
THEOREM CheckInvariant == Spec => []IInv
<1>1. IInv /\ [Next]_vars => IInv'
  <2> SUFFICES ASSUME IInv, [Next]_vars PROVE IInv'
    OBVIOUS
  <2>1. CASE Step
    BY <2>1, StepLoops, StepReads, StepSearch DEF IInv
  <2>2. CASE \E d \in Devices : Move(d)
    BY <2>2, MoveInv
  <2>3. CASE UNCHANGED vars
    BY <2>3 DEF vars, bus, results, IInv, TypeOK, ReadOK, LoopsOK, PortsOK, On,
                ReadWasHere, SearchInv, Stays, Ahead
  <2> QED
    BY <2>1, <2>2, <2>3 DEF Next
<1> QED
  BY InitInv, <1>1, PTL DEF Spec

\* The variables of check_device() have their types, and its loops end at the
\* last port and the last controller, for any bus.
THEOREM CheckTypeCorrect == Spec => []TypeOK
<1>1. IInv => TypeOK
  BY DEF IInv
<1> QED
  BY CheckInvariant, <1>1, PTL

\* A device that stays on its root port and answers is found (devicemanager.cpp
\* 583-791), whatever is moved elsewhere and whatever fails elsewhere.
THEOREM StayingDeviceIsFound == Spec => []StayingIsFound
<1>1. IInv => StayingIsFound
  <2> SUFFICES ASSUME IInv, pc = "returned", wanted \notin moved,
                      NEW s \in RootPorts,
                      place[wanted] = s, s[1] < Limit, s \notin failed
               PROVE  ret = 0
    BY DEF StayingIsFound
  <2>1. Stays(s)
    BY DEF Stays
  <2> QED
    BY <2>1 DEF IInv, SearchInv, Ahead
<1> QED
  BY CheckInvariant, <1>1, PTL

\* A device that is found has been plugged in during the check.
THEOREM FoundDeviceWasHere == Spec => []FoundWasHere
<1>1. Init => FoundWasHere
  BY DEF Init, FoundWasHere
<1>2. IInv /\ FoundWasHere /\ [Next]_vars => FoundWasHere'
  <2> SUFFICES ASSUME IInv, FoundWasHere, [Next]_vars PROVE FoundWasHere'
    OBVIOUS
  <2>1. CASE DeviceFound
    <3>1. read.serial = wanted /\ wanted \in Devices
      BY <2>1 DEF DeviceFound, IsWanted, IInv, TypeOK
    <3>2. wanted \in here
      BY <3>1 DEF IInv, ReadWasHere
    <3> QED
      BY <2>1, <3>2 DEF DeviceFound, Look, bus, FoundWasHere
  <2>2. CASE Step /\ ~ DeviceFound
    <3>1. pc' = "returned" => pc = "controller" /\ ret' = ret
      BY <2>2 DEF Step, OpenController, NoController, NoMoreControllers,
         OpenRootHub, RootHubNameFails, ReadNodeInformation, HubFails,
         ReadConnection, SkipHub, ReadSerial, ReadName, NoString, OtherDevice,
         NoMorePorts, Look, GoTo, NextPort, results
    <3> QED
      BY <3>1 DEF IInv, LoopsOK, FoundWasHere
  <2>3. CASE \E d \in Devices : Move(d)
    BY <2>3 DEF Move, results, FoundWasHere
  <2>4. CASE UNCHANGED vars
    BY <2>4 DEF vars, bus, results, FoundWasHere
  <2> QED
    BY <2>1, <2>2, <2>3, <2>4 DEF Next
<1> QED
  BY CheckInvariant, <1>1, <1>2, PTL DEF Spec
=============================================================================
