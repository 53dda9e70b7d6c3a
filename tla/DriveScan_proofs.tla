------------------------- MODULE DriveScan_proofs --------------------------
(***************************************************************************)
(* What the search for removable drives promises, for any drives, numbers, *)
(* letters and failures.                                                   *)
(*                                                                         *)
(* A disk that stays keeps its number and its letters, and no other disk   *)
(* has its number meanwhile (DrivesOK).  So what the search has noted of   *)
(* the volume it looks at stays true (LookInv), and a volume that is not   *)
(* to come any more is in the list, or is the one looked at (SearchInv).   *)
(***************************************************************************)
EXTENDS DriveScan, TLAPS

Looking  == {"number", "descriptor", "letter", "information"}
Numbered == {"descriptor", "letter", "information"}
Trying   == {"letter", "information"}

DrivesOK ==
  /\ \A d, e \in Disks : d # e /\ Plugged(d) => number[d] # number[e]
  /\ \A v \in Volumes : letter[v] # NoLetter => Plugged(Disk[v])

Stays(v) == Disk[v] \notin gone

PresentOK ==
  /\ pc = "start" => present = {}
  /\ todo \subseteq present
  /\ pc \in Looking => vol \in present
  /\ \A v \in Volumes : list[v] # NoLetter => v \in present
  /\ \A v \in present : Stays(v) => Plugged(Disk[v])
  /\ (pc = "returned" /\ result = 0 /\ ~ cut) => todo = {}
  /\ pc # "returned" => result = 0

\* l is a letter of the disk of v, or of a drive of another type with its number
Found(l, v) ==
  \/ LetterOf(l, v)
  \/ l \in OtherLetters /\ number[Disk[v]] \in OtherNumbers

LookInv ==
  Stays(vol) =>
    /\ pc \in Numbered => devNumber = number[Disk[vol]]
    /\ (pc \in Trying /\ mount # NoLetter) => Found(mount, vol)
    /\ (pc \in Trying /\ vol \notin failed /\ letter[vol] # NoLetter
          /\ letter[vol] < drive) => mount # NoLetter
    /\ pc = "information" => drive = LetterCount + 1

ListInv ==
  \A v \in Volumes :
    (list[v] # NoLetter /\ Stays(v)) => Found(list[v], v)

SearchInv ==
  \A v \in present :
    (Stays(v) /\ Disk[v] \in Matching /\ v \notin failed /\ letter[v] # NoLetter) =>
      v \in todo \/ list[v] # NoLetter \/ (pc \in Looking /\ v = vol)

IInv == TypeOK /\ DrivesOK /\ PresentOK /\ LookInv /\ ListInv /\ SearchInv

\* The numbers behind a letter, spelt out.
LEMMA NumbersAtMeaning ==
  ASSUME NEW l, NEW n
  PROVE  n \in NumbersAt(l) <=>
           \/ \E w \in Volumes : letter[w] = l /\ number[Disk[w]] = n
           \/ \E o \in Others : o[1] = l /\ o[2] = n
BY DEF NumbersAt

\* A letter that was found for a volume that stays is still in use.
LEMMA FoundIsMounted ==
  ASSUME TypeOK, NEW v \in Volumes, NEW l \in Letters, Found(l, v)
  PROVE  Mounted(l)
<1>1. CASE LetterOf(l, v)
  <2>1. PICK w \in Volumes : letter[w] = l
    BY <1>1 DEF LetterOf, Of
  <2>2. number[Disk[w]] \in NumbersAt(l)
    BY <2>1, NumbersAtMeaning
  <2> QED
    BY <2>2 DEF Mounted
<1>2. CASE l \in OtherLetters
  <2>1. PICK o \in Others : o[1] = l
    BY <1>2 DEF OtherLetters
  <2>2. o[2] \in NumbersAt(l)
    BY <2>1, NumbersAtMeaning
  <2> QED
    BY <2>2 DEF Mounted
<1> QED
  BY <1>1, <1>2 DEF Found

\* The search has not begun.
LEMMA InitInv == Init => IInv
<1> SUFFICES ASSUME Init PROVE IInv
  OBVIOUS
<1> USE ScanAssumption DEF ScanAssumption, NoLetter, NoNumber
<1>1. TypeOK
  <2>1. /\ number \in [Disks -> Numbers \cup {NoNumber}]
        /\ letter \in [Volumes -> Letters \cup {NoLetter}]
    BY DEF Init
  <2>2. /\ moves \in 0 .. MaxMoves
        /\ drive \in 1 .. LetterCount + 1 /\ result \in {0, 1}
    BY DEF Init
  <2>3. handle \in BOOLEAN
    BY DEF Init
  <2> QED
    BY <2>1, <2>2, <2>3 DEF Init, TypeOK
<1>2. DrivesOK
  BY DEF Init, DrivesOK
<1>3. PresentOK
  BY DEF Init, PresentOK, Looking
<1>4. LookInv
  BY DEF Init, LookInv, Numbered, Trying
<1>5. ListInv
  BY DEF Init, ListInv
<1>6. SearchInv
  BY DEF Init, SearchInv
<1> QED
  BY <1>1, <1>2, <1>3, <1>4, <1>5, <1>6 DEF IInv

-----------------------------------------------------------------------------
(* The drives                                                              *)

\* What is true of the disks that stay does not depend on the others.
LEMMA MoveInv ==
  ASSUME IInv, NEW d \in Disks, Plug(d) \/ Unplug(d)
  PROVE  IInv'
<1> USE ScanAssumption DEF ScanAssumption
<1>1. /\ number \in [Disks -> Numbers \cup {NoNumber}]
      /\ letter \in [Volumes -> Letters \cup {NoLetter}]
      /\ Disk \in [Volumes -> Disks] /\ vol \in Volumes
      /\ present \subseteq Volumes /\ handle \in BOOLEAN
  BY DEF IInv, TypeOK
<1>2. /\ UNCHANGED <<pc, todo, vol, devNumber, drive, mount, list, result,
                     present, failed, cut>>
      /\ moves < MaxMoves /\ moves' = moves + 1
      /\ gone \subseteq gone'
  BY DEF Plug, Unplug, found
<1>3. /\ number' \in [Disks -> Numbers \cup {NoNumber}]
      /\ letter' \in [Volumes -> Letters \cup {NoLetter}]
      /\ \A e \in Disks \ {d} : number'[e] = number[e]
      /\ \A v \in Volumes : Disk[v] # d => letter'[v] = letter[v]
      /\ gone' \subseteq Disks /\ handle' \in BOOLEAN
  <2>1. CASE Plug(d)
    <3>1. PICK f \in [Of(d) -> FreeLetters \cup {NoLetter}] :
            letter' = [v \in Volumes |-> IF v \in Of(d) THEN f[v]
                                                        ELSE letter[v]]
      BY <2>1 DEF Plug
    <3>2. FreeLetters \subseteq Letters
      BY DEF FreeLetters
    <3>3. PICK n \in Numbers : number' = [number EXCEPT ![d] = n]
      BY <2>1 DEF Plug
    <3>4. gone' = gone /\ handle' = handle
      BY <2>1 DEF Plug, found
    <3> QED
      BY <1>1, <3>1, <3>2, <3>3, <3>4 DEF Of, IInv, TypeOK
  <2>2. CASE Unplug(d)
    BY <1>1, <2>2 DEF Unplug, Of, IInv, TypeOK
  <2> QED
    BY <2>1, <2>2
<1>4. DrivesOK'
  <2>1. CASE Plug(d)
    <3>1. PICK n \in Numbers :
            /\ \A e \in Disks : number[e] # n
            /\ number' = [number EXCEPT ![d] = n]
      BY <2>1 DEF Plug
    <3>2. number'[d] # NoNumber
      BY <1>1, <3>1 DEF NoNumber
    <3> QED
      BY <1>1, <1>3, <3>1, <3>2 DEF IInv, DrivesOK, Plugged
  <2>2. CASE Unplug(d)
    <3>1. /\ number'[d] = NoNumber
          /\ \A v \in Volumes : Disk[v] = d => letter'[v] = NoLetter
      BY <1>1, <2>2 DEF Unplug, Of
    <3> QED
      BY <1>1, <1>3, <3>1 DEF IInv, DrivesOK, Plugged
  <2> QED
    BY <2>1, <2>2
<1>5. \A v \in present : Stays(v)' =>
        /\ Stays(v) /\ Disk[v] # d /\ Disk[v] \in Disks
        /\ number'[Disk[v]] = number[Disk[v]] /\ letter'[v] = letter[v]
  <2> SUFFICES ASSUME NEW v \in present, Stays(v)'
               PROVE  Stays(v) /\ Disk[v] # d /\ Disk[v] \in Disks
    BY <1>1, <1>3
  <2>1. Stays(v) /\ Disk[v] \in Disks
    BY <1>1, <1>2 DEF Stays
  <2>2. Plugged(Disk[v])
    BY <2>1 DEF IInv, PresentOK
  <2>3. CASE Plug(d)
    BY <2>1, <2>2, <2>3 DEF Plug
  <2>4. CASE Unplug(d)
    BY <2>1, <2>4 DEF Unplug, Stays
  <2> QED
    BY <2>1, <2>3, <2>4
<1>6. ASSUME NEW v \in present, Stays(v)', NEW l, Found(l, v)
      PROVE  Found(l, v)'
  BY <1>1, <1>3, <1>5, <1>6 DEF Found, LetterOf, Of
<1>7. TypeOK'
  <2>1. moves' \in 0 .. MaxMoves
    BY <1>2 DEF IInv, TypeOK
  <2> QED
    BY <1>2, <1>3, <2>1 DEF IInv, TypeOK
<1>8. PresentOK'
  BY <1>2, <1>5 DEF IInv, PresentOK, Plugged
<1>9. LookInv'
  <2> SUFFICES ASSUME Stays(vol)', pc \in Looking
               PROVE  /\ pc \in Numbered => devNumber = number'[Disk[vol]]
                      /\ (pc \in Trying /\ mount # NoLetter) =>
                           Found(mount, vol)'
                      /\ letter'[vol] = letter[vol] /\ Stays(vol)
    BY <1>2 DEF IInv, LookInv, Looking, Numbered, Trying
  <2>1. vol \in present
    BY DEF IInv, PresentOK
  <2>2. /\ Stays(vol) /\ number'[Disk[vol]] = number[Disk[vol]]
        /\ letter'[vol] = letter[vol]
    BY <1>2, <1>5, <2>1 DEF Stays
  <2>3. Found(mount, vol) => Found(mount, vol)'
    BY <1>1, <1>2, <1>3, <1>5, <2>1 DEF Found, LetterOf, Of, Stays
  <2> QED
    BY <2>2, <2>3 DEF IInv, LookInv
<1>10. ListInv'
  <2> SUFFICES ASSUME NEW v \in Volumes, list[v] # NoLetter, Stays(v)'
               PROVE  Found(list[v], v)'
    BY <1>2 DEF ListInv, Found, LetterOf
  <2>1. v \in present
    BY DEF IInv, PresentOK
  <2>2. Found(list[v], v)
    BY <1>5, <2>1 DEF IInv, ListInv
  <2> QED
    BY <1>1, <1>2, <1>3, <1>5, <2>1, <2>2 DEF Found, LetterOf, Of
<1>11. SearchInv'
  BY <1>2, <1>5 DEF IInv, SearchInv
<1> QED
  BY <1>4, <1>7, <1>8, <1>9, <1>10, <1>11 DEF IInv

-----------------------------------------------------------------------------
(* The steps of the search                                                 *)

\* The search moves no drive.
LEMMA StepKeepsDrives ==
  ASSUME Step
  PROVE  UNCHANGED <<number, letter, moves, gone>>
BY DEF Step, ListVolumes, NoList, OpenVolume, VolumeSkipped, NoInterface,
       EnumerationEnds, NoMoreVolumes, ReadNumber, ReadDescriptor, NoneMatches,
       RequestFails, TryLetter, LetterFails, LettersTried, EnterDevice, InformationFails, NotMounted,
       At, drives

\* The types, and what is in the list of volumes.
LEMMA StepPresent ==
  ASSUME IInv, Step
  PROVE  TypeOK' /\ PresentOK' /\ DrivesOK'
<1> USE ScanAssumption DEF ScanAssumption, Looking
<1>0. UNCHANGED <<number, letter, moves, gone>>
  BY StepKeepsDrives
<1>a. DrivesOK'
  BY <1>0 DEF IInv, DrivesOK, Plugged
<1> USE DEF IInv, TypeOK, PresentOK, Stays, Plugged, At, GoTo, Skip, found
<1>1. CASE ListVolumes
  BY <1>0, <1>a, <1>1 DEF ListVolumes
<1>2. CASE NoList
  BY <1>0, <1>a, <1>2 DEF NoList
<1>3. CASE OpenVolume
  BY <1>0, <1>a, <1>3 DEF OpenVolume
<1>4. CASE VolumeSkipped
  BY <1>0, <1>a, <1>4 DEF VolumeSkipped
<1>5. CASE NoInterface
  BY <1>0, <1>a, <1>5 DEF NoInterface
<1>6. CASE NoMoreVolumes \/ EnumerationEnds
  BY <1>0, <1>a, <1>6 DEF NoMoreVolumes, EnumerationEnds
<1>7. CASE ReadNumber
  <2>1. devNumber' \in Nat \cup {NoNumber}
    BY <1>7 DEF ReadNumber
  <2> QED
    BY <1>0, <1>a, <1>7, <2>1 DEF ReadNumber
<1>8. CASE ReadDescriptor
  <2>0. handle' \in BOOLEAN
    BY <1>8 DEF ReadDescriptor
  <2>1. drive' = 1 /\ mount' = NoLetter /\ 1 \in 1 .. LetterCount + 1
    BY <1>8 DEF ReadDescriptor
  <2>2. TypeOK'
    BY <1>0, <1>8, <2>0, <2>1 DEF ReadDescriptor
  <2>3. PresentOK'
    BY <1>0, <1>8 DEF ReadDescriptor
  <2> QED
    BY <1>a, <2>2, <2>3
<1>9. CASE RequestFails \/ NoneMatches
  BY <1>0, <1>a, <1>9 DEF RequestFails, NoneMatches
<1>10. CASE TryLetter
  <2>1. /\ drive' \in 1 .. LetterCount + 1
        /\ mount' \in Letters \cup {NoLetter}
    BY <1>10 DEF TryLetter, Letters, NoLetter
  <2> QED
    BY <1>0, <1>a, <1>10, <2>1 DEF TryLetter
<1>11. CASE LetterFails
  <2>1. /\ drive' \in 1 .. LetterCount + 1
        /\ failed' \subseteq Volumes
    BY <1>11 DEF LetterFails, Letters, NoLetter
  <2> QED
    BY <1>0, <1>a, <1>11, <2>1 DEF LetterFails
<1>12. CASE LettersTried
  BY <1>0, <1>a, <1>12 DEF LettersTried
<1>13. CASE EnterDevice
  <2>1. /\ list' \in [Volumes -> Letters \cup {NoLetter}]
        /\ mount # NoLetter
    BY <1>13 DEF EnterDevice, Letters, NoLetter, Mounted
  <2> QED
    BY <1>0, <1>a, <1>13, <2>1 DEF EnterDevice, Mounted
<1>14. CASE InformationFails
  BY <1>0, <1>a, <1>14 DEF InformationFails
<1>15. CASE NotMounted
  BY <1>0, <1>a, <1>15 DEF NotMounted
<1> QED
  BY <1>1, <1>2, <1>3, <1>4, <1>5, <1>6, <1>7, <1>8, <1>9, <1>10, <1>11, <1>12, <1>13, <1>14, <1>15 DEF Step

\* What has been noted of the volume looked at is true.
LEMMA StepLook ==
  ASSUME IInv, Step
  PROVE  LookInv'
<1> USE ScanAssumption DEF ScanAssumption
<1>0. UNCHANGED <<number, letter, gone>>
  BY StepKeepsDrives
<1> SUFFICES ASSUME Stays(vol)', pc' \in Numbered
             PROVE  /\ devNumber' = number[Disk[vol']]
                    /\ (pc' \in Trying /\ mount' # NoLetter) =>
                         Found(mount', vol')
                    /\ (pc' \in Trying /\ vol' \notin failed'
                          /\ letter[vol'] # NoLetter
                          /\ letter[vol'] < drive') => mount' # NoLetter
                    /\ pc' = "information" => drive' = LetterCount + 1
  BY <1>0 DEF LookInv, Numbered, Trying, Found, LetterOf
<1>a. /\ drive \in 1 .. LetterCount + 1 /\ mount \in Letters \cup {NoLetter}
      /\ letter \in [Volumes -> Letters \cup {NoLetter}] /\ vol \in Volumes
  BY DEF IInv, TypeOK
<1>b. CASE UNCHANGED <<vol, devNumber, drive, mount, pc, failed>>
  BY <1>0, <1>b DEF IInv, LookInv, Stays, Numbered
<1>7. CASE ReadNumber
  BY <1>7 DEF ReadNumber, GoTo, Trying
<1>8. CASE ReadDescriptor
  <2>1. devNumber' = number[Disk[vol']]
    BY <1>0, <1>8 DEF ReadDescriptor, At, IInv, LookInv, Stays, Numbered
  <2>2. drive' = 1 /\ mount' = NoLetter /\ pc' = "letter" /\ vol' = vol
    BY <1>8 DEF ReadDescriptor, GoTo
  <2>3. ~ (letter[vol'] # NoLetter /\ letter[vol'] < drive')
    BY <1>a, <2>2 DEF Letters
  <2> QED
    BY <2>1, <2>2, <2>3
<1>10. CASE TryLetter
  <2>1. /\ pc = "letter" /\ pc' = pc /\ vol' = vol /\ devNumber' = devNumber
        /\ failed' = failed /\ drive \in Letters /\ drive' = drive + 1
        /\ mount' = IF devNumber \in NumbersAt(drive) THEN drive ELSE mount
    BY <1>10 DEF TryLetter, At
  <2>2. /\ Stays(vol) /\ devNumber = number[Disk[vol]]
        /\ mount # NoLetter => Found(mount, vol)
        /\ (vol \notin failed /\ letter[vol] # NoLetter
              /\ letter[vol] < drive) => mount # NoLetter
    BY <1>0, <2>1 DEF IInv, LookInv, Stays, Numbered, Trying
  <2>3. Plugged(Disk[vol])
    BY <2>1, <2>2 DEF IInv, PresentOK, Looking
  <2>4. drive # NoLetter
    BY <2>1 DEF Letters, NoLetter
  <2>5. devNumber \in NumbersAt(drive) => Found(drive, vol)
    <3> SUFFICES ASSUME devNumber \in NumbersAt(drive) PROVE Found(drive, vol)
      OBVIOUS
    <3>1. CASE \E w \in Volumes : letter[w] = drive /\ number[Disk[w]] = devNumber
      <4>1. PICK w \in Volumes : letter[w] = drive /\ number[Disk[w]] = devNumber
        BY <3>1
      <4>2. Disk[w] = Disk[vol]
        BY <1>a, <2>2, <2>3, <4>1 DEF IInv, DrivesOK, Plugged
      <4> QED
        BY <4>1, <4>2 DEF Found, LetterOf, Of
    <3>2. CASE \E o \in Others : o[1] = drive /\ o[2] = devNumber
      BY <2>2, <3>2 DEF Found, OtherLetters, OtherNumbers
    <3> QED
      BY <3>1, <3>2, NumbersAtMeaning
  <2>6. letter[vol] = drive => devNumber \in NumbersAt(drive)
    BY <1>a, <2>2, NumbersAtMeaning
  <2>7. letter[vol] # NoLetter /\ letter[vol] < drive + 1 =>
          letter[vol] < drive \/ letter[vol] = drive
    BY <1>a DEF Letters
  <2> QED
    BY <2>1, <2>2, <2>4, <2>5, <2>6, <2>7
<1>11. CASE LetterFails
  <2>1. /\ pc = "letter" /\ pc' = pc /\ vol' = vol /\ devNumber' = devNumber
        /\ failed \subseteq failed' /\ drive' = drive + 1 /\ mount' = mount
        /\ letter[vol] = drive => vol \in failed'
    BY <1>11 DEF LetterFails, At
  <2>2. /\ Stays(vol) /\ devNumber = number[Disk[vol]]
        /\ mount # NoLetter => Found(mount, vol)
        /\ (vol \notin failed /\ letter[vol] # NoLetter
              /\ letter[vol] < drive) => mount # NoLetter
    BY <1>0, <2>1 DEF IInv, LookInv, Stays, Numbered, Trying
  <2>3. letter[vol] # NoLetter /\ letter[vol] < drive + 1 =>
          letter[vol] < drive \/ letter[vol] = drive
    BY <1>a DEF Letters
  <2> QED
    BY <2>1, <2>2, <2>3
<1>12. CASE LettersTried
  <2>1. drive = LetterCount + 1
    BY <1>a, <1>12 DEF LettersTried, Letters
  <2> QED
    BY <1>0, <1>12, <2>1 DEF LettersTried, At, GoTo, found, IInv, LookInv,
                             Stays, Numbered, Trying
<1>13. CASE ~ (ReadNumber \/ ReadDescriptor \/ TryLetter \/ LetterFails
               \/ LettersTried)
  BY <1>13 DEF Step, ListVolumes, NoList, OpenVolume, VolumeSkipped,
     NoInterface, EnumerationEnds, NoMoreVolumes, NoneMatches, RequestFails,
     EnterDevice, InformationFails, NotMounted, GoTo, Skip, Numbered
<1> QED
  BY <1>7, <1>8, <1>10, <1>11, <1>12, <1>13

\* What is entered in the list has been found for this volume.
LEMMA StepList ==
  ASSUME IInv, Step
  PROVE  ListInv'
<1>0. UNCHANGED <<number, letter, gone>>
  BY StepKeepsDrives
<1> SUFFICES ASSUME NEW v \in Volumes, list'[v] # NoLetter, Stays(v)
             PROVE  Found(list'[v], v)
  BY <1>0 DEF ListInv, Found, LetterOf, Stays
<1>1. CASE list'[v] = list[v]
  BY <1>1 DEF IInv, ListInv
<1>2. CASE EnterDevice /\ v = vol
  <2>1. list'[v] = mount /\ pc = "information"
    BY <1>2 DEF EnterDevice, At, IInv, TypeOK
  <2> QED
    BY <1>2, <2>1 DEF IInv, LookInv, Trying
<1>3. CASE EnterDevice /\ v # vol
  BY <1>1, <1>3 DEF EnterDevice, IInv, TypeOK
<1>4. CASE ~ EnterDevice
  BY <1>1, <1>4 DEF Step, ListVolumes, NoList, OpenVolume, VolumeSkipped,
     NoInterface, EnumerationEnds, NoMoreVolumes, ReadNumber, ReadDescriptor,
     NoneMatches, RequestFails, TryLetter, LetterFails, LettersTried, InformationFails, NotMounted, Skip
<1> QED
  BY <1>2, <1>3, <1>4

\* A volume that stays and answers is not dropped.
LEMMA StepSearch ==
  ASSUME IInv, Step
  PROVE  SearchInv'
<1> USE ScanAssumption DEF ScanAssumption
<1>0. UNCHANGED <<number, letter, gone>>
  BY StepKeepsDrives
<1> SUFFICES ASSUME NEW v \in present', Stays(v), Disk[v] \in Matching,
                    v \notin failed', letter[v] # NoLetter
             PROVE  v \in todo' \/ list'[v] # NoLetter
                      \/ (pc' \in Looking /\ v = vol')
  BY <1>0 DEF SearchInv, Stays
<1>1. CASE ListVolumes
  BY <1>1 DEF ListVolumes
<1>2. CASE ~ ListVolumes
  <2>1. present' = present /\ failed \subseteq failed' /\ v \in present
    BY <1>2 DEF Step, NoList, OpenVolume, VolumeSkipped, NoInterface,
       EnumerationEnds, NoMoreVolumes, ReadNumber, ReadDescriptor, NoneMatches,
       RequestFails, TryLetter, LetterFails, LettersTried, EnterDevice, InformationFails, NotMounted,
       Skip
  <2>2. v \in todo \/ list[v] # NoLetter \/ (pc \in Looking /\ v = vol)
    BY <2>1 DEF IInv, SearchInv
  <2>3. CASE NoList \/ NoInterface \/ EnumerationEnds \/ NoMoreVolumes
    BY <2>2, <2>3 DEF NoList, NoInterface, EnumerationEnds, NoMoreVolumes, At, found,
       Looking
  <2>4. CASE OpenVolume
    BY <2>2, <2>4 DEF OpenVolume, At, GoTo, Looking
  <2>5. CASE VolumeSkipped
    BY <2>2, <2>5 DEF VolumeSkipped, At, Skip, Looking
  <2>6. CASE ReadNumber \/ ReadDescriptor \/ TryLetter \/ LetterFails
               \/ LettersTried
    BY <2>2, <2>6 DEF ReadNumber, ReadDescriptor, TryLetter, LetterFails,
       LettersTried, At, GoTo, found, Looking
  <2>7. CASE NoneMatches \/ RequestFails \/ InformationFails
    BY <2>2, <2>7 DEF NoneMatches, RequestFails, InformationFails, At, Skip, Looking
  <2>8. CASE EnterDevice
    <3>1. mount # NoLetter /\ list' = [list EXCEPT ![vol] = mount]
          /\ todo' = todo
      BY <2>8 DEF EnterDevice, Mounted, Letters, NoLetter
    <3>2. list \in [Volumes -> Letters \cup {NoLetter}] /\ v \in Volumes
      BY <2>1 DEF IInv, TypeOK
    <3> QED
      BY <2>2, <3>1, <3>2
  <2>9. CASE NotMounted
    <3>1. /\ pc = "information" /\ ~ Mounted(mount)
          /\ todo' = todo /\ list' = list /\ failed' = failed
      BY <2>9 DEF NotMounted, At
    <3>2. v # vol
      <4> SUFFICES ASSUME v = vol PROVE FALSE
        OBVIOUS
      <4>1. /\ mount \in Letters \cup {NoLetter}
            /\ letter \in [Volumes -> Letters \cup {NoLetter}]
            /\ vol \in Volumes
        BY DEF IInv, TypeOK
      <4>2. letter[vol] < LetterCount + 1
        BY <4>1 DEF Letters
      <4>3. mount # NoLetter /\ Found(mount, vol)
        BY <3>1, <4>2 DEF IInv, LookInv, Trying
      <4> QED
        BY <3>1, <4>1, <4>3, FoundIsMounted DEF IInv
    <3> QED
      BY <2>2, <3>1, <3>2
  <2> QED
    BY <1>2, <2>3, <2>4, <2>5, <2>6, <2>7, <2>8, <2>9 DEF Step
<1> QED
  BY <1>1, <1>2

-----------------------------------------------------------------------------
(* The theorems                                                            *)

\* Types, numbers, and the progress of the search: the inductive invariant.
THEOREM ScanInvariant == Spec => []IInv
<1>1. IInv /\ [Next]_vars => IInv'
  <2> SUFFICES ASSUME IInv, [Next]_vars PROVE IInv'
    OBVIOUS
  <2>1. CASE Step
    BY <2>1, StepPresent, StepLook, StepList, StepSearch DEF IInv
  <2>2. CASE \E d \in Disks : Plug(d) \/ Unplug(d)
    BY <2>2, MoveInv
  <2>3. CASE UNCHANGED vars
    BY <2>3 DEF vars, drives, found, IInv, TypeOK, DrivesOK, Plugged, PresentOK,
                Stays, LookInv, ListInv, Found, LetterOf, SearchInv
  <2> QED
    BY <2>1, <2>2, <2>3 DEF Next
<1> QED
  BY InitInv, <1>1, PTL DEF Spec

\* The variables of the search have their types, for any drives.
THEOREM ScanTypeCorrect == Spec => []TypeOK
<1>1. IInv => TypeOK
  BY DEF IInv
<1> QED
  BY ScanInvariant, <1>1, PTL

\* The mount point of a drive that stays is its own (devicemanager.cpp 1119-1152
\* and 481-522), unless a drive of another type has its number.
THEOREM MountPointIsOwn == Spec => []MountIsOwn
<1>1. IInv => MountIsOwn
  BY DEF IInv, ListInv, MountIsOwn, Found, Stays
<1> QED
  BY ScanInvariant, <1>1, PTL

\* A result of 0 means that no drive that stayed, answered and is known by its
\* serial number is missing, when the enumeration came to the end of the list
\* (devicemanager.cpp 286-547).
THEOREM ScanIsComplete == Spec => []ScanTellsAll
<1>1. IInv => ScanTellsAll
  BY DEF IInv, PresentOK, SearchInv, ScanTellsAll, Stays, Looking
<1> QED
  BY ScanInvariant, <1>1, PTL
=============================================================================
