---------------------------- MODULE DeviceFiles ----------------------------
(***************************************************************************)
(* The calls of jpmp.device.UsbDevice on the files of one folder of a      *)
(* device (c-source/jusbpmp_native_source/jusbdevice.cpp and what it calls *)
(* in usbdevice.cpp and helperlib.cpp): listing the folder, the metadata   *)
(* of a file, and the queries, deletes, creations and sends that happen    *)
(* meanwhile.  How a path is walked on an MTP device is the subject of     *)
(* MtpDevice; here the walk to the folder always succeeds, and a name in it *)
(* is found, or not, in one step.                                          *)
(*                                                                         *)
(* Calls of several threads interleave between any two requests to the     *)
(* device, and any request may fail.                                       *)
(***************************************************************************)
EXTENDS Naturals

CONSTANTS
  Callers,     \* threads that use the device
  Names,       \* names in the folder
  Texts,       \* contents of a FileMetadata
  Failing,     \* the sets of fields for which the requests of one call fail
  MaxObjects,  \* bound: objects the folder ever holds
  MaxCalls     \* bound: calls made

ASSUME FilesAssumption ==
  /\ Texts \subseteq Nat \ {0}
  /\ Failing \subseteq SUBSET {"title", "artist", "album", "genre", "rating"}
  /\ MaxObjects \in Nat /\ MaxObjects >= 2   \* the folder starts with up to 2
  /\ MaxCalls \in Nat

VARIABLES
  mode,     \* get_devicemode(): a mounted drive or an MTP device
  objects,  \* the objects of the folder, by identifier
  fresh,    \* the next identifier
  given,    \* given[i]: texts of the calls on the name of object i that were
            \* under way at some moment of its life (history)
  calls,    \* number of calls made so far
  call      \* call[c]: the latest call of c

vars == <<mode, objects, fresh, given, calls, call>>

-----------------------------------------------------------------------------
Modes == {"MSC", "MTP"}
Kinds == {"file", "folder"}
Ids   == 1 .. MaxObjects
None  == 0       \* no object
Unset == 0       \* no property

\* the fields of a FileMetadata and the properties of an MTP object
Fields == {"title", "artist", "album", "genre", "rating"}
Keys   == {"Title", "Author", "AlbumTitle", "AlbumArt", "Genre", "UserRating"}

\* the properties transfer_file() sets on a new file
SentKey == [title |-> "Title", artist |-> "Author", album |-> "AlbumTitle",
            genre |-> "Genre"]

\* the properties update_metadata() sets
UpdatedKey == [title |-> "Title", artist |-> "Author", album |-> "AlbumArt",
               genre |-> "Genre", rating |-> "UserRating"]

NoTags == [k \in Keys |-> Unset]
\* the properties `tags' after AddItem() of text t under `key', when the
\* requests for the fields `failed' fail
AddItems(tags, key, t, failed) ==
  [k \in Keys |->
     IF \E f \in DOMAIN key \ failed : key[f] = k THEN t ELSE tags[k]]

-----------------------------------------------------------------------------
Ops == {"existFile", "existFolder", "deleteFile", "deleteFolder",
        "createFolder", "sendFile", "getMetadata", "updateMetadata",
        "parseFolder"}

\* the objects a name leads to: one on a drive, any number on an MTP device
Named(n) == {i \in DOMAIN objects : objects[i].name = n}

ObjectTypes == [name : Names, kind : Kinds, tags : [Keys -> Texts \cup {Unset}]]

\* "." and "..", which a folder on a drive has unless it is the topmost
Dots == {MaxObjects + 1, MaxObjects + 2}

\* A call.  tags is its copy of the properties (IWMDMMetaData); seen are the
\* objects an enumeration has passed, listed those it will report, with their
\* kind.  start, the objects there when it began, and fault, a failed request
\* that the result does not tell, are history.
Idle == [pc |-> "returned", op |-> "existFile", name |-> None, text |-> Unset,
         at |-> None, tags |-> NoTags, seen |-> {}, listed |-> {},
         start |-> {}, ret |-> "NONE", fault |-> FALSE]

\* A folder in use holds up to two objects already, which were not sent.
InitialObjects == [name : Names, kind : Kinds, tags : {NoTags}]

Init ==
  /\ mode \in Modes
  /\ objects \in UNION {[1 .. k -> InitialObjects] : k \in 0 .. 2}
  /\ \A i, j \in DOMAIN objects : objects[i].name = objects[j].name => i = j
  /\ fresh = 3
  /\ given = [i \in Ids |-> {}]
  /\ calls = 0
  /\ call = [c \in Callers |-> Idle]

At(c, label, ops) == call[c].pc = label /\ call[c].op \in ops

Returned(c, ret, fault) ==
  call' = [call EXCEPT ![c] =
             [Idle EXCEPT !.op = call[c].op, !.ret = ret, !.fault = fault]]

Return(c, ret) == Returned(c, ret, FALSE)

unchangedDevice == <<mode, objects, fresh, given, calls>>

-----------------------------------------------------------------------------
(* A JNI method is called                                                  *)

NamesOf(op) == IF op = "parseFolder" THEN {None} ELSE Names
TextsOf(op) == IF op \in {"sendFile", "updateMetadata"} THEN Texts ELSE {Unset}

Begin(c) ==
  /\ call[c].pc = "returned"
  /\ calls < MaxCalls
  /\ calls' = calls + 1
  /\ \E op \in Ops : \E n \in NamesOf(op), t \in TextsOf(op) :
       /\ call' = [call EXCEPT ![c] =
            [Idle EXCEPT !.pc = "begin", !.op = op, !.name = n, !.text = t]]
       /\ given' = [i \in Ids |-> IF i \in Named(n) THEN given[i] \cup {t}
                                                     ELSE given[i]]
  /\ UNCHANGED <<mode, objects, fresh>>

\* get_devicebyid() knows no such device
DeviceUnknown(c) ==
  /\ At(c, "begin", Ops)
  /\ Return(c, "NOTMOUNTED")
  /\ UNCHANGED unchangedDevice

-----------------------------------------------------------------------------
(* Queries, deletes, creations, sends                                      *)

\* the name is found; or it is not, or it is lost: existFile() and existFolder()
\* use the path after CA2W has freed it, and what is left of a long one names
\* nothing.  exist_*_mtp() answers at random when the attributes cannot be read.
ExistItem(c, kind) ==
  /\ \/ Return(c, "FILE_NOTFOUND")
     \/ /\ \E i \in Named(call[c].name) :
             mode = "MSC" => objects[i].kind = kind
        /\ Return(c, "SUCCESS")
  /\ UNCHANGED unchangedDevice

ExistFile(c)   == At(c, "begin", {"existFile"})   /\ ExistItem(c, "file")
ExistFolder(c) == At(c, "begin", {"existFolder"}) /\ ExistItem(c, "folder")

DeleteOps == {"deleteFile", "deleteFolder"}

\* DeleteFile() and RemoveDirectory() look at the kind
DeleteOnDrive(c) ==
  /\ At(c, "begin", DeleteOps) /\ mode = "MSC"
  /\ \E i \in Named(call[c].name) :
       /\ objects[i].kind = IF call[c].op = "deleteFile" THEN "file" ELSE "folder"
       /\ objects' = [j \in DOMAIN objects \ {i} |-> objects[j]]
  /\ Return(c, "SUCCESS")
  /\ UNCHANGED <<mode, fresh, given, calls>>

\* delete_mtpitem() does not: the storage a walk has found is deleted
DeleteStorage(c) ==
  /\ At(c, "found", DeleteOps)
  /\ call[c].at \in DOMAIN objects
  /\ objects' = [j \in DOMAIN objects \ {call[c].at} |-> objects[j]]
  /\ Return(c, "SUCCESS")
  /\ UNCHANGED <<mode, fresh, given, calls>>

\* nothing of that name is found, or it cannot be deleted
DeleteFails(c) ==
  /\ At(c, "begin", DeleteOps) \/ At(c, "found", DeleteOps)
  /\ Return(c, "UNKNOWN")
  /\ UNCHANGED unchangedDevice

\* a new object, in place of those in `replaced'
InsertObject(object, replaced) ==
  /\ fresh <= MaxObjects
  /\ objects' = [i \in (DOMAIN objects \ replaced) \cup {fresh} |->
                   IF i = fresh THEN object ELSE objects[i]]
  /\ fresh' = fresh + 1
  /\ given' = [given EXCEPT ![fresh] =
                 {call[d].text : d \in {e \in Callers : call[e].name = object.name}}]

NewObject(n, kind) == [name |-> n, kind |-> kind, tags |-> NoTags]

\* Mutant: a drive holds two folders of one name
CreateAnyway(c) ==
  /\ At(c, "begin", {"createFolder"})
  /\ InsertObject(NewObject(call[c].name, "folder"), {})
  /\ Return(c, "SUCCESS")
  /\ UNCHANGED <<mode, calls>>

CreateFolder(c) ==
  /\ At(c, "begin", {"createFolder"})
  /\ \/ /\ mode = "MSC" => Named(call[c].name) = {}
        /\ InsertObject(NewObject(call[c].name, "folder"), {})
        /\ Return(c, "SUCCESS")
     \/ /\ Return(c, "FILE_NOTFOUND")
        /\ UNCHANGED <<objects, fresh, given>>
  /\ UNCHANGED <<mode, calls>>

\* msc_copy() to a name that is free; a file of that name is overwritten in
\* place, which changes nothing here
SendToDrive(c) ==
  /\ At(c, "begin", {"sendFile"}) /\ mode = "MSC"
  /\ \/ /\ Named(call[c].name) = {}
        /\ InsertObject(NewObject(call[c].name, "file"), {})
     \/ /\ \E i \in Named(call[c].name) : objects[i].kind = "file"
        /\ UNCHANGED <<objects, fresh, given>>
  /\ Return(c, "SUCCESS")
  /\ UNCHANGED <<mode, calls>>

\* Insert3() with WMDM_FILE_CREATE_OVERWRITE; without the metadata if an empty
\* object for them cannot be had
SendToMtp(c) ==
  /\ At(c, "begin", {"sendFile"}) /\ mode = "MTP"
  /\ \E failed \in Failing :
       /\ InsertObject(
            [name |-> call[c].name, kind |-> "file",
             tags |-> AddItems(NoTags, SentKey, call[c].text, failed)],
            {i \in Named(call[c].name) : objects[i].kind = "file"})
       /\ Returned(c, "SUCCESS", failed # {})
  /\ UNCHANGED <<mode, calls>>

\* what a failed msc_copy() has created stays
SendBreaks(c) ==
  /\ At(c, "begin", {"sendFile"}) /\ mode = "MSC"
  /\ Named(call[c].name) = {}
  /\ InsertObject(NewObject(call[c].name, "file"), {})
  /\ Return(c, "FAILED")
  /\ UNCHANGED <<mode, calls>>

\* a copy or a request fails; transfer_file() drops most results on an MTP
\* device
SendFails(c) ==
  /\ At(c, "begin", {"sendFile"})
  /\ \/ Return(c, "FAILED")
     \/ mode = "MTP" /\ Returned(c, "SUCCESS", TRUE)
  /\ UNCHANGED unchangedDevice

-----------------------------------------------------------------------------
(* getMetadata(), updateMetadata()                                         *)

MetadataOps == {"getMetadata", "updateMetadata"}

MetadataOnDrive(c) ==
  /\ At(c, "begin", MetadataOps) /\ mode = "MSC"
  /\ Return(c, "MSC_NOTAVAILABLE")
  /\ UNCHANGED unchangedDevice

\* get_storage_bypath() does not look at the kind
FindStorage(c) ==
  /\ At(c, "begin", MetadataOps \cup DeleteOps) /\ mode = "MTP"
  /\ \E i \in Named(call[c].name) :
       call' = [call EXCEPT ![c].at = i, ![c].pc = "found"]
  /\ UNCHANGED unchangedDevice

\* the name is not found, or an interface or GetMetadata() is not to be had, as
\* on an object that is gone, or SetMetadata() fails
MetadataFails(c) ==
  /\ \/ At(c, "begin", MetadataOps) /\ mode = "MTP"
     \/ At(c, "found", MetadataOps)
     \/ At(c, "store", {"updateMetadata"})
  /\ Return(c, IF call[c].op = "getMetadata" THEN "METADATA_PROPERTY"
                                             ELSE "FAILED")
  /\ UNCHANGED unchangedDevice

\* the results of QueryByName() are dropped: a field that cannot be read is
\* handed over empty.  The others come from the properties update_metadata()
\* sets, the rating cut to a byte; what is handed over is not kept here.
GetMetadata(c) ==
  /\ At(c, "found", {"getMetadata"})
  /\ call[c].at \in DOMAIN objects
  /\ \E failed \in Failing : Returned(c, "SUCCESS", failed # {})
  /\ UNCHANGED unchangedDevice

\* update_metadata() gets the properties of the file; for an object that has
\* none, it gets an empty set of them
ReadMetadata(c) ==
  /\ At(c, "found", {"updateMetadata"})
  /\ call[c].at \in DOMAIN objects
  /\ call' = [call EXCEPT ![c].tags = objects[call[c].at].tags,
                          ![c].pc = "store"]
  /\ UNCHANGED unchangedDevice

\* Mutants: the file is looked up again by its name; the result of SetMetadata()
\* is dropped
StoreByName(c) ==
  /\ At(c, "store", {"updateMetadata"})
  /\ \E i \in Named(call[c].name), failed \in Failing :
       /\ objects' = [objects EXCEPT ![i].tags =
            AddItems(call[c].tags, UpdatedKey, call[c].text, failed)]
       /\ Returned(c, "SUCCESS", failed # {})
  /\ UNCHANGED <<mode, fresh, given, calls>>

StoreAnyway(c) ==
  /\ At(c, "store", {"updateMetadata"})
  /\ Return(c, "SUCCESS")
  /\ UNCHANGED unchangedDevice

\* AddItem() of each field, whose result is dropped, and SetMetadata()
StoreMetadata(c) ==
  /\ At(c, "store", {"updateMetadata"})
  /\ call[c].at \in DOMAIN objects
  /\ \E failed \in Failing :
       /\ objects' = [objects EXCEPT ![call[c].at].tags =
            AddItems(call[c].tags, UpdatedKey, call[c].text, failed)]
       /\ Returned(c, "SUCCESS", failed # {})
  /\ UNCHANGED <<mode, fresh, given, calls>>

-----------------------------------------------------------------------------
(* parseFolder()                                                           *)

Entry(i) == [id |-> i, kind |-> objects[i].kind]

\* FindFirstFile() of a folder on a drive comes to "." and ".." first; the test
\* that should leave them out (usbdevice.cpp:754) is never true
OpenFolder(c) ==
  /\ At(c, "begin", {"parseFolder"})
  /\ \E dots \in {{}} \cup IF mode = "MSC" THEN {Dots} ELSE {} :
       call' = [call EXCEPT ![c].pc = "enumerate", ![c].start = DOMAIN objects,
                  ![c].listed = [id : dots, kind : {"folder"}]]
  /\ UNCHANGED unchangedDevice

FolderNotOpened(c) ==
  /\ At(c, "begin", {"parseFolder"})
  /\ Return(c, "FAILED")
  /\ UNCHANGED unchangedDevice

\* FindNextFile() tells name and attributes at once
ListEntry(c) ==
  /\ At(c, "enumerate", {"parseFolder"}) /\ mode = "MSC"
  /\ \E i \in DOMAIN objects \ call[c].seen :
       call' = [call EXCEPT ![c].seen = @ \cup {i},
                            ![c].listed = @ \cup {Entry(i)}]
  /\ UNCHANGED unchangedDevice

NextStorage(c) ==
  /\ At(c, "enumerate", {"parseFolder"}) /\ mode = "MTP"
  /\ \E i \in DOMAIN objects \ call[c].seen :
       call' = [call EXCEPT ![c].seen = @ \cup {i}, ![c].at = i,
                            ![c].pc = "attributes"]
  /\ UNCHANGED unchangedDevice

\* GetAttributes() of the storage
ListStorage(c) ==
  /\ At(c, "attributes", {"parseFolder"})
  /\ call[c].at \in DOMAIN objects
  /\ call' = [call EXCEPT ![c].listed = @ \cup {Entry(call[c].at)},
                          ![c].at = None, ![c].pc = "enumerate"]
  /\ UNCHANGED unchangedDevice

\* Mutant: a storage that cannot be read is left out
SkipStorage(c) ==
  /\ At(c, "attributes", {"parseFolder"})
  /\ call' = [call EXCEPT ![c].at = None, ![c].pc = "enumerate"]
  /\ UNCHANGED unchangedDevice

\* Next(), GetName(), QueryInterface() or GetAttributes() fails: what has been
\* listed so far is reported, with an error
StorageFails(c) ==
  /\ \/ At(c, "enumerate", {"parseFolder"}) /\ mode = "MTP"
     \/ At(c, "attributes", {"parseFolder"})
  /\ Return(c, "FAILED")
  /\ UNCHANGED unchangedDevice

\* FindNextFile() fails: taken for the end
NextFileFails(c) ==
  /\ At(c, "enumerate", {"parseFolder"}) /\ mode = "MSC"
  /\ Returned(c, "SUCCESS", TRUE)
  /\ UNCHANGED unchangedDevice

\* an enumeration passes every object that is there all the time
EndOfFolder(c) ==
  /\ At(c, "enumerate", {"parseFolder"})
  /\ call[c].start \cap DOMAIN objects \subseteq call[c].seen
  /\ Return(c, "SUCCESS")
  /\ UNCHANGED unchangedDevice

-----------------------------------------------------------------------------
Step(c) ==
  \/ Begin(c) \/ DeviceUnknown(c)
  \/ ExistFile(c) \/ ExistFolder(c)
  \/ DeleteOnDrive(c) \/ DeleteStorage(c) \/ DeleteFails(c) \/ CreateFolder(c)
  \/ SendToDrive(c) \/ SendToMtp(c) \/ SendBreaks(c) \/ SendFails(c)
  \/ MetadataOnDrive(c) \/ FindStorage(c) \/ MetadataFails(c)
  \/ GetMetadata(c) \/ ReadMetadata(c) \/ StoreMetadata(c)
  \/ OpenFolder(c) \/ FolderNotOpened(c) \/ ListEntry(c) \/ NextStorage(c)
  \/ ListStorage(c) \/ StorageFails(c) \/ NextFileFails(c) \/ EndOfFolder(c)

\* all calls of the bound have been made
Finished ==
  /\ calls = MaxCalls /\ \A c \in Callers : call[c].pc = "returned"
  /\ UNCHANGED vars

Next == Finished \/ \E c \in Callers : Step(c)

Spec == Init /\ [][Next]_vars

-----------------------------------------------------------------------------
(* Properties                                                              *)

Results == {"NONE", "SUCCESS", "NOTMOUNTED", "FILE_NOTFOUND", "UNKNOWN",
            "FAILED", "MSC_NOTAVAILABLE", "METADATA_PROPERTY"}

CallTypes ==
  [pc : {"returned", "begin", "found", "store", "enumerate", "attributes"},
   op : Ops, name : Names \cup {None}, text : Texts \cup {Unset},
   at : Ids \cup {None}, tags : [Keys -> Texts \cup {Unset}],
   seen : SUBSET Ids, listed : SUBSET [id : Ids \cup Dots, kind : Kinds],
   start : SUBSET Ids,
   ret : Results, fault : BOOLEAN]

\* The types of the variables; a drive holds one object of a name, whatever
\* calls overlap.
TypeOK ==
  /\ mode \in Modes
  /\ DOMAIN objects \subseteq Ids
  /\ \A i \in DOMAIN objects : objects[i] \in ObjectTypes /\ i < fresh
  /\ fresh \in 1 .. MaxObjects + 1 /\ calls \in 0 .. MaxCalls
  /\ given \in [Ids -> SUBSET (Texts \cup {Unset})]
  /\ call \in [Callers -> CallTypes]
  /\ mode = "MSC" =>
       \A i, j \in DOMAIN objects : objects[i].name = objects[j].name => i = j

\* The metadata of a file were brought by sends and updates of its own name that
\* were under way while it was there: what is known of a file that has been
\* deleted or replaced never comes back in its successor, although an update
\* stores what it has read before (update_metadata(), transfer_file()).
OwnMetadata ==
  \A i \in DOMAIN objects : \A k \in Keys :
    objects[i].tags[k] \in given[i] \cup {Unset}

Returns(c, op) ==
  /\ call[c].pc # "returned" /\ call[c].op = op
  /\ call'[c].pc = "returned" /\ call'[c].ret = "SUCCESS" /\ ~call'[c].fault

\* updateMetadata() answers 0 only when a file of that name has the metadata,
\* although the file it has found may be deleted or replaced before
\* SetMetadata(); and its other properties are as they were, although they were
\* read before other calls may have stored some (update_metadata()).
UpdateDelivers ==
  [][\A c \in Callers :
       Returns(c, "updateMetadata") =>
         \E i \in DOMAIN objects' \cap DOMAIN objects :
           /\ objects'[i].name = call[c].name
           /\ \A f \in Fields : objects'[i].tags[UpdatedKey[f]] = call[c].text
           /\ \A k \in Keys \ {UpdatedKey[f] : f \in Fields} :
                objects'[i].tags[k] = objects[i].tags[k]]_vars

\* parseFolder() answers 0 only when it has listed every object that was in the
\* folder all the time, whatever comes and goes during the enumeration
\* (parse_folder_mtp(), parse_folder_msc()).
ListingComplete ==
  [][\A c \in Callers :
       Returns(c, "parseFolder") =>
         call[c].start \cap DOMAIN objects
           \subseteq {e.id : e \in call[c].listed}]_vars
=============================================================================
