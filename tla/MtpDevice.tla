----------------------------- MODULE MtpDevice -----------------------------
(***************************************************************************)
(* The MTP side of usbdevice (c-source/jusbpmp_native_source):             *)
(* transfer_file(), read_file(), the queries, delete_mtpitem() and         *)
(* create_folder_mtp() walk the object tree of the device one folder at a  *)
(* time with get_substorage(), then do their work on the object reached.   *)
(* Calls of several threads interleave between any two requests to the     *)
(* device: MtpRetag has one thread in transfer_file() for each overlapping *)
(* copy run.                                                               *)
(*                                                                         *)
(* A path "/a/b" is the sequence of its names.  Any request to the device  *)
(* may fail.                                                               *)
(***************************************************************************)
EXTENDS Naturals, Sequences

CONSTANTS
  Callers,      \* threads that use the device
  Names,        \* names of objects, in every spelling
  Lower,        \* CString::MakeLower()
  Paths,        \* the paths used
  MaxObjects,   \* bound: objects the device ever holds; further inserts fail
  MaxCalls      \* bound: calls made

ASSUME DeviceAssumption ==
  /\ Lower \in [Names -> Names]
  /\ Paths \subseteq Seq(Names) \ {<<>>}
  /\ MaxObjects \in Nat /\ MaxObjects >= 2   \* a device starts with up to 2
  /\ MaxCalls \in Nat

VARIABLES
  tree,    \* the objects of the device, by persistent identifier
  fresh,   \* the next identifier
  calls,   \* number of calls made so far
  call     \* call[c]: the latest call of c

vars == <<tree, fresh, calls, call>>

-----------------------------------------------------------------------------
Root    == 0          \* m_pRootStorage
Objects == 1 .. MaxObjects
Kinds   == {"file", "folder"}
Ops     == {"send", "get", "existFile", "existFolder", "delete", "mkdir"}

IsFolder(s) == s = Root \/ (s \in DOMAIN tree /\ tree[s].kind = "folder")

Children(s) == {i \in DOMAIN tree : tree[i].parent = s}

\* the storages get_substorage() may take for `name': the comparison ignores
\* case and does not look at what kind of object it is
Matches(s, name) == {i \in Children(s) : Lower[tree[i].name] = Lower[name]}

\* Mutants: the loop of transfer_file() takes the file name for a folder; a
\* query stops at the parent folder
DepthOfAll(c) == IF call[c].op = "mkdir" THEN Len(call[c].path) - 1
                                         ELSE Len(call[c].path)

DepthOfParent(c) == Len(call[c].path) - 1

\* the number of names that are walked
Depth(c) == IF call[c].op \in {"send", "mkdir"} THEN Len(call[c].path) - 1
                                                ELSE Len(call[c].path)

\* create_folder_mtp() finds no parent in the path "/name"
HasParent(c) == ~(call[c].op = "mkdir" /\ Len(call[c].path) = 1)

Walking(c) == call[c].pc = "walk" /\ call[c].depth < Depth(c)
Arrived(c) ==
  call[c].pc = "walk" /\ call[c].depth = Depth(c) /\ HasParent(c)
NextName(c) == call[c].path[call[c].depth + 1]

\* transfer_file() and read_file() leave a walk that fails with "throw hr"
\* while hr is still S_OK: they return 0
Masks(c) == call[c].op \in {"send", "get"}

Return(c, ok, fault) ==
  call' = [call EXCEPT ![c].pc = "returned", ![c].ok = ok, ![c].fault = fault]

\* a set of objects that holds, with an object, its children
Closed(S) == \A i \in DOMAIN tree : tree[i].parent \in S => i \in S

\* the object s and all that lies below it
Below(s) ==
  {i \in DOMAIN tree :
     \A S \in SUBSET DOMAIN tree : s \in S /\ Closed(S) => i \in S}

-----------------------------------------------------------------------------
ObjectTypes == [parent : {Root} \cup Objects, name : Names, kind : Kinds]

\* A device in use holds some objects already, each below a folder.
SomeTrees(n) ==
  {t \in UNION {[1 .. k -> ObjectTypes] : k \in 0 .. n} :
     \A i \in DOMAIN t :
       /\ t[i].parent < i
       /\ t[i].parent = Root \/ t[t[i].parent].kind = "folder"}

Idle == [pc |-> "returned", op |-> "existFile", path |-> <<>>, depth |-> 0,
         at |-> Root, ok |-> FALSE, fault |-> FALSE]

Init ==
  /\ tree \in SomeTrees(2)
  /\ fresh = 3
  /\ calls = 0
  /\ call = [c \in Callers |-> Idle]

\* a JNI method of UsbDevice is called
Begin(c) ==
  /\ call[c].pc = "returned"
  /\ calls < MaxCalls
  /\ calls' = calls + 1
  /\ \E op \in Ops, path \in Paths :
       call' = [call EXCEPT ![c] =
                  [Idle EXCEPT !.pc = "walk", !.op = op, !.path = path]]
  /\ UNCHANGED <<tree, fresh>>

NoParent(c) ==
  /\ call[c].pc = "walk" /\ ~HasParent(c)
  /\ Return(c, FALSE, FALSE)
  /\ UNCHANGED <<tree, fresh, calls>>

Queries == {"existFile", "existFolder"}

\* Java_..._existFile() and Java_..._existFolder() pass a path on that CA2W has
\* freed: what is left of a long one names nothing
NameLost(c) ==
  /\ call[c].pc = "walk" /\ call[c].op \in Queries
  /\ Return(c, FALSE, FALSE)
  /\ UNCHANGED <<tree, fresh, calls>>

-----------------------------------------------------------------------------
(* get_substorage()                                                        *)

SubstorageFound(c) ==
  /\ Walking(c) /\ IsFolder(call[c].at)
  /\ \E i \in Matches(call[c].at, NextName(c)) :
       call' = [call EXCEPT ![c].at = i, ![c].depth = @ + 1]
  /\ UNCHANGED <<tree, fresh, calls>>

\* Mutant: the caller does not look whether a child was found
KeepsParent(c) ==
  /\ Walking(c) /\ IsFolder(call[c].at)
  /\ Matches(call[c].at, NextName(c)) = {}
  /\ IF call[c].op = "send"
     THEN call' = [call EXCEPT ![c].pc = "create"]
     ELSE call' = [call EXCEPT ![c].depth = @ + 1]
  /\ UNCHANGED <<tree, fresh, calls>>

\* transfer_file() asks for the folder to be created; the others give up
SubstorageNotFound(c) ==
  /\ Walking(c) /\ IsFolder(call[c].at)
  /\ Matches(call[c].at, NextName(c)) = {}
  /\ IF call[c].op = "send"
     THEN call' = [call EXCEPT ![c].pc = "create"]
     ELSE Return(c, Masks(c), FALSE)
  /\ UNCHANGED <<tree, fresh, calls>>

\* EnumStorage(), Next() or GetName() fails, as they do on a file and on a
\* storage that is gone
EnumFails(c) ==
  /\ Walking(c)
  /\ Return(c, Masks(c), TRUE)
  /\ UNCHANGED <<tree, fresh, calls>>

\* an object is inserted below s; files in `replaced' make room for it
InsertObject(s, name, kind, replaced) ==
  /\ IsFolder(s) /\ fresh <= MaxObjects
  /\ tree' = [i \in (DOMAIN tree \ replaced) \cup {fresh} |->
                IF i = fresh THEN [parent |-> s, name |-> name, kind |-> kind]
                             ELSE tree[i]]
  /\ fresh' = fresh + 1
  /\ UNCHANGED calls

\* Insert3() of the folder: the enumeration is over, what other threads have
\* created since is not seen
CreateSubstorage(c) ==
  /\ call[c].pc = "create"
  /\ InsertObject(call[c].at, NextName(c), "folder", {})
  /\ call' = [call EXCEPT ![c].pc = "walk", ![c].at = fresh,
                          ![c].depth = @ + 1]

CreateFails(c) ==
  /\ call[c].pc = "create"
  /\ Return(c, Masks(c), TRUE)
  /\ UNCHANGED <<tree, fresh, calls>>

-----------------------------------------------------------------------------
(* What the call does with the object it has reached                       *)

LastName(c) == call[c].path[Len(call[c].path)]

\* an interface of the storage is missing: the one failure before Insert3()
\* and Read() that is reported
QueryInterfaceFails(c) ==
  /\ Arrived(c)
  /\ call[c].op \in {"send", "get"}
  /\ Return(c, FALSE, TRUE)
  /\ UNCHANGED <<tree, fresh, calls>>

\* Insert3() with WMDM_FILE_CREATE_OVERWRITE
InsertFile(c) ==
  /\ Arrived(c) /\ call[c].op = "send"
  /\ InsertObject(call[c].at, LastName(c), "file",
       {i \in Children(call[c].at) :
          tree[i].name = LastName(c) /\ tree[i].kind = "file"})
  /\ Return(c, TRUE, FALSE)

\* the file is read to the local file system
ReadFile(c) ==
  /\ Arrived(c) /\ call[c].op = "get"
  /\ call[c].at \in DOMAIN tree /\ tree[call[c].at].kind = "file"
  /\ Return(c, TRUE, FALSE)
  /\ UNCHANGED <<tree, fresh, calls>>

\* the result of Insert3() or Read() does not reach ret, which is 0 by now
TransferFails(c) ==
  /\ Arrived(c) /\ call[c].op \in {"send", "get"}
  /\ Return(c, TRUE, TRUE)
  /\ UNCHANGED <<tree, fresh, calls>>

ExistItem(c) ==
  /\ Arrived(c)
  /\ call[c].at \in DOMAIN tree
  /\ \/ /\ call[c].op = "existFile"
        /\ Return(c, tree[call[c].at].kind = "file", FALSE)
     \/ /\ call[c].op = "existFolder"
        /\ Return(c, tree[call[c].at].kind = "folder", FALSE)
  /\ UNCHANGED <<tree, fresh, calls>>

\* GetAttributes() fails: the attributes tested are uninitialized
AttributesUnread(c) ==
  /\ Arrived(c) /\ call[c].op \in Queries
  /\ \E ok \in BOOLEAN : Return(c, ok, TRUE)
  /\ UNCHANGED <<tree, fresh, calls>>

\* Mutant: what is below a folder is left behind
DeleteItemOnly(c) ==
  /\ Arrived(c) /\ call[c].op = "delete"
  /\ call[c].at \in DOMAIN tree
  /\ tree' = [i \in DOMAIN tree \ {call[c].at} |-> tree[i]]
  /\ Return(c, TRUE, FALSE)
  /\ UNCHANGED <<fresh, calls>>

\* the object, and what is below it, is gone; a device that refuses to delete a
\* folder in use is RequestFails
DeleteItem(c) ==
  /\ Arrived(c) /\ call[c].op = "delete"
  /\ call[c].at \in DOMAIN tree
  /\ tree' = [i \in DOMAIN tree \ Below(call[c].at) |-> tree[i]]
  /\ Return(c, TRUE, FALSE)
  /\ UNCHANGED <<fresh, calls>>

\* create_folder_mtp() does not look for a folder of that name
InsertFolder(c) ==
  /\ Arrived(c) /\ call[c].op = "mkdir"
  /\ InsertObject(call[c].at, LastName(c), "folder", {})
  /\ Return(c, TRUE, FALSE)

\* Delete() or Insert() fails, and the caller is told
RequestFails(c) ==
  /\ Arrived(c) /\ call[c].op \in {"delete", "mkdir"}
  /\ Return(c, FALSE, TRUE)
  /\ UNCHANGED <<tree, fresh, calls>>

-----------------------------------------------------------------------------
Step(c) ==
  \/ Begin(c) \/ NoParent(c) \/ NameLost(c)
  \/ SubstorageFound(c) \/ SubstorageNotFound(c) \/ EnumFails(c)
  \/ CreateSubstorage(c) \/ CreateFails(c)
  \/ QueryInterfaceFails(c) \/ InsertFile(c) \/ ReadFile(c) \/ TransferFails(c)
  \/ ExistItem(c) \/ AttributesUnread(c)
  \/ DeleteItem(c) \/ InsertFolder(c) \/ RequestFails(c)

\* all calls of the bound have been made
Finished ==
  /\ calls = MaxCalls /\ \A c \in Callers : call[c].pc = "returned"
  /\ UNCHANGED vars

Next == Finished \/ \E c \in Callers : Step(c)

Spec == Init /\ [][Next]_vars

-----------------------------------------------------------------------------
(* Properties                                                              *)

Named(s, name) == {i \in Children(s) : Lower[tree[i].name] = Lower[name]}

\* a way along the tree: the root, and then for each of the first n names of the
\* path an object of that name in the folder before
Ways(path, n) ==
  {way \in [0 .. n -> {Root} \cup Objects] :
     /\ way[0] = Root
     /\ \A k \in 1 .. n :
          IsFolder(way[k - 1]) /\ way[k] \in Named(way[k - 1], path[k])}

LeadsTo(path, n, i) == \E way \in Ways(path, n) : way[n] = i

\* the objects a path leads to: siblings of one name are told apart by nothing
Resolve(path) == {i \in DOMAIN tree : LeadsTo(path, Len(path), i)}

Holds(path, kind) == \E i \in Resolve(path) : tree[i].kind = kind

\* The types of the variables, and: every object hangs below the root or below
\* a folder that exists, whatever deletes and inserts of other threads do
\* between the steps of a walk.
TypeOK ==
  /\ DOMAIN tree \subseteq Objects
  /\ \A i \in DOMAIN tree : tree[i] \in ObjectTypes /\ IsFolder(tree[i].parent)
  /\ fresh \in 1 .. MaxObjects + 1 /\ \A i \in DOMAIN tree : i < fresh
  /\ calls \in 0 .. MaxCalls
  /\ call \in [Callers ->
       [pc : {"walk", "create", "returned"}, op : Ops, path : Paths \cup {<<>>},
        depth : Nat, at : {Root} \cup Objects, ok : BOOLEAN,
        fault : BOOLEAN]]

Returns(c) == call[c].pc # "returned" /\ call'[c].pc = "returned"

\* What the device has answered without an error is done: after a send the path
\* leads to the file, after mkdir to the folder, although other threads change
\* the tree during the walk (transfer_file(), create_folder_mtp()).
InsertDelivers ==
  [][\A c \in Callers :
       Returns(c) /\ ~call'[c].fault =>
         /\ call[c].op = "send" => call'[c].ok /\ Holds(call[c].path, "file")'
         /\ (call[c].op = "mkdir" /\ call'[c].ok)
              => Holds(call[c].path, "folder")']_vars

\* existFile() and existFolder() answer yes only when the path leads, at that
\* moment, to such an object, although other threads delete, replace and create
\* what has been walked already (exist_file_mtp(), exist_folder_mtp()).  A no may
\* be wrong: the walk takes the first of two siblings of one name, and the name
\* may be lost.
ExistFound ==
  [][\A c \in Callers :
       (Returns(c) /\ call'[c].ok /\ ~call'[c].fault) =>
         /\ call[c].op = "existFile"   => Holds(call[c].path, "file")
         /\ call[c].op = "existFolder" => Holds(call[c].path, "folder")]_vars

\* An object disappears only because a call names it: it is what the path of a
\* delete leads to, or below it, or the file a send replaces.  A walk that
\* stops half way must not delete the folder it has reached (delete_mtpitem()).
DeleteExact ==
  [][\A i \in DOMAIN tree \ DOMAIN tree' :
       \E c \in Callers :
         /\ Returns(c)
         /\ \/ /\ call[c].op = "delete"
               /\ \E j \in Resolve(call[c].path) : i \in Below(j)
            \/ /\ call[c].op = "send"
               /\ i \in Resolve(call[c].path) /\ tree[i].kind = "file"]_vars
=============================================================================
