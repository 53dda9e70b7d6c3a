------------------------- MODULE DeviceFiles_proofs -------------------------
(***************************************************************************)
(* Proofs about DeviceFiles, for any number of callers and calls, any      *)
(* names and contents, and any combination of failing requests.            *)
(***************************************************************************)
EXTENDS DeviceFiles, TLAPS

FolderOK ==
  /\ DOMAIN objects \subseteq Ids
  /\ \A i \in DOMAIN objects : objects[i] \in ObjectTypes /\ i < fresh
  /\ fresh \in 1 .. MaxObjects + 1
  /\ given \in [Ids -> SUBSET (Texts \cup {Unset})]

DriveOK ==
  /\ mode \in Modes
  /\ mode = "MSC" =>
       \A i, j \in DOMAIN objects : objects[i].name = objects[j].name => i = j

CallsOK ==
  /\ calls \in 0 .. MaxCalls
  /\ call \in [Callers -> CallTypes]

ListedIds(r) == {e.id : e \in r.listed}

\* What a call relies on.  It is known to the objects of its name; the object it
\* has found keeps its name, and the property the call does not write, as long as
\* it exists, and the properties the call has read are its own; an identifier is
\* not used again; what an enumeration has passed is listed or about to be.
CallOK(r) ==
  /\ (r.pc # "returned" /\ r.op # "parseFolder") => r.name \in Names
  /\ r.pc # "returned" => \A i \in Named(r.name) : r.text \in given[i]
  /\ r.pc \in {"found", "store"} =>
       /\ r.at < fresh
       /\ r.at \in DOMAIN objects => objects[r.at].name = r.name
  /\ (r.pc = "store" /\ r.at \in DOMAIN objects) =>
       /\ r.tags["AlbumTitle"] = objects[r.at].tags["AlbumTitle"]
       /\ \A k \in Keys : r.tags[k] \in given[r.at] \cup {Unset}
  /\ r.pc = "begin" => r.seen = {}
  /\ r.pc = "enumerate" => r.seen \subseteq ListedIds(r)
  /\ r.pc = "attributes" => r.seen \subseteq ListedIds(r) \cup {r.at}

CallsInv == \A c \in Callers : CallOK(call[c])

IInv == FolderOK /\ DriveOK /\ CallsOK /\ OwnMetadata /\ CallsInv

LEMMA TypeParts == TypeOK <=> FolderOK /\ DriveOK /\ CallsOK
BY DEF TypeOK, FolderOK, DriveOK, CallsOK

LEMMA IdleOK == Idle \in CallTypes
BY DEF Idle, CallTypes, Ops, NoTags, Results, Unset, None

\* The initial states satisfy the inductive invariant.
LEMMA InitInv == Init => IInv
<1> SUFFICES ASSUME Init PROVE IInv
  OBVIOUS
<1> USE FilesAssumption DEF FilesAssumption
<1>1. PICK k \in 0 .. 2 : objects \in [1 .. k -> InitialObjects]
  BY DEF Init
<1>2. \A o \in InitialObjects : o \in ObjectTypes /\ o.tags = NoTags
  BY DEF InitialObjects, ObjectTypes, NoTags
<1>3. FolderOK
  BY <1>1, <1>2 DEF FolderOK, Ids, Init
<1>4. DriveOK
  BY DEF DriveOK, Init
<1>5. CallsOK
  BY IdleOK DEF CallsOK, Init
<1>6. OwnMetadata
  BY <1>1, <1>2 DEF OwnMetadata, NoTags
<1>7. CallsInv
  BY DEF CallsInv, CallOK, Init, Idle
<1> QED
  BY <1>3, <1>4, <1>5, <1>6, <1>7 DEF IInv

-----------------------------------------------------------------------------
(* Calls                                                                   *)

\* What a call that returns leaves behind.
LEMMA ReturnedCall ==
  ASSUME CallsOK, NEW c \in Callers, NEW ret \in Results,
         NEW fault \in BOOLEAN, Returned(c, ret, fault)
  PROVE  /\ call' \in [Callers -> CallTypes]
         /\ \A d \in Callers \ {c} : call'[d] = call[d]
         /\ call'[c].pc = "returned" /\ call'[c].ret = ret
         /\ call'[c].fault = fault
<1> DEFINE op == call[c].op
           r == [Idle EXCEPT !.op = op, !.ret = ret, !.fault = fault]
<1>1. op \in Ops
  BY DEF CallsOK, CallTypes
<1>2. r \in CallTypes /\ r.pc = "returned" /\ r.ret = ret /\ r.fault = fault
  <2> HIDE DEF op
  <2> QED
    BY <1>1 DEF Idle, CallTypes, NoTags, Unset, None
<1>3. call' = [call EXCEPT ![c] = r]
  BY DEF Returned
<1> HIDE DEF r
<1> QED
  BY <1>2, <1>3 DEF CallsOK

\* How a folder may change under the calls on it: an object that was there keeps
\* its name, the property no call writes, and what was given to it; a new one is
\* told of all calls under way on its name.
Kept ==
  /\ fresh \in Nat /\ fresh' \in Nat /\ fresh' >= fresh
  /\ \A i \in DOMAIN objects' : i < fresh =>
       /\ i \in DOMAIN objects /\ objects'[i].name = objects[i].name
       /\ objects'[i].tags["AlbumTitle"] = objects[i].tags["AlbumTitle"]
       /\ given[i] \subseteq given'[i]
  /\ \A i \in DOMAIN objects' : ~ (i < fresh) =>
       \A d \in Callers : call[d].name = objects'[i].name
                            => call[d].text \in given'[i]

\* A call whose record stays has all that it relies on.
LEMMA CallKept ==
  ASSUME IInv, Kept, NEW d \in Callers, call'[d] = call[d]
  PROVE  CallOK(call[d])'
<1> DEFINE r == call[d]
<1>1. CallOK(r) /\ r.at \in Nat
  BY FilesAssumption
  DEF FilesAssumption, IInv, CallsInv, CallsOK, CallTypes, Ids, None
<1>2. PICK q : q = r
  OBVIOUS
<1>3. q.at \in Nat /\ CallOK(q)
  BY <1>1, <1>2
<1>4. q.pc # "returned" => \A i \in DOMAIN objects' :
        objects'[i].name = q.name => q.text \in given'[i]
  <2> SUFFICES ASSUME q.pc # "returned", NEW i \in DOMAIN objects',
                      objects'[i].name = q.name
               PROVE  q.text \in given'[i]
    OBVIOUS
  <2>1. CASE i < fresh
    <3>1. i \in Named(q.name) /\ given[i] \subseteq given'[i]
      BY <2>1 DEF Kept, Named
    <3> QED
      BY <1>3, <3>1 DEF CallOK
  <2>2. CASE ~ (i < fresh)
    BY <1>2, <2>2 DEF Kept
  <2> QED
    BY <2>1, <2>2
<1>5. q.pc \in {"found", "store"} =>
        /\ q.at < fresh'
        /\ q.at \in DOMAIN objects' => objects'[q.at].name = q.name
  BY <1>3 DEF CallOK, Kept
<1>6. (q.pc = "store" /\ q.at \in DOMAIN objects') =>
        /\ q.tags["AlbumTitle"] = objects'[q.at].tags["AlbumTitle"]
        /\ \A k \in Keys : q.tags[k] \in given'[q.at] \cup {Unset}
  BY <1>3 DEF CallOK, Kept
<1>7. CallOK(q)'
  BY <1>3, <1>4, <1>5, <1>6 DEF CallOK, ListedIds, Named
<1> QED
  BY <1>2, <1>7

\* A call that goes on, with all that it relies on, keeps the invariant.
LEMMA CallGoesOn ==
  ASSUME IInv, NEW c \in Callers, NEW r \in CallTypes, CallOK(r),
         call' = [call EXCEPT ![c] = r],
         UNCHANGED unchangedDevice
  PROVE  IInv' /\ call'[c] = r
<1> USE DEF unchangedDevice
<1>1. FolderOK' /\ DriveOK' /\ OwnMetadata'
  BY DEF IInv, FolderOK, DriveOK, OwnMetadata
<1>2. CallsOK'
  BY DEF IInv, CallsOK
<1>3. ASSUME NEW d \in Callers PROVE CallOK(call[d])'
  <2>1. CallOK(call'[d])
    BY DEF IInv, CallsInv, CallsOK
  <2> QED
    BY <2>1 DEF CallOK, ListedIds, Named
<1>4. call'[c] = r
  BY DEF IInv, CallsOK
<1> QED
  BY <1>1, <1>2, <1>3, <1>4 DEF IInv, CallsInv

\* So does one that returns, if what it has done to the folder lets the others go
\* on.
LEMMA FolderChanges ==
  ASSUME IInv, NEW c \in Callers, NEW ret \in Results, NEW fault \in BOOLEAN,
         Returned(c, ret, fault), UNCHANGED calls,
         FolderOK', DriveOK', OwnMetadata', Kept
  PROVE  IInv'
<1>1. /\ call' \in [Callers -> CallTypes]
      /\ \A d \in Callers \ {c} : call'[d] = call[d]
      /\ call'[c].pc = "returned"
  BY ReturnedCall DEF IInv
<1>2. CallsOK'
  BY <1>1 DEF IInv, CallsOK
<1>3. ASSUME NEW d \in Callers PROVE CallOK(call[d])'
  <2>1. CASE d = c
    BY <1>1, <2>1 DEF CallOK
  <2>2. CASE d # c
    BY <1>1, <2>2, CallKept
  <2> QED
    BY <2>1, <2>2
<1> QED
  BY <1>2, <1>3 DEF IInv, CallsInv

LEMMA CallReturns ==
  ASSUME IInv, NEW c \in Callers, NEW ret \in Results, NEW fault \in BOOLEAN,
         Returned(c, ret, fault), UNCHANGED unchangedDevice
  PROVE  IInv'
<1>1. FolderOK' /\ DriveOK' /\ OwnMetadata'
  BY DEF IInv, FolderOK, DriveOK, OwnMetadata, unchangedDevice
<1>2. Kept
  BY FilesAssumption
  DEF FilesAssumption, Kept, IInv, FolderOK, unchangedDevice
<1> QED
  BY <1>1, <1>2, FolderChanges DEF unchangedDevice

-----------------------------------------------------------------------------
(* The folder                                                              *)

LEMMA TagsOK ==
  ASSUME NEW tags \in [Keys -> Texts \cup {Unset}], NEW key,
         NEW t \in Texts \cup {Unset}, NEW failed
  PROVE  LET stored == AddItems(tags, key, t, failed)
         IN /\ stored \in [Keys -> Texts \cup {Unset}]
            /\ \A k \in Keys : stored[k] \in {t, tags[k]}
BY DEF AddItems

LEMMA NoTagsOK == NoTags \in [Keys -> Texts \cup {Unset}]
BY DEF NoTags

\* An object inserted under the name of its call, on a drive only if that is
\* free, and with the text of that call, keeps the invariant.
LEMMA Inserted ==
  ASSUME IInv, NEW c \in Callers, NEW ret \in Results, NEW fault \in BOOLEAN,
         NEW o \in ObjectTypes, NEW replaced,
         InsertObject(o, replaced),
         mode = "MSC" => Named(o.name) = {},
         o.name = call[c].name,
         \A k \in Keys : o.tags[k] \in {call[c].text, Unset},
         Returned(c, ret, fault), UNCHANGED <<mode, calls>>
  PROVE  IInv'
<1> USE FilesAssumption DEF FilesAssumption
<1> DEFINE D == (DOMAIN objects \ replaced) \cup {fresh}
           told == {call[d].text : d \in {e \in Callers : call[e].name = o.name}}
<1>1. /\ objects' = [i \in D |-> IF i = fresh THEN o ELSE objects[i]]
      /\ fresh' = fresh + 1 /\ fresh <= MaxObjects
      /\ given' = [given EXCEPT ![fresh] = told]
  BY DEF InsertObject
<1>2. fresh \in Ids /\ fresh \notin DOMAIN objects /\ fresh \in Nat
  BY <1>1 DEF IInv, FolderOK, Ids
<1>3. DOMAIN objects' = D /\ objects'[fresh] = o
  BY <1>1
<1>4. ASSUME NEW i \in D, i # fresh
      PROVE  i \in DOMAIN objects /\ objects'[i] = objects[i]
  BY <1>1, <1>4
<1>5. /\ told \subseteq Texts \cup {Unset} /\ call[c].text \in told
      /\ \A d \in Callers : call[d].name = o.name => call[d].text \in told
  BY DEF IInv, CallsOK, CallTypes
<1> HIDE DEF D, told
<1>6. /\ given' \in [Ids -> SUBSET (Texts \cup {Unset})]
      /\ given'[fresh] = told
      /\ \A i \in Ids \ {fresh} : given'[i] = given[i]
  BY <1>1, <1>2, <1>5 DEF IInv, FolderOK
<1>7. D \subseteq Ids /\ \A i \in D : i # fresh => i < fresh
  BY <1>2, <1>4 DEF IInv, FolderOK
<1>8. FolderOK'
  <2>1. ASSUME NEW i \in D PROVE objects'[i] \in ObjectTypes /\ i < fresh'
    <3>1. CASE i = fresh
      BY <1>1, <1>2, <1>3, <3>1
    <3>2. CASE i # fresh
      BY <1>1, <1>2, <1>4, <1>7, <3>2 DEF IInv, FolderOK, Ids
    <3> QED
      BY <3>1, <3>2
  <2>2. fresh' \in 1 .. MaxObjects + 1
    BY <1>1, <1>2
  <2> QED
    BY <1>3, <1>6, <1>7, <2>1, <2>2 DEF FolderOK, Ids
<1>9. DriveOK'
  <2>1. mode' = mode /\ mode \in Modes
    BY DEF IInv, DriveOK
  <2> SUFFICES ASSUME mode = "MSC", NEW i \in D, NEW j \in D,
                      objects'[i].name = objects'[j].name
               PROVE  i = j
    BY <1>3, <2>1 DEF DriveOK
  <2>2. \A k \in DOMAIN objects : objects[k].name # o.name
    BY DEF Named
  <2> QED
    BY <1>3, <1>4, <2>2 DEF IInv, DriveOK
<1>10. OwnMetadata'
  <2> SUFFICES ASSUME NEW i \in D, NEW k \in Keys
               PROVE  objects'[i].tags[k] \in given'[i] \cup {Unset}
    BY <1>3 DEF OwnMetadata
  <2>1. CASE i = fresh
    BY <1>3, <1>5, <1>6, <2>1
  <2>2. CASE i # fresh
    BY <1>4, <1>6, <1>7, <2>2 DEF IInv, OwnMetadata
  <2> QED
    BY <2>1, <2>2
<1>11. Kept
  <2>1. fresh' \in Nat /\ fresh' >= fresh
    BY <1>1, <1>2
  <2>2. ASSUME NEW i \in D, i < fresh
        PROVE  /\ i \in DOMAIN objects /\ objects'[i] = objects[i]
               /\ given'[i] = given[i]
    BY <1>2, <1>4, <1>6, <1>7, <2>2
  <2>3. ASSUME NEW i \in D, ~ (i < fresh) PROVE i = fresh
    BY <1>7, <2>3
  <2> QED
    BY <1>2, <1>3, <1>5, <1>6, <2>1, <2>2, <2>3 DEF Kept
<1> QED
  BY <1>8, <1>9, <1>10, <1>11, FolderChanges

\* A folder with fewer objects keeps it.
LEMMA Deleted ==
  ASSUME IInv, NEW c \in Callers, NEW i,
         objects' = [j \in DOMAIN objects \ {i} |-> objects[j]],
         Return(c, "SUCCESS"), UNCHANGED <<mode, fresh, given, calls>>
  PROVE  IInv'
<1>1. /\ DOMAIN objects' \subseteq DOMAIN objects
      /\ \A j \in DOMAIN objects' : objects'[j] = objects[j]
  OBVIOUS
<1>2. FolderOK' /\ DriveOK' /\ OwnMetadata'
  BY <1>1 DEF IInv, FolderOK, DriveOK, OwnMetadata
<1>3. Kept
  BY <1>1, FilesAssumption DEF FilesAssumption, IInv, FolderOK, Kept, Ids
<1> QED
  BY <1>2, <1>3, FolderChanges DEF Return, Results

\* What StoreMetadata() stores: all the fields when no request fails, and
\* nothing else but what was there, all of it the file's own.
LEMMA StoredTags ==
  ASSUME IInv, NEW c \in Callers, At(c, "store", {"updateMetadata"}),
         call[c].at \in DOMAIN objects, NEW failed \in Failing,
         NEW tags,
         tags = AddItems(call[c].tags, UpdatedKey, call[c].text, failed)
  PROVE  /\ tags \in [Keys -> Texts \cup {Unset}]
         /\ tags["AlbumTitle"] = objects[call[c].at].tags["AlbumTitle"]
         /\ \A k \in Keys : tags[k] \in given[call[c].at] \cup {Unset}
         /\ failed = {} =>
              \A f \in Fields : tags[UpdatedKey[f]] = call[c].text
<1>1. /\ call[c].tags \in [Keys -> Texts \cup {Unset}]
      /\ call[c].text \in Texts \cup {Unset}
  BY DEF IInv, CallsOK, CallTypes
<1>2. /\ tags \in [Keys -> Texts \cup {Unset}]
      /\ \A k \in Keys : tags[k] \in {call[c].text, call[c].tags[k]}
  BY <1>1, TagsOK
<1>3. /\ DOMAIN UpdatedKey = Fields
      /\ \A f \in Fields : UpdatedKey[f] \in Keys /\ UpdatedKey[f] # "AlbumTitle"
  BY DEF UpdatedKey, Fields, Keys
<1>4. tags["AlbumTitle"] = call[c].tags["AlbumTitle"]
  BY <1>3 DEF AddItems, Keys
<1>5. CallOK(call[c]) /\ call[c].pc = "store"
  BY DEF IInv, CallsInv, At
<1>6. tags["AlbumTitle"] = objects[call[c].at].tags["AlbumTitle"]
  BY <1>4, <1>5 DEF CallOK
<1>7. call[c].text \in given[call[c].at]
  <2>1. call[c].at \in Named(call[c].name)
    BY <1>5 DEF CallOK, Named
  <2> QED
    BY <1>5, <2>1 DEF CallOK
<1>8. \A k \in Keys : tags[k] \in given[call[c].at] \cup {Unset}
  BY <1>2, <1>5, <1>7 DEF CallOK
<1>9. failed = {} => \A f \in Fields : tags[UpdatedKey[f]] = call[c].text
  BY <1>3 DEF AddItems
<1> QED
  BY <1>2, <1>6, <1>8, <1>9

LEMMA StoreStep ==
  ASSUME IInv, NEW c \in Callers, StoreMetadata(c)
  PROVE  IInv'
<1> USE FilesAssumption DEF FilesAssumption
<1>1. PICK failed \in Failing :
        /\ objects' = [objects EXCEPT ![call[c].at].tags =
             AddItems(call[c].tags, UpdatedKey, call[c].text, failed)]
        /\ Returned(c, "SUCCESS", failed # {})
  BY DEF StoreMetadata
<1> DEFINE a == call[c].at
           tags == AddItems(call[c].tags, UpdatedKey, call[c].text, failed)
<1>2. At(c, "store", {"updateMetadata"}) /\ a \in DOMAIN objects
      /\ UNCHANGED <<mode, fresh, given, calls>>
  BY DEF StoreMetadata
<1>3. /\ tags \in [Keys -> Texts \cup {Unset}]
      /\ tags["AlbumTitle"] = objects[a].tags["AlbumTitle"]
      /\ \A k \in Keys : tags[k] \in given[a] \cup {Unset}
  BY <1>2, StoredTags
<1>4. objects[a] \in ObjectTypes
  BY <1>2 DEF IInv, FolderOK
<1> HIDE DEF tags
<1>5. DOMAIN objects' = DOMAIN objects
      /\ \A i \in DOMAIN objects \ {a} : objects'[i] = objects[i]
  BY <1>1 DEF tags
<1>6. /\ objects'[a] \in ObjectTypes /\ objects'[a].name = objects[a].name
      /\ objects'[a].tags = tags
  <2>1. objects'[a] = [objects[a] EXCEPT !.tags = tags]
    BY <1>1, <1>2 DEF tags
  <2> HIDE DEF a
  <2> QED
    BY <1>3, <1>4, <2>1 DEF ObjectTypes
<1> HIDE DEF a
<1>7. FolderOK'
  BY <1>2, <1>5, <1>6 DEF IInv, FolderOK
<1>8. DriveOK'
  BY <1>2, <1>5, <1>6 DEF IInv, DriveOK
<1>9. OwnMetadata'
  <2> SUFFICES ASSUME NEW i \in DOMAIN objects, NEW k \in Keys
               PROVE  objects'[i].tags[k] \in given[i] \cup {Unset}
    BY <1>2, <1>5 DEF OwnMetadata
  <2>1. CASE i = a
    BY <2>1, <1>3, <1>6
  <2>2. CASE i # a
    BY <1>5, <2>2 DEF IInv, OwnMetadata
  <2> QED
    BY <2>1, <2>2
<1>10. Kept
  BY <1>2, <1>3, <1>5, <1>6 DEF IInv, FolderOK, Kept, Ids
<1>11. "SUCCESS" \in Results /\ (failed # {}) \in BOOLEAN
  BY DEF Results
<1> QED
  BY <1>1, <1>2, <1>7, <1>8, <1>9, <1>10, <1>11, FolderChanges

-----------------------------------------------------------------------------
(* The steps                                                               *)

LEMMA BeginStep ==
  ASSUME IInv, NEW c \in Callers, Begin(c)
  PROVE  IInv'
<1>a. PICK op \in Ops : \E n \in NamesOf(op) : \E t \in TextsOf(op) :
        /\ call' = [call EXCEPT ![c] =
             [Idle EXCEPT !.pc = "begin", !.op = op, !.name = n, !.text = t]]
        /\ given' = [i \in Ids |-> IF i \in Named(n) THEN given[i] \cup {t}
                                                      ELSE given[i]]
  BY Zenon DEF Begin
<1>b. PICK n \in NamesOf(op), t \in TextsOf(op) :
        /\ call' = [call EXCEPT ![c] =
             [Idle EXCEPT !.pc = "begin", !.op = op, !.name = n, !.text = t]]
        /\ given' = [i \in Ids |-> IF i \in Named(n) THEN given[i] \cup {t}
                                                      ELSE given[i]]
  BY <1>a, Zenon
<1>c. /\ n \in Names \cup {None} /\ t \in Texts \cup {Unset}
      /\ op # "parseFolder" => n \in Names
  BY DEF NamesOf, TextsOf
<1> DEFINE r == [Idle EXCEPT !.pc = "begin", !.op = op, !.name = n, !.text = t]
<1>2. r \in CallTypes /\ r.pc = "begin" /\ r.op = op /\ r.name = n
        /\ r.seen = {} /\ r.text = t
  BY <1>c, IdleOK DEF Idle, CallTypes
<1>3. call' = [call EXCEPT ![c] = r] /\ UNCHANGED <<mode, objects, fresh>>
  BY <1>b DEF Begin
<1> HIDE DEF r
<1>4. /\ call' \in [Callers -> CallTypes] /\ call'[c] = r
      /\ \A d \in Callers \ {c} : call'[d] = call[d]
  BY <1>2, <1>3 DEF IInv, CallsOK
<1>5. calls' \in 0 .. MaxCalls
  BY FilesAssumption DEF FilesAssumption, Begin, IInv, CallsOK
<1>6. /\ given' \in [Ids -> SUBSET (Texts \cup {Unset})]
      /\ \A i \in Ids : given[i] \subseteq given'[i]
      /\ \A i \in Ids : i \in Named(n) => t \in given'[i]
  BY <1>b, <1>c DEF IInv, FolderOK
<1>7. FolderOK' /\ DriveOK' /\ CallsOK'
  BY <1>3, <1>4, <1>5, <1>6 DEF IInv, FolderOK, DriveOK, CallsOK
<1>8. OwnMetadata'
  BY <1>3, <1>6 DEF IInv, FolderOK, OwnMetadata
<1>9. Kept
  BY <1>3, <1>6, FilesAssumption DEF FilesAssumption, Kept, IInv, FolderOK
<1>10. CallOK(r)'
  <2>1. \A i \in DOMAIN objects' : objects'[i].name = n => t \in given'[i]
    BY <1>3, <1>6 DEF Named, IInv, FolderOK
  <2> QED
    BY <1>c, <1>2, <2>1 DEF CallOK, Named
<1>11. ASSUME NEW d \in Callers PROVE CallOK(call[d])'
  <2>1. CASE d = c
    BY <1>4, <1>10, <2>1
  <2>2. CASE d # c
    BY <1>4, <1>9, <2>2, CallKept
  <2> QED
    BY <2>1, <2>2
<1> QED
  BY <1>7, <1>8, <1>11 DEF IInv, CallsInv

LEMMA FindStep ==
  ASSUME IInv, NEW c \in Callers, FindStorage(c)
  PROVE  IInv' /\ call'[c].pc # "returned"
<1>1. PICK i \in Named(call[c].name) :
        call' = [call EXCEPT ![c].at = i, ![c].pc = "found"]
  BY DEF FindStorage
<1> DEFINE r == [call[c] EXCEPT !.at = i, !.pc = "found"]
<1>2. call[c] \in CallTypes /\ CallOK(call[c])
  BY DEF IInv, CallsOK, CallsInv
<1>3. i \in Ids /\ i < fresh /\ objects[i].name = call[c].name
  BY DEF Named, IInv, FolderOK
<1>4. /\ r \in CallTypes /\ r.pc = "found" /\ r.at = i
      /\ r.name = call[c].name /\ r.op = call[c].op
      /\ r.text = call[c].text
  BY <1>2, <1>3 DEF CallTypes
<1>5. call' = [call EXCEPT ![c] = r]
  BY <1>1 DEF IInv, CallsOK
<1> HIDE DEF r
<1>6. CallOK(r)
  BY <1>2, <1>3, <1>4 DEF CallOK, FindStorage, At, MetadataOps, DeleteOps
<1>7. UNCHANGED unchangedDevice
  BY DEF FindStorage
<1> QED
  BY <1>4, <1>5, <1>6, <1>7, CallGoesOn

LEMMA ReadStep ==
  ASSUME IInv, NEW c \in Callers, ReadMetadata(c)
  PROVE  IInv' /\ call'[c].pc # "returned"
<1> DEFINE tags == objects[call[c].at].tags
           r == [call[c] EXCEPT !.tags = tags, !.pc = "store"]
<1>1. call[c] \in CallTypes /\ CallOK(call[c])
  BY DEF IInv, CallsOK, CallsInv
<1>2. tags \in [Keys -> Texts \cup {Unset}]
  BY DEF ReadMetadata, IInv, FolderOK, ObjectTypes
<1>3. call' = [call EXCEPT ![c] = r]
  BY DEF ReadMetadata, IInv, CallsOK
<1> HIDE DEF tags
<1>4. /\ r \in CallTypes /\ r.pc = "store" /\ r.at = call[c].at
      /\ r.name = call[c].name /\ r.op = call[c].op /\ r.tags = tags
      /\ r.text = call[c].text
  BY <1>1, <1>2 DEF CallTypes
<1> HIDE DEF r
<1>5. \A k \in Keys : tags[k] \in given[call[c].at] \cup {Unset}
  BY DEF tags, ReadMetadata, IInv, OwnMetadata
<1>6. CallOK(r)
  BY <1>1, <1>4, <1>5 DEF CallOK, ReadMetadata, At, tags
<1>7. UNCHANGED unchangedDevice
  BY DEF ReadMetadata
<1> QED
  BY <1>3, <1>4, <1>6, <1>7, CallGoesOn

LEMMA ParseSteps ==
  ASSUME IInv, NEW c \in Callers,
         OpenFolder(c) \/ ListEntry(c) \/ NextStorage(c) \/ ListStorage(c)
  PROVE  IInv' /\ call'[c].pc # "returned"
<1>1. call[c] \in CallTypes /\ CallOK(call[c])
  BY DEF IInv, CallsOK, CallsInv
<1>2. UNCHANGED unchangedDevice
  BY DEF OpenFolder, ListEntry, NextStorage, ListStorage
<1>3. DOMAIN objects \subseteq Ids
  BY DEF IInv, FolderOK
<1>4. \A i \in DOMAIN objects :
        Entry(i) \in [id : Ids \cup Dots, kind : Kinds] /\ Entry(i).id = i
  BY <1>3 DEF Entry, IInv, FolderOK, ObjectTypes
<1>5. CASE OpenFolder(c)
  <2>1. PICK dots \in SUBSET Dots :
          call' = [call EXCEPT ![c].pc = "enumerate", ![c].start = DOMAIN objects,
                     ![c].listed = [id : dots, kind : {"folder"}]]
    BY <1>5 DEF OpenFolder
  <2> DEFINE listed == [id : dots, kind : {"folder"}]
             r == [call[c] EXCEPT !.pc = "enumerate", !.start = DOMAIN objects,
                                  !.listed = listed]
  <2>2. call' = [call EXCEPT ![c] = r]
    BY <2>1 DEF IInv, CallsOK
  <2>3. listed \in SUBSET [id : Ids \cup Dots, kind : Kinds]
    BY DEF Kinds
  <2> HIDE DEF listed
  <2>4. /\ r \in CallTypes /\ r.pc = "enumerate" /\ r.op = call[c].op
        /\ r.seen = call[c].seen /\ r.name = call[c].name /\ r.text = call[c].text
    BY <1>1, <1>3, <2>3 DEF CallTypes
  <2> HIDE DEF r
  <2>5. call[c].seen = {} => CallOK(r)
    BY <1>1, <2>4, <1>5 DEF CallOK, OpenFolder, At
  <2>6. call[c].pc = "begin" /\ call[c].op = "parseFolder"
    BY <1>5 DEF OpenFolder, At
  <2>7. call[c].seen = {}
    BY <1>1, <2>6 DEF CallOK
  <2> QED
    BY <1>2, <2>2, <2>4, <2>5, <2>7, CallGoesOn
<1>6. CASE ListEntry(c)
  <2>1. PICK i \in DOMAIN objects \ call[c].seen :
          call' = [call EXCEPT ![c].seen = @ \cup {i},
                               ![c].listed = @ \cup {Entry(i)}]
    BY <1>6 DEF ListEntry
  <2> DEFINE seen == call[c].seen \cup {i}
             listed == call[c].listed \cup {Entry(i)}
             r == [call[c] EXCEPT !.seen = seen, !.listed = listed]
  <2>2. call' = [call EXCEPT ![c] = r]
    BY <2>1 DEF IInv, CallsOK
  <2>3. seen \in SUBSET Ids /\ listed \in SUBSET [id : Ids \cup Dots, kind : Kinds]
    BY <1>1, <1>3, <1>4 DEF CallTypes
  <2>4. seen \subseteq {e.id : e \in listed}
    BY <1>1, <1>4, <1>6 DEF CallOK, ListedIds, ListEntry, At
  <2> HIDE DEF seen, listed
  <2>5. /\ r \in CallTypes /\ r.pc = call[c].pc /\ r.op = call[c].op
        /\ r.seen = seen /\ r.listed = listed
        /\ r.name = call[c].name /\ r.text = call[c].text
    BY <1>1, <2>3 DEF CallTypes
  <2> HIDE DEF r
  <2>6. CallOK(r)
    BY <1>1, <2>4, <2>5, <1>6 DEF CallOK, ListedIds, ListEntry, At
  <2> QED
    BY <1>2, <1>6, <2>2, <2>5, <2>6, CallGoesOn DEF ListEntry, At
<1>7. CASE NextStorage(c)
  <2>1. PICK i \in DOMAIN objects \ call[c].seen :
          call' = [call EXCEPT ![c].seen = @ \cup {i}, ![c].at = i,
                               ![c].pc = "attributes"]
    BY <1>7 DEF NextStorage
  <2> DEFINE seen == call[c].seen \cup {i}
             r == [call[c] EXCEPT !.seen = seen, !.at = i, !.pc = "attributes"]
  <2>2. call' = [call EXCEPT ![c] = r]
    BY <2>1 DEF IInv, CallsOK
  <2>3. seen \in SUBSET Ids
    BY <1>1, <1>3 DEF CallTypes
  <2>4. seen \subseteq ListedIds(call[c]) \cup {i}
    BY <1>1, <1>7 DEF CallOK, NextStorage, At
  <2> HIDE DEF seen
  <2>5. /\ r \in CallTypes /\ r.pc = "attributes" /\ r.op = call[c].op
        /\ r.seen = seen /\ r.listed = call[c].listed /\ r.at = i
        /\ r.name = call[c].name /\ r.text = call[c].text
    BY <1>1, <1>3, <2>3 DEF CallTypes
  <2> HIDE DEF r
  <2>6. CallOK(r)
    BY <1>1, <2>4, <2>5, <1>7 DEF CallOK, ListedIds, NextStorage, At
  <2> QED
    BY <1>2, <2>2, <2>5, <2>6, CallGoesOn
<1>8. CASE ListStorage(c)
  <2> DEFINE listed == call[c].listed \cup {Entry(call[c].at)}
             r == [call[c] EXCEPT !.listed = listed, !.at = None,
                                  !.pc = "enumerate"]
  <2>1. call' = [call EXCEPT ![c] = r]
    BY <1>8 DEF ListStorage, IInv, CallsOK
  <2>2. listed \in SUBSET [id : Ids \cup Dots, kind : Kinds]
    BY <1>1, <1>4, <1>8 DEF CallTypes, ListStorage
  <2>3. call[c].seen \subseteq {e.id : e \in listed}
    BY <1>1, <1>4, <1>8 DEF CallOK, ListedIds, ListStorage, At
  <2> HIDE DEF listed
  <2>4. /\ r \in CallTypes /\ r.pc = "enumerate" /\ r.op = call[c].op
        /\ r.seen = call[c].seen /\ r.listed = listed
        /\ r.name = call[c].name /\ r.text = call[c].text
    BY <1>1, <2>2 DEF CallTypes
  <2> HIDE DEF r
  <2>5. CallOK(r)
    BY <1>1, <2>3, <2>4, <1>8 DEF CallOK, ListedIds, ListStorage, At
  <2> QED
    BY <1>2, <2>1, <2>4, <2>5, CallGoesOn
<1> QED
  BY <1>5, <1>6, <1>7, <1>8

\* Steps that only make a call return.
LEMMA ReturnSteps ==
  ASSUME IInv, NEW c \in Callers,
         \/ DeviceUnknown(c) \/ ExistFile(c) \/ ExistFolder(c) \/ SendFails(c)
         \/ MetadataOnDrive(c) \/ MetadataFails(c) \/ FolderNotOpened(c)
         \/ StorageFails(c) \/ NextFileFails(c) \/ EndOfFolder(c)
         \/ DeleteFails(c) \/ GetMetadata(c)
  PROVE  IInv'
<1>1. PICK ret \in Results, fault \in BOOLEAN :
        Returned(c, ret, fault) /\ UNCHANGED unchangedDevice
  BY Zenon DEF DeviceUnknown, ExistFile, ExistFolder, ExistItem, SendFails,
         MetadataOnDrive, MetadataFails, FolderNotOpened, StorageFails,
         NextFileFails, EndOfFolder, DeleteFails, GetMetadata, Return, Results
<1> QED
  BY <1>1, CallReturns

LEMMA DeleteSteps ==
  ASSUME IInv, NEW c \in Callers, DeleteOnDrive(c) \/ DeleteStorage(c)
  PROVE  IInv'
BY Deleted DEF DeleteOnDrive, DeleteStorage

\* A call that names something has a name.
LEMMA CallName ==
  ASSUME IInv, NEW c \in Callers, NEW label, NEW op,
         At(c, label, {op}), label # "returned", op # "parseFolder"
  PROVE  call[c].name \in Names
BY DEF At, IInv, CallsInv, CallOK

LEMMA InsertSteps ==
  ASSUME IInv, NEW c \in Callers,
         CreateFolder(c) \/ SendToDrive(c) \/ SendToMtp(c) \/ SendBreaks(c)
  PROVE  IInv'
<1> DEFINE n == call[c].name
<1>1. n \in Names
  BY CallName DEF CreateFolder, SendToDrive, SendToMtp, SendBreaks
<1>2. \A kind \in Kinds :
        /\ NewObject(n, kind) \in ObjectTypes /\ NewObject(n, kind).name = n
        /\ \A k \in Keys : NewObject(n, kind).tags[k] \in {call[c].text, Unset}
  BY <1>1, NoTagsOK DEF NewObject, ObjectTypes, NoTags
<1> HIDE DEF n
<1>3. ASSUME NEW ret \in Results, Return(c, ret), NEW kind \in Kinds,
             mode = "MSC" => Named(n) = {}, InsertObject(NewObject(n, kind), {}),
             UNCHANGED <<mode, calls>>
      PROVE  IInv'
  <2> DEFINE o == NewObject(n, kind)
  <2>1. /\ o \in ObjectTypes /\ o.name = n
        /\ \A k \in Keys : o.tags[k] \in {call[c].text, Unset}
    BY <1>2
  <2> HIDE DEF o
  <2> QED
    BY <1>3, <2>1, Inserted DEF Return, n, o
<1>4. ASSUME NEW ret \in Results, Return(c, ret),
             UNCHANGED <<objects, fresh, given>>, UNCHANGED <<mode, calls>>
      PROVE  IInv'
  BY <1>4, CallReturns DEF Return, unchangedDevice
<1>5. CASE CreateFolder(c)
  BY <1>3, <1>4, <1>5 DEF CreateFolder, Results, Kinds, n
<1>6. CASE SendToDrive(c) \/ SendBreaks(c)
  BY <1>3, <1>4, <1>6 DEF SendToDrive, SendBreaks, Results, Kinds, n
<1>7. CASE SendToMtp(c)
  <2> DEFINE old == {i \in Named(n) : objects[i].kind = "file"}
  <2>1. PICK failed \in Failing :
          /\ InsertObject(
               [name |-> n, kind |-> "file",
                tags |-> AddItems(NoTags, SentKey, call[c].text, failed)], old)
          /\ Returned(c, "SUCCESS", failed # {})
    BY <1>7 DEF SendToMtp, n
  <2> DEFINE tags == AddItems(NoTags, SentKey, call[c].text, failed)
             o == [name |-> n, kind |-> "file", tags |-> tags]
  <2>2. call[c].text \in Texts \cup {Unset}
    BY DEF IInv, CallsOK, CallTypes
  <2>3. /\ tags \in [Keys -> Texts \cup {Unset}]
        /\ \A k \in Keys : tags[k] \in {call[c].text, NoTags[k]}
    BY <2>2, TagsOK, NoTagsOK
  <2>4. InsertObject(o, old)
    BY <2>1
  <2> HIDE DEF tags
  <2>5. o \in ObjectTypes /\ o.name = n /\ o.tags = tags
    BY <1>1, <2>3 DEF ObjectTypes, Kinds
  <2> HIDE DEF o, old
  <2>6. \A k \in Keys : o.tags[k] \in {call[c].text, Unset}
    BY <2>3, <2>5 DEF NoTags
  <2>7. mode # "MSC" /\ UNCHANGED <<mode, calls>>
    BY <1>7 DEF SendToMtp
  <2>8. "SUCCESS" \in Results /\ (failed # {}) \in BOOLEAN
    BY DEF Results
  <2> QED
    BY <2>1, <2>4, <2>5, <2>6, <2>7, <2>8, Inserted DEF n
<1> QED
  BY <1>5, <1>6, <1>7

\* Every step keeps the invariant.
LEMMA StepInv == IInv /\ [Next]_vars => IInv'
<1> SUFFICES ASSUME IInv, [Next]_vars PROVE IInv'
  OBVIOUS
<1>1. CASE UNCHANGED vars
  BY <1>1 DEF vars, IInv, FolderOK, DriveOK, CallsOK, OwnMetadata, CallsInv,
              CallOK, ListedIds, Named
<1>2. ASSUME NEW c \in Callers, Step(c) PROVE IInv'
  BY <1>2, BeginStep, FindStep, ReadStep, StoreStep, ParseSteps, ReturnSteps,
     DeleteSteps, InsertSteps DEF Step
<1> QED
  BY <1>1, <1>2 DEF Next, Finished

\* The inductive invariant is an invariant.
THEOREM FilesInvariant == Spec => []IInv
BY InitInv, StepInv, PTL DEF Spec

\* The variables have their types, and a drive holds one object of a name
\* whatever calls overlap.
THEOREM FilesTypeCorrect == Spec => []TypeOK
<1>1. IInv => TypeOK
  BY TypeParts DEF IInv
<1> QED
  BY <1>1, FilesInvariant, PTL

\* Nothing that is known of a file comes back in another one.
THEOREM MetadataIsOwn == Spec => []OwnMetadata
<1>1. IInv => OwnMetadata
  BY DEF IInv
<1> QED
  BY <1>1, FilesInvariant, PTL

-----------------------------------------------------------------------------
(* Answers                                                                 *)

\* A call returns by a step of its own.
LEMMA OwnStep ==
  ASSUME IInv, [Next]_vars, NEW c \in Callers, NEW op, Returns(c, op)
  PROVE  Step(c)
<1> SUFFICES ASSUME NEW d \in Callers, Step(d) PROVE d = c
  BY DEF Next, Finished, vars, Returns
<1> SUFFICES ASSUME d # c PROVE call'[c] = call[c]
  BY DEF Returns
<1>1. call \in [Callers -> CallTypes]
  BY DEF IInv, CallsOK
<1>2. ASSUME NEW ret, NEW fault, Returned(d, ret, fault)
      PROVE  call'[c] = call[c]
  BY <1>1, <1>2 DEF Returned
<1>3. CASE Begin(d) \/ FindStorage(d) \/ ReadMetadata(d)
  BY <1>1, <1>3 DEF Begin, FindStorage, ReadMetadata
<1>4. CASE OpenFolder(d) \/ ListEntry(d) \/ NextStorage(d) \/ ListStorage(d)
  BY <1>1, <1>4 DEF OpenFolder, ListEntry, NextStorage, ListStorage
<1>5. CASE \/ DeviceUnknown(d) \/ MetadataOnDrive(d) \/ MetadataFails(d)
           \/ FolderNotOpened(d) \/ StorageFails(d) \/ NextFileFails(d)
           \/ EndOfFolder(d) \/ SendFails(d) \/ SendBreaks(d)
  BY <1>2, <1>5, Zenon
  DEF DeviceUnknown, MetadataOnDrive, MetadataFails, FolderNotOpened,
      StorageFails, NextFileFails, EndOfFolder, SendFails, SendBreaks, Return
<1>6. CASE \/ ExistFile(d) \/ ExistFolder(d) \/ DeleteOnDrive(d)
           \/ DeleteStorage(d) \/ DeleteFails(d) \/ CreateFolder(d)
           \/ SendToDrive(d) \/ SendToMtp(d)
  BY <1>2, <1>6, Zenon
  DEF ExistFile, ExistFolder, ExistItem, DeleteOnDrive, DeleteStorage, DeleteFails,
      CreateFolder, SendToDrive, SendToMtp, Return
<1>7. CASE GetMetadata(d) \/ StoreMetadata(d)
  BY <1>2, <1>7, Zenon DEF GetMetadata, StoreMetadata
<1> QED
  BY <1>3, <1>4, <1>5, <1>6, <1>7 DEF Step

\* What a step of a call of op answers.
LEMMA Answers ==
  ASSUME IInv, [Next]_vars, NEW c \in Callers,
         NEW op \in {"updateMetadata", "parseFolder"},
         Returns(c, op)
  PROVE  /\ op = "updateMetadata" => StoreMetadata(c)
         /\ op = "parseFolder" => EndOfFolder(c)
<1>1. Step(c)
  BY OwnStep
<1>2. call \in [Callers -> CallTypes]
  BY DEF IInv, CallsOK
<1>3. /\ call[c].pc # "returned" /\ call[c].op = op
      /\ call'[c].pc = "returned" /\ call'[c].ret = "SUCCESS"
      /\ call'[c].fault = FALSE
  BY <1>2 DEF Returns
<1>4. ASSUME NEW ret \in Results, NEW fault \in BOOLEAN,
             Returned(c, ret, fault)
      PROVE  ret = "SUCCESS" /\ fault = FALSE
  BY <1>3, <1>4, ReturnedCall DEF IInv
<1>5. ~ Begin(c)
  BY <1>3 DEF Begin
<1>6. /\ ~ FindStorage(c) /\ ~ ReadMetadata(c) /\ ~ OpenFolder(c)
      /\ ~ ListEntry(c) /\ ~ NextStorage(c) /\ ~ ListStorage(c)
  BY <1>3, FindStep, ReadStep, ParseSteps
<1>7. /\ ~ DeviceUnknown(c) /\ ~ MetadataOnDrive(c) /\ ~ MetadataFails(c)
      /\ ~ FolderNotOpened(c) /\ ~ StorageFails(c) /\ ~ NextFileFails(c)
  <2>1. ASSUME NEW ret \in Results, Return(c, ret) PROVE ret = "SUCCESS"
    BY <1>4, <2>1 DEF Return
  <2>2. ~ Returned(c, "SUCCESS", TRUE)
    BY <1>4 DEF Results
  <2>3. /\ ~ Return(c, "NOTMOUNTED") /\ ~ Return(c, "MSC_NOTAVAILABLE")
        /\ ~ Return(c, "METADATA_PROPERTY") /\ ~ Return(c, "FAILED")
    BY <2>1 DEF Results
  <2> QED
    BY <2>2, <2>3, Zenon
    DEF DeviceUnknown, MetadataOnDrive, MetadataFails, FolderNotOpened,
        StorageFails, NextFileFails
<1>8. /\ ~ ExistFile(c) /\ ~ ExistFolder(c) /\ ~ DeleteOnDrive(c)
      /\ ~ DeleteStorage(c) /\ ~ DeleteFails(c) /\ ~ CreateFolder(c)
      /\ ~ SendToDrive(c) /\ ~ SendToMtp(c) /\ ~ SendBreaks(c) /\ ~ SendFails(c)
      /\ ~ GetMetadata(c)
  BY <1>3 DEF ExistFile, ExistFolder, DeleteOnDrive, DeleteStorage, DeleteFails,
              DeleteOps, CreateFolder, SendToDrive, SendToMtp, SendBreaks, SendFails,
              GetMetadata, At
<1>9. /\ StoreMetadata(c) => op = "updateMetadata"
      /\ EndOfFolder(c) => op = "parseFolder"
  BY <1>3 DEF StoreMetadata, EndOfFolder, At
<1> QED
  BY <1>1, <1>5, <1>6, <1>7, <1>8, <1>9 DEF Step

\* updateMetadata() answers 0 only when a file of that name has the metadata
\* and is otherwise unchanged.
THEOREM UpdateDelivered == Spec => UpdateDelivers
<1> DEFINE A == \A c \in Callers :
       Returns(c, "updateMetadata") =>
         \E i \in DOMAIN objects' \cap DOMAIN objects :
           /\ objects'[i].name = call[c].name
           /\ \A f \in Fields : objects'[i].tags[UpdatedKey[f]] = call[c].text
           /\ \A k \in Keys \ {UpdatedKey[f] : f \in Fields} :
                objects'[i].tags[k] = objects[i].tags[k]
<1>1. ASSUME IInv, [Next]_vars PROVE A
  <2> SUFFICES ASSUME NEW c \in Callers, Returns(c, "updateMetadata")
               PROVE  \E i \in DOMAIN objects' \cap DOMAIN objects :
                 /\ objects'[i].name = call[c].name
                 /\ \A f \in Fields :
                      objects'[i].tags[UpdatedKey[f]] = call[c].text
                 /\ \A k \in Keys \ {UpdatedKey[f] : f \in Fields} :
                      objects'[i].tags[k] = objects[i].tags[k]
    OBVIOUS
  <2>1. StoreMetadata(c)
    BY <1>1, Answers
  <2> DEFINE a == call[c].at
  <2>2. PICK failed \in Failing :
          /\ objects' = [objects EXCEPT ![a].tags =
               AddItems(call[c].tags, UpdatedKey, call[c].text, failed)]
          /\ Returned(c, "SUCCESS", failed # {})
    BY <2>1 DEF StoreMetadata
  <2> DEFINE tags == AddItems(call[c].tags, UpdatedKey, call[c].text, failed)
  <2>3. failed = {}
    <3>1. "SUCCESS" \in Results /\ (failed # {}) \in BOOLEAN
      BY DEF Results
    <3>2. call'[c].fault = (failed # {})
      BY <1>1, <2>2, <3>1, ReturnedCall DEF IInv
    <3> QED
      BY <3>2 DEF Returns
  <2>4. At(c, "store", {"updateMetadata"}) /\ a \in DOMAIN objects
    BY <2>1 DEF StoreMetadata
  <2>5. /\ tags["AlbumTitle"] = objects[a].tags["AlbumTitle"]
        /\ \A f \in Fields : tags[UpdatedKey[f]] = call[c].text
    BY <1>1, <2>3, <2>4, StoredTags
  <2>6. objects[a] \in ObjectTypes /\ objects[a].name = call[c].name
    BY <1>1, <2>4 DEF IInv, FolderOK, CallsInv, CallOK, At
  <2> HIDE DEF tags
  <2>7. a \in DOMAIN objects' /\ objects'[a].tags = tags
          /\ objects'[a].name = objects[a].name
    <3>1. a \in DOMAIN objects'
            /\ objects'[a] = [objects[a] EXCEPT !.tags = tags]
      BY <2>2, <2>4 DEF tags
    <3> HIDE DEF a
    <3> QED
      BY <2>6, <3>1 DEF ObjectTypes
  <2>8. Keys \ {UpdatedKey[f] : f \in Fields} = {"AlbumTitle"}
    BY DEF Keys, UpdatedKey, Fields
  <2> QED
    BY <2>4, <2>5, <2>6, <2>7, <2>8
<1>2. IInv /\ [Next]_vars => [A]_vars
  BY <1>1
<1> QED
  BY <1>2, FilesInvariant, PTL DEF Spec, UpdateDelivers

\* parseFolder() answers 0 only when it has listed every object that was in the
\* folder all the time.
THEOREM ListingIsComplete == Spec => ListingComplete
<1> DEFINE A == \A c \in Callers :
       Returns(c, "parseFolder") =>
         call[c].start \cap DOMAIN objects
           \subseteq {e.id : e \in call[c].listed}
<1>1. ASSUME IInv, [Next]_vars PROVE A
  <2> SUFFICES ASSUME NEW c \in Callers, Returns(c, "parseFolder")
               PROVE  call[c].start \cap DOMAIN objects
                        \subseteq {e.id : e \in call[c].listed}
    OBVIOUS
  <2>1. EndOfFolder(c)
    BY <1>1, Answers
  <2>2. call[c].seen \subseteq {e.id : e \in call[c].listed}
    BY <1>1, <2>1 DEF IInv, CallsInv, CallOK, ListedIds, EndOfFolder, At
  <2> QED
    BY <2>1, <2>2 DEF EndOfFolder
<1>2. IInv /\ [Next]_vars => [A]_vars
  BY <1>1
<1> QED
  BY <1>2, FilesInvariant, PTL DEF Spec, ListingComplete
=============================================================================
