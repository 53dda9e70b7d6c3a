-------------------------- MODULE MtpDevice_proofs --------------------------
(***************************************************************************)
(* Proofs about MtpDevice, for any number of callers and calls, any names  *)
(* and any paths.                                                          *)
(***************************************************************************)
EXTENDS MtpDevice, FiniteSetTheorems, TLAPS

TreeOK ==
  /\ DOMAIN tree \subseteq Objects
  /\ \A i \in DOMAIN tree : tree[i] \in ObjectTypes /\ IsFolder(tree[i].parent)
  /\ fresh \in 1 .. MaxObjects + 1 /\ \A i \in DOMAIN tree : i < fresh

CallRecords ==
  [pc : {"walk", "create", "returned"}, op : Ops, path : Paths \cup {<<>>},
   depth : Nat, at : {Root} \cup Objects, ok : BOOLEAN, fault : BOOLEAN]

CallsOK ==
  /\ calls \in 0 .. MaxCalls
  /\ call \in [Callers -> CallRecords]

\* A call that is under way has a path, and a folder is created only by a send
\* and only before the last name: the name inserted is a name.
WalkInv ==
  \A c \in Callers :
    /\ call[c].pc # "returned" => call[c].path \in Paths
    /\ call[c].pc = "create"
         => call[c].op = "send" /\ call[c].depth < Len(call[c].path) - 1

IInv == TreeOK /\ CallsOK /\ WalkInv

LEMMA TypeParts == TypeOK <=> TreeOK /\ CallsOK
BY DEF TypeOK, TreeOK, CallsOK, CallRecords

\* The names a call uses are names.
LEMMA NamesOfPath ==
  ASSUME NEW p \in Paths
  PROVE  /\ Len(p) \in Nat \ {0}
         /\ \A n \in 1 .. Len(p) : p[n] \in Names
BY DeviceAssumption DEF DeviceAssumption

\* An object that is not below s has a parent that is not below s.
LEMMA BelowClosed ==
  ASSUME NEW s, NEW i \in DOMAIN tree, i \notin Below(s)
  PROVE  tree[i].parent \notin Below(s)
<1> SUFFICES ASSUME tree[i].parent \in Below(s) PROVE FALSE
  OBVIOUS
<1>1. PICK S \in SUBSET DOMAIN tree : s \in S /\ Closed(S) /\ i \notin S
  BY DEF Below
<1>2. tree[i].parent \in S
  BY <1>1 DEF Below
<1> QED
  BY <1>1, <1>2 DEF Closed

\* The initial states satisfy the inductive invariant.
LEMMA InitInv == Init => IInv
<1> SUFFICES ASSUME Init PROVE IInv
  OBVIOUS
<1> USE DeviceAssumption DEF DeviceAssumption, Objects
<1>1. PICK k \in 0 .. 2 : tree \in [1 .. k -> ObjectTypes]
  BY DEF Init, SomeTrees
<1>2. \A i \in DOMAIN tree :
        /\ tree[i].parent < i
        /\ tree[i].parent = Root \/ tree[tree[i].parent].kind = "folder"
  BY DEF Init, SomeTrees
<1>3. \A i \in DOMAIN tree : tree[i] \in ObjectTypes /\ IsFolder(tree[i].parent)
  <2> SUFFICES ASSUME NEW i \in DOMAIN tree
               PROVE  tree[i] \in ObjectTypes /\ IsFolder(tree[i].parent)
    OBVIOUS
  <2>1. tree[i] \in ObjectTypes
    BY <1>1
  <2>2. tree[i].parent \in {Root} \cup Objects
    BY <2>1 DEF ObjectTypes
  <2>3. tree[i].parent # Root => tree[i].parent \in DOMAIN tree
    BY <1>1, <1>2, <2>2 DEF Root
  <2> QED
    BY <1>2, <2>1, <2>3 DEF IsFolder
<1>4. TreeOK
  BY <1>1, <1>3 DEF TreeOK, Init
<1>5. CallsOK
  BY DEF CallsOK, CallRecords, Init, Idle, Ops, Root
<1>6. WalkInv
  BY DEF WalkInv, Init, Idle
<1> QED
  BY <1>4, <1>5, <1>6 DEF IInv

-----------------------------------------------------------------------------
(* The tree                                                                *)

\* An object inserted below a folder, in the place of files, leaves a tree.
LEMMA InsertKeepsTree ==
  ASSUME TreeOK, NEW s \in {Root} \cup Objects, NEW name \in Names,
         NEW kind \in Kinds, NEW replaced,
         \A i \in DOMAIN tree : i \in replaced => tree[i].kind = "file",
         InsertObject(s, name, kind, replaced)
  PROVE  TreeOK'
<1> USE DeviceAssumption DEF DeviceAssumption, Objects
<1> DEFINE D == (DOMAIN tree \ replaced) \cup {fresh}
           o == [parent |-> s, name |-> name, kind |-> kind]
<1>1. /\ tree' = [i \in D |-> IF i = fresh THEN o ELSE tree[i]]
      /\ fresh' = fresh + 1 /\ IsFolder(s)
  BY DEF InsertObject
<1>2. fresh \notin DOMAIN tree /\ fresh \in Objects
  BY DEF InsertObject, TreeOK
<1>3. DOMAIN tree' = D
  BY <1>1
<1>4. tree'[fresh] = o /\ \A i \in D \ {fresh} : tree'[i] = tree[i]
  BY <1>1
<1>5. o \in ObjectTypes
  BY DEF ObjectTypes
<1> DEFINE FolderNext(j) ==
             j = Root \/ (j \in DOMAIN tree' /\ tree'[j].kind = "folder")
<1>6. ASSUME NEW j, IsFolder(j) PROVE FolderNext(j)
  BY <1>2, <1>3, <1>4, <1>6 DEF IsFolder
<1>7. ASSUME NEW i \in D
      PROVE  tree'[i] \in ObjectTypes /\ FolderNext(tree'[i].parent)
  <2> HIDE DEF FolderNext
  <2>1. CASE i = fresh
    <3>1. tree'[i] = o /\ o.parent = s
      BY <2>1, <1>4
    <3> QED
      BY <3>1, <1>1, <1>5, <1>6
  <2>2. CASE i # fresh
    <3>1. i \in DOMAIN tree /\ tree'[i] = tree[i]
      BY <2>2, <1>4
    <3>2. tree[i] \in ObjectTypes /\ IsFolder(tree[i].parent)
      BY <3>1 DEF TreeOK
    <3> QED
      BY <3>1, <3>2, <1>6
  <2> QED
    BY <2>1, <2>2
<1>8. DOMAIN tree' \subseteq Objects /\ \A i \in DOMAIN tree' : i < fresh'
  BY <1>1, <1>2, <1>3 DEF TreeOK
<1>9. fresh' \in 1 .. MaxObjects + 1
  BY <1>1, <1>2
<1>10. ASSUME NEW i \in DOMAIN tree'
       PROVE  tree'[i] \in ObjectTypes /\ IsFolder(tree[i].parent)'
  BY <1>3, <1>7 DEF IsFolder
<1> HIDE DEF D, o, FolderNext
<1> QED
  BY <1>8, <1>9, <1>10 DEF TreeOK, Objects

\* Nothing makes room for a folder.
LEMMA InsertFolderKeepsTree ==
  ASSUME TreeOK, NEW s \in {Root} \cup Objects, NEW name \in Names,
         InsertObject(s, name, "folder", {})
  PROVE  TreeOK'
<1>1. "folder" \in Kinds
  BY DEF Kinds
<1> DEFINE none == {}
<1>2. /\ InsertObject(s, name, "folder", none)
      /\ \A i \in DOMAIN tree : i \in none => tree[i].kind = "file"
  OBVIOUS
<1> HIDE DEF none
<1> QED
  BY <1>1, <1>2, InsertKeepsTree

\* A delete takes whole subtrees away and leaves a tree.
LEMMA DeleteKeepsTree ==
  ASSUME TreeOK, NEW s \in DOMAIN tree, fresh' = fresh,
         tree' = [i \in DOMAIN tree \ Below(s) |-> tree[i]]
  PROVE  TreeOK'
<1>1. DOMAIN tree' = DOMAIN tree \ Below(s)
  OBVIOUS
<1>2. ASSUME NEW i \in DOMAIN tree'
      PROVE  /\ i \in DOMAIN tree /\ tree'[i] = tree[i]
             /\ tree[i].parent \notin Below(s)
  BY <1>1, BelowClosed
<1>3. ASSUME NEW i \in DOMAIN tree' PROVE IsFolder(tree[i].parent)'
  <2> DEFINE p == tree[i].parent
  <2>1. tree'[i].parent = p /\ p \notin Below(s) /\ IsFolder(p)
    BY <1>2 DEF TreeOK
  <2>2. p # Root => p \in DOMAIN tree' /\ tree'[p] = tree[p]
    BY <1>1, <2>1 DEF IsFolder
  <2> QED
    BY <2>1, <2>2 DEF IsFolder
<1> QED
  BY <1>1, <1>2, <1>3 DEF TreeOK, Objects

-----------------------------------------------------------------------------
(* The calls                                                               *)

\* The updates of one call.
LEMMA ReturnedRecord ==
  ASSUME NEW r \in CallRecords, NEW ok \in BOOLEAN, NEW fault \in BOOLEAN
  PROVE  LET q == [r EXCEPT !.pc = "returned", !.ok = ok, !.fault = fault]
         IN q \in CallRecords /\ q.pc = "returned"
BY DEF CallRecords

LEMMA CreatingRecord ==
  ASSUME NEW r \in CallRecords
  PROVE  LET q == [r EXCEPT !.pc = "create"]
         IN /\ q \in CallRecords /\ q.pc = "create" /\ q.op = r.op
            /\ q.path = r.path /\ q.depth = r.depth
BY DEF CallRecords

\* A call that is not on its way to create a folder may change freely.
LEMMA UpdateKeepsCalls ==
  ASSUME CallsOK, WalkInv, calls' = calls, NEW c \in Callers,
         NEW r \in CallRecords, call' = [call EXCEPT ![c] = r],
         r.pc # "returned" => r.path \in Paths,
         r.pc = "create" => r.op = "send" /\ r.depth < Len(r.path) - 1
  PROVE  CallsOK' /\ WalkInv'
<1>1. CallsOK'
  BY DEF CallsOK
<1>2. \A d \in Callers : call'[d] = IF d = c THEN r ELSE call[d]
  BY DEF CallsOK
<1> QED
  BY <1>1, <1>2 DEF WalkInv

\* A call that returns keeps the bookkeeping of all calls.
LEMMA ReturnKeepsCalls ==
  ASSUME CallsOK, WalkInv, NEW c \in Callers, NEW ok \in BOOLEAN,
         NEW fault \in BOOLEAN, Return(c, ok, fault), calls' = calls
  PROVE  CallsOK' /\ WalkInv'
<1> DEFINE r == [call[c] EXCEPT !.pc = "returned", !.ok = ok, !.fault = fault]
<1>1. call[c] \in CallRecords
  BY DEF CallsOK
<1>2. r \in CallRecords /\ r.pc = "returned"
  BY <1>1, ReturnedRecord
<1>3. call' = [call EXCEPT ![c] = r]
  BY DEF Return, CallsOK
<1> HIDE DEF r
<1> QED
  BY <1>2, <1>3, UpdateKeepsCalls

LEMMA BeginKeepsCalls ==
  ASSUME CallsOK, WalkInv, NEW c \in Callers, Begin(c)
  PROVE  CallsOK' /\ WalkInv'
<1> DEFINE r(op, path) == [Idle EXCEPT !.pc = "walk", !.op = op, !.path = path]
<1>1. PICK op \in Ops, path \in Paths : call' = [call EXCEPT ![c] = r(op, path)]
  BY Zenon DEF Begin
<1>2. /\ r(op, path) \in CallRecords
      /\ r(op, path).pc = "walk" /\ r(op, path).path = path
  <2>1. Idle \in CallRecords
    BY DEF Idle, CallRecords, Ops
  <2> QED
    BY <2>1 DEF CallRecords
<1>3. calls < MaxCalls /\ calls' = calls + 1
  BY Zenon DEF Begin
<1>4. calls' \in 0 .. MaxCalls
  BY <1>3, DeviceAssumption DEF CallsOK, DeviceAssumption
<1> HIDE DEF r
<1> QED
  BY <1>1, <1>2, <1>4 DEF CallsOK, WalkInv

-----------------------------------------------------------------------------
LEMMA NextInv == IInv /\ [Next]_vars => IInv'
<1> SUFFICES ASSUME IInv, [Next]_vars PROVE IInv'
  OBVIOUS
<1> USE DeviceAssumption DEF IInv
<1>0. ASSUME UNCHANGED <<tree, fresh>>, CallsOK', WalkInv' PROVE IInv'
  BY <1>0 DEF TreeOK, IsFolder
<1>1. CASE UNCHANGED vars
  BY <1>1, <1>0 DEF vars, CallsOK, WalkInv
<1>2. ASSUME NEW c \in Callers, Step(c) PROVE IInv'
  <2> USE <1>2
  <2>a. call[c] \in CallRecords
    BY DEF CallsOK
  <2>b. call[c].at \in {Root} \cup Objects /\ call[c].depth \in Nat
    BY <2>a DEF CallRecords
  <2>1. CASE Begin(c)
    BY <2>1, <1>0, BeginKeepsCalls DEF Begin
  <2>2. CASE NoParent(c) \/ NameLost(c) \/ EnumFails(c) \/ CreateFails(c)
             \/ QueryInterfaceFails(c) \/ ReadFile(c) \/ TransferFails(c)
             \/ ExistItem(c) \/ AttributesUnread(c) \/ RequestFails(c)
    <3>1. Masks(c) \in BOOLEAN
      BY DEF Masks
    <3>2. /\ UNCHANGED <<tree, fresh, calls>>
          /\ \E ok, fault \in BOOLEAN : Return(c, ok, fault)
      BY <2>2, <3>1, Zenon DEF NoParent, NameLost, EnumFails, CreateFails,
         QueryInterfaceFails, ReadFile, TransferFails, ExistItem,
         AttributesUnread, RequestFails
    <3> QED
      BY <3>2, <1>0, ReturnKeepsCalls
  <2>3. CASE SubstorageFound(c)
    <3>1. PICK i \in DOMAIN tree :
            call' = [call EXCEPT ![c].at = i, ![c].depth = @ + 1]
      BY <2>3 DEF SubstorageFound, Matches, Children
    <3>2. i \in Objects
      BY DEF TreeOK
    <3>3. PICK d \in Nat : d = call[c].depth + 1
      BY <2>b
    <3> DEFINE r == [call[c] EXCEPT !.at = i, !.depth = d]
    <3>4. call' = [call EXCEPT ![c] = r]
      BY <3>1, <3>3 DEF CallsOK
    <3>5. r \in CallRecords /\ r.pc = call[c].pc /\ r.path = call[c].path
      BY <2>a, <3>2 DEF CallRecords
    <3>6. call[c].pc = "walk" /\ call[c].path \in Paths /\ calls' = calls
      BY <2>3 DEF SubstorageFound, Walking, WalkInv
    <3> HIDE DEF r
    <3>7. CallsOK' /\ WalkInv'
      BY <3>4, <3>5, <3>6, UpdateKeepsCalls
    <3> QED
      BY <2>3, <3>7, <1>0 DEF SubstorageFound
  <2>4. CASE SubstorageNotFound(c)
    <3>1. CASE call[c].op = "send"
      <4>1. call' = [call EXCEPT ![c].pc = "create"]
        BY <2>4, <3>1 DEF SubstorageNotFound
      <4>2. call[c].pc = "walk" /\ call[c].depth < Len(call[c].path) - 1
        BY <2>4, <3>1 DEF SubstorageNotFound, Walking, Depth
      <4>3. call[c].path \in Paths /\ UNCHANGED <<tree, fresh, calls>>
        BY <2>4, <4>2 DEF SubstorageNotFound, WalkInv
      <4> DEFINE r == [call[c] EXCEPT !.pc = "create"]
      <4>4. call' = [call EXCEPT ![c] = r]
        BY <4>1 DEF CallsOK
      <4>5. /\ r \in CallRecords /\ r.pc = "create" /\ r.op = call[c].op
            /\ r.path = call[c].path /\ r.depth = call[c].depth
        BY <2>a, CreatingRecord
      <4> HIDE DEF r
      <4>6. CallsOK' /\ WalkInv'
        BY <3>1, <4>2, <4>3, <4>4, <4>5, UpdateKeepsCalls
      <4> QED
        BY <4>3, <4>6, <1>0
    <3>2. CASE call[c].op # "send"
      <4>1. Return(c, Masks(c), FALSE) /\ UNCHANGED <<tree, fresh, calls>>
        BY <2>4, <3>2 DEF SubstorageNotFound
      <4>2. Masks(c) \in BOOLEAN
        BY DEF Masks
      <4> QED
        BY <4>1, <4>2, <1>0, ReturnKeepsCalls
    <3> QED
      BY <3>1, <3>2
  <2>5. CASE CreateSubstorage(c)
    <3>1. /\ call[c].path \in Paths
          /\ call[c].depth < Len(call[c].path) - 1
      BY <2>5 DEF CreateSubstorage, WalkInv
    <3>2. NextName(c) \in Names
      BY <3>1, <2>b, NamesOfPath DEF NextName
    <3>3. InsertObject(call[c].at, NextName(c), "folder", {})
      BY <2>5 DEF CreateSubstorage
    <3>4. TreeOK'
      BY <3>2, <3>3, <2>b, InsertFolderKeepsTree
    <3>5. fresh \in Objects /\ calls' = calls
      BY <3>3 DEF InsertObject, TreeOK, Objects, DeviceAssumption
    <3>6. PICK d \in Nat : d = call[c].depth + 1
      BY <2>b
    <3> DEFINE r == [call[c] EXCEPT !.pc = "walk", !.at = fresh, !.depth = d]
    <3>7. call' = [call EXCEPT ![c] = r]
      BY <2>5, <3>6 DEF CreateSubstorage, CallsOK
    <3>8. r \in CallRecords /\ r.pc = "walk" /\ r.path = call[c].path
      BY <2>a, <3>5 DEF CallRecords
    <3> HIDE DEF r
    <3>9. CallsOK' /\ WalkInv'
      BY <3>1, <3>5, <3>7, <3>8, UpdateKeepsCalls
    <3> QED
      BY <3>4, <3>9
  <2>6. CASE InsertFile(c) \/ InsertFolder(c)
    <3>1. LastName(c) \in Names
      <4>1. call[c].path \in Paths
        BY <2>6 DEF InsertFile, InsertFolder, Arrived, WalkInv
      <4>2. Len(call[c].path) \in 1 .. Len(call[c].path)
        BY <4>1, NamesOfPath
      <4> QED
        BY <4>1, <4>2, NamesOfPath DEF LastName
    <3>2. TreeOK'
      <4>1. CASE InsertFile(c)
        <5> DEFINE R == {i \in Children(call[c].at) :
                           tree[i].name = LastName(c) /\ tree[i].kind = "file"}
        <5>1. InsertObject(call[c].at, LastName(c), "file", R)
          BY <4>1 DEF InsertFile
        <5>2. \A i \in DOMAIN tree : i \in R => tree[i].kind = "file"
          OBVIOUS
        <5>3. "file" \in Kinds
          BY DEF Kinds
        <5> HIDE DEF R
        <5> QED
          BY <5>1, <5>2, <5>3, <3>1, <2>b, InsertKeepsTree
      <4>2. CASE InsertFolder(c)
        <5>1. InsertObject(call[c].at, LastName(c), "folder", {})
          BY <4>2 DEF InsertFolder
        <5> QED
          BY <5>1, <3>1, <2>b, InsertFolderKeepsTree
      <4> QED
        BY <2>6, <4>1, <4>2
    <3>3. Return(c, TRUE, FALSE) /\ calls' = calls
      BY <2>6 DEF InsertFile, InsertFolder, InsertObject
    <3> QED
      BY <3>2, <3>3, ReturnKeepsCalls
  <2>7. CASE DeleteItem(c)
    <3>1. TreeOK'
      BY <2>7, DeleteKeepsTree DEF DeleteItem
    <3>2. Return(c, TRUE, FALSE) /\ calls' = calls
      BY <2>7 DEF DeleteItem
    <3> QED
      BY <3>1, <3>2, ReturnKeepsCalls
  <2> QED
    BY <2>1, <2>2, <2>3, <2>4, <2>5, <2>6, <2>7 DEF Step
<1> QED
  BY <1>1, <1>2 DEF Next, Finished

\* Whatever the calls do to each other between their steps, every object hangs
\* below the root or a folder that exists, and identifiers are not reused.
THEOREM TreeAlwaysOK == Spec => []TypeOK
<1>1. IInv => TypeOK
  BY TypeParts DEF IInv
<1> QED
  BY InitInv, NextInv, <1>1, PTL DEF Spec

-----------------------------------------------------------------------------
(* Ways along the tree                                                     *)

\* Induction over the length of a way: what holds of some number holds of a
\* smallest one.  Intervals are compared in place of numbers.
LEMMA SmallestNat ==
  ASSUME NEW T \in SUBSET Nat, T # {}
  PROVE  \E n \in T : \A m \in T : n <= m
<1> DEFINE W == {0 .. n : n \in T}
<1>1. W \subseteq FiniteSubsetsOf(Nat) /\ W # {}
  <2>1. ASSUME NEW n \in T PROVE 0 .. n \in FiniteSubsetsOf(Nat)
    <3>1. IsFiniteSet(0 .. n)
      BY FS_Interval
    <3>2. 0 .. n \in SUBSET Nat
      OBVIOUS
    <3> QED
      BY <3>1, <3>2 DEF FiniteSubsetsOf
  <2> QED
    BY <2>1
<1>2. PICK x \in W : \A y \in W : <<y, x>> \notin StrictSubsetOrdering(Nat)
  <2>1. IsWellFoundedOn(StrictSubsetOrdering(Nat), FiniteSubsetsOf(Nat))
    BY FS_StrictSubsetOrderingWellFounded
  <2> HIDE DEF W
  <2> QED
    BY <1>1, <2>1, WFMin
<1>3. PICK n \in T : x = 0 .. n
  OBVIOUS
<1>4. ASSUME NEW m \in T, m < n PROVE FALSE
  <2>1. 0 .. m \in W /\ 0 .. m \subseteq 0 .. n /\ n \in 0 .. n /\ n \notin 0 .. m
    BY <1>4
  <2>2. 0 .. m \in SUBSET Nat /\ 0 .. n \in SUBSET Nat
    OBVIOUS
  <2> QED
    BY <1>2, <1>3, <2>1, <2>2 DEF StrictSubsetOrdering
<1> QED
  BY <1>3, <1>4

\* The way of no names ends at the root.
LEMMA NoNames ==
  ASSUME NEW p, NEW i
  PROVE  LeadsTo(p, 0, i) <=> i = Root
<1>1. ASSUME i = Root PROVE LeadsTo(p, 0, i)
  <2> DEFINE way == [k \in 0 .. 0 |-> Root]
  <2>1. way \in [0 .. 0 -> {Root} \cup Objects] /\ way[0] = Root
    OBVIOUS
  <2>2. way \in Ways(p, 0)
    BY <2>1 DEF Ways
  <2> QED
    BY <1>1, <2>1, <2>2 DEF LeadsTo
<1>2. ASSUME LeadsTo(p, 0, i) PROVE i = Root
  BY <1>2 DEF LeadsTo, Ways
<1> QED
  BY <1>1, <1>2

\* A way goes on with a child of the folder it has come to.
LEMMA WayExtends ==
  ASSUME NEW p, NEW n \in Nat, NEW s, LeadsTo(p, n, s), IsFolder(s),
         NEW i \in Objects, i \in Named(s, p[n + 1])
  PROVE  LeadsTo(p, n + 1, i)
<1>1. PICK way \in Ways(p, n) : way[n] = s
  BY DEF LeadsTo
<1> DEFINE longer == [k \in 0 .. n + 1 |-> IF k = n + 1 THEN i ELSE way[k]]
<1>2. way \in [0 .. n -> {Root} \cup Objects] /\ way[0] = Root
  BY DEF Ways
<1>3. longer \in [0 .. n + 1 -> {Root} \cup Objects]
  BY <1>2
<1>4. longer[0] = Root /\ longer[n + 1] = i
      /\ \A k \in 0 .. n : longer[k] = way[k]
  BY <1>2
<1>5. ASSUME NEW k \in 1 .. n + 1
      PROVE  IsFolder(longer[k - 1]) /\ longer[k] \in Named(longer[k - 1], p[k])
  <2>1. CASE k = n + 1
    <3>1. k - 1 = n /\ longer[k - 1] = s /\ longer[k] = i
      BY <2>1, <1>1, <1>4
    <3> QED
      BY <2>1, <3>1
  <2>2. CASE k # n + 1
    <3>1. k \in 1 .. n /\ k \in 0 .. n /\ k - 1 \in 0 .. n
      BY <2>2
    <3>2. longer[k] = way[k] /\ longer[k - 1] = way[k - 1]
      BY <1>4, <3>1
    <3> QED
      BY <3>1, <3>2 DEF Ways
  <2> QED
    BY <2>1, <2>2
<1> HIDE DEF longer
<1>6. longer \in Ways(p, n + 1)
  BY <1>3, <1>4, <1>5 DEF Ways
<1> QED
  BY <1>4, <1>6 DEF LeadsTo

\* The first part of a way.
LEMMA WayPrefix ==
  ASSUME NEW p, NEW m \in Nat, NEW way \in Ways(p, m), NEW n \in 0 .. m
  PROVE  LeadsTo(p, n, way[n])
<1> DEFINE shorter == [k \in 0 .. n |-> way[k]]
<1>1. /\ way \in [0 .. m -> {Root} \cup Objects] /\ way[0] = Root
      /\ \A k \in 1 .. m : IsFolder(way[k - 1]) /\ way[k] \in Named(way[k - 1], p[k])
  BY DEF Ways
<1>2. shorter \in [0 .. n -> {Root} \cup Objects]
      /\ \A k \in 0 .. n : shorter[k] = way[k]
  BY <1>1
<1> HIDE DEF shorter
<1>3. ASSUME NEW k \in 1 .. n
      PROVE  IsFolder(shorter[k - 1]) /\ shorter[k] \in Named(shorter[k - 1], p[k])
  <2>1. k \in 0 .. n /\ k - 1 \in 0 .. n /\ k \in 1 .. m
    OBVIOUS
  <2> QED
    BY <1>1, <1>2, <2>1
<1>4. shorter \in Ways(p, n)
  BY <1>1, <1>2, <1>3 DEF Ways
<1> QED
  BY <1>2, <1>4 DEF LeadsTo

\* A way stays if the objects along it stay as they are.
LEMMA WayKept ==
  ASSUME TreeOK, NEW p, NEW n \in Nat, NEW way \in Ways(p, n),
         \A k \in 0 .. n :
           way[k] = Root \/ (way[k] \in DOMAIN tree' /\ tree'[way[k]] = tree[way[k]])
  PROVE  LeadsTo(p, n, way[n])'
<1>1. /\ way \in [0 .. n -> {Root} \cup Objects] /\ way[0] = Root
      /\ \A k \in 1 .. n :
           IsFolder(way[k - 1]) /\ way[k] \in Named(way[k - 1], p[k])
  BY DEF Ways
<1>2. ASSUME NEW k \in 1 .. n
      PROVE  IsFolder(way[k - 1])' /\ (way[k] \in Named(way[k - 1], p[k]))'
  <2>1. k \in 0 .. n /\ k - 1 \in 0 .. n
    OBVIOUS
  <2>2. PICK s : s = way[k - 1]
    OBVIOUS
  <2>3. PICK i : i = way[k]
    OBVIOUS
  <2>4. /\ s = Root \/ (s \in DOMAIN tree' /\ tree'[s] = tree[s])
        /\ i = Root \/ (i \in DOMAIN tree' /\ tree'[i] = tree[i])
        /\ IsFolder(s) /\ i \in Named(s, p[k])
    BY <1>1, <2>1, <2>2, <2>3
  <2>5. i # Root
    BY <2>4 DEF Named, Children, TreeOK, Objects, Root
  <2>6. IsFolder(s)' /\ (i \in Named(s, p[k]))'
    BY <2>4, <2>5 DEF IsFolder, Named, Children
  <2> QED
    BY <2>2, <2>3, <2>6
<1>3. (way \in Ways(p, n))'
  BY <1>1, <1>2 DEF Ways
<1> QED
  BY <1>3 DEF LeadsTo

\* A way to what is not below s leads past it: by the last object of the way
\* that is below s, the next one is as well.
LEMMA WayAvoids ==
  ASSUME NEW p, NEW n \in Nat, NEW way \in Ways(p, n), NEW s,
         way[n] \notin Below(s)
  PROVE  \A k \in 0 .. n : way[k] \notin Below(s)
<1> SUFFICES ASSUME NEW k \in 0 .. n, way[k] \in Below(s) PROVE FALSE
  OBVIOUS
<1> DEFINE T == {m \in 0 .. n : way[n - m] \in Below(s)}
<1>1. T \in SUBSET Nat /\ T # {}
  <2>1. n - k \in 0 .. n /\ n - (n - k) = k
    OBVIOUS
  <2>2. n - k \in T
    BY <2>1
  <2>3. \A m \in T : m \in Nat
    OBVIOUS
  <2> HIDE DEF T
  <2> QED
    BY <2>2, <2>3
<1>2. PICK m \in T : \A l \in T : m <= l
  <2> HIDE DEF T
  <2> QED
    BY <1>1, SmallestNat
<1>3. m \in 0 .. n /\ way[n - m] \in Below(s)
  OBVIOUS
<1>4. m # 0
  BY <1>3
<1>5. m - 1 \notin T
  BY <1>2, <1>3
<1>6. way[n - (m - 1)] \notin Below(s)
  BY <1>3, <1>4, <1>5
<1> HIDE DEF T
<1>7. PICK l \in 1 .. n : l = n - (m - 1) /\ l - 1 = n - m
  BY <1>3, <1>4
<1>8. way[l] \in Named(way[l - 1], p[l]) /\ way[l] \notin Below(s)
      /\ way[l - 1] \in Below(s)
  BY <1>3, <1>6, <1>7 DEF Ways
<1> QED
  BY <1>8, BelowClosed DEF Named, Children

\* What a delete leaves is found on the way that has led to it.
LEMMA DeleteKeepsWays ==
  ASSUME TreeOK, NEW s, tree' = [i \in DOMAIN tree \ Below(s) |-> tree[i]],
         NEW p, NEW n \in Nat, NEW i, LeadsTo(p, n, i),
         i = Root \/ i \in DOMAIN tree'
  PROVE  LeadsTo(p, n, i)'
<1>1. PICK way \in Ways(p, n) : way[n] = i
  BY DEF LeadsTo
<1>2. i \notin Below(s)
  BY DEF Below, TreeOK, Objects, Root
<1>3. \A k \in 0 .. n : way[k] \notin Below(s)
  BY <1>1, <1>2, WayAvoids
<1>4. \A k \in 0 .. n : way[k] = Root \/ way[k] \in DOMAIN tree
  <2> SUFFICES ASSUME NEW k \in 0 .. n, k # 0 PROVE way[k] \in DOMAIN tree
    BY DEF Ways
  <2>1. way[k] \in Named(way[k - 1], p[k])
    BY DEF Ways
  <2> QED
    BY <2>1 DEF Named, Children
<1>5. \A k \in 0 .. n :
        way[k] = Root \/ (way[k] \in DOMAIN tree' /\ tree'[way[k]] = tree[way[k]])
  BY <1>3, <1>4
<1> QED
  BY <1>1, <1>5, WayKept

\* Neither does an insert that replaces files lose what it leaves: files are
\* only at the end of a way.
LEMMA InsertKeepsWays ==
  ASSUME TreeOK, NEW s, NEW name, NEW kind, NEW replaced,
         \A j \in DOMAIN tree : j \in replaced => tree[j].kind = "file",
         InsertObject(s, name, kind, replaced),
         NEW p, NEW n \in Nat, NEW i, LeadsTo(p, n, i),
         i = Root \/ (i \in DOMAIN tree /\ i \notin replaced)
  PROVE  LeadsTo(p, n, i)'
<1>1. PICK way \in Ways(p, n) : way[n] = i
  BY DEF LeadsTo
<1>2. \A j \in DOMAIN tree \ replaced : j \in DOMAIN tree' /\ tree'[j] = tree[j]
  BY DEF InsertObject, TreeOK
<1>3. ASSUME NEW k \in 0 .. n
      PROVE  way[k] = Root \/ way[k] \in DOMAIN tree \ replaced
  <2>1. CASE k = n
    BY <2>1, <1>1
  <2>2. CASE k # n
    <3>1. k + 1 \in 1 .. n /\ (k + 1) - 1 = k
      BY <2>2
    <3>2. IsFolder(way[k])
      BY <3>1 DEF Ways
    <3> QED
      BY <3>2 DEF IsFolder
  <2> QED
    BY <2>1, <2>2
<1>4. \A k \in 0 .. n :
        way[k] = Root \/ (way[k] \in DOMAIN tree' /\ tree'[way[k]] = tree[way[k]])
  BY <1>2, <1>3
<1> QED
  BY <1>1, <1>4, WayKept

-----------------------------------------------------------------------------
(* What a call knows of the tree                                           *)

\* The call c has walked n names of the path p and has come to i.
At(c, p, n, i) == p = call[c].path /\ n = call[c].depth /\ i = call[c].at

\* As long as the object a call has come to is there, the names walked so far
\* lead to it, whatever other calls insert and delete.
Reached ==
  \A c \in Callers : \A p, n, i :
    call[c].pc # "returned" /\ At(c, p, n, i) /\ (i = Root \/ i \in DOMAIN tree)
      => LeadsTo(p, n, i)

\* A call has come to an object by its identifier, and these are not reused.
KnownObjects == \A c \in Callers : call[c].at < fresh

WayInv == Reached /\ KnownObjects

\* How each step changes the tree.
LEMMA TreeSteps ==
  ASSUME IInv, NEW d \in Callers, Step(d)
  PROVE  \/ UNCHANGED tree
         \/ DeleteItem(d)
         \/ \E kind \in Kinds : \E name, replaced :
              /\ InsertObject(call[d].at, name, kind, replaced)
              /\ \A j \in DOMAIN tree : j \in replaced => tree[j].kind = "file"
<1>1. CASE Begin(d) \/ NoParent(d) \/ NameLost(d) \/ SubstorageFound(d) \/ SubstorageNotFound(d)
           \/ EnumFails(d) \/ CreateFails(d) \/ QueryInterfaceFails(d) \/ ReadFile(d)
           \/ TransferFails(d) \/ ExistItem(d) \/ AttributesUnread(d) \/ RequestFails(d)
  <2>1. UNCHANGED tree
    BY <1>1 DEF Begin, NoParent, NameLost, SubstorageFound, SubstorageNotFound, EnumFails,
       CreateFails, QueryInterfaceFails, ReadFile, TransferFails, ExistItem,
       AttributesUnread, RequestFails
  <2> QED
    BY <2>1
<1>2. CASE CreateSubstorage(d) \/ InsertFolder(d)
  <2>1. PICK name : InsertObject(call[d].at, name, "folder", {})
    BY <1>2, Zenon DEF CreateSubstorage, InsertFolder
  <2> QED
    BY <2>1 DEF Kinds
<1>3. CASE InsertFile(d)
  <2> DEFINE R == {i \in Children(call[d].at) :
                     tree[i].name = LastName(d) /\ tree[i].kind = "file"}
  <2>1. InsertObject(call[d].at, LastName(d), "file", R)
    BY <1>3 DEF InsertFile
  <2>2. \A j \in DOMAIN tree : j \in R => tree[j].kind = "file"
    OBVIOUS
  <2> HIDE DEF R
  <2> QED
    BY <2>1, <2>2 DEF Kinds
<1>4. CASE DeleteItem(d)
  BY <1>4
<1> QED
  BY <1>1, <1>2, <1>3, <1>4 DEF Step

\* No step loses the way to an object that was there and still is.
LEMMA StepKeepsWays ==
  ASSUME IInv, NEW d \in Callers, Step(d),
         NEW p, NEW n \in Nat, NEW i, LeadsTo(p, n, i),
         i = Root \/ i \in DOMAIN tree,
         i = Root \/ i \in DOMAIN tree'
  PROVE  LeadsTo(p, n, i)'
<1>1. CASE UNCHANGED tree
  BY <1>1 DEF LeadsTo, Ways, IsFolder, Named, Children
<1>2. CASE DeleteItem(d)
  <2>1. tree' = [j \in DOMAIN tree \ Below(call[d].at) |-> tree[j]]
    BY <1>2 DEF DeleteItem
  <2>2. PICK s : s = call[d].at
    OBVIOUS
  <2> QED
    BY <2>1, <2>2, DeleteKeepsWays DEF IInv
<1>3. ASSUME NEW kind \in Kinds, NEW name, NEW replaced,
             InsertObject(call[d].at, name, kind, replaced),
             \A j \in DOMAIN tree : j \in replaced => tree[j].kind = "file"
      PROVE  LeadsTo(p, n, i)'
  <2>1. i \in DOMAIN tree /\ i \in replaced => i \notin DOMAIN tree'
    BY <1>3 DEF InsertObject, IInv, TreeOK
  <2>2. i = Root \/ (i \in DOMAIN tree /\ i \notin replaced)
    BY <2>1
  <2>3. PICK s : s = call[d].at
    OBVIOUS
  <2>4. InsertObject(s, name, kind, replaced)
    BY <1>3, <2>3
  <2> QED
    BY <1>3, <2>2, <2>4, InsertKeepsWays DEF IInv
<1> QED
  BY <1>1, <1>2, <1>3, TreeSteps

\* An identifier that was not in use is in use only if it is the fresh one.
LEMMA OnlyFreshIsNew ==
  ASSUME IInv, NEW d \in Callers, Step(d), NEW i \in DOMAIN tree' \ DOMAIN tree
  PROVE  i = fresh
<1>1. CASE DeleteItem(d)
  BY <1>1 DEF DeleteItem
<1>2. ASSUME NEW kind \in Kinds, NEW name, NEW replaced,
             InsertObject(call[d].at, name, kind, replaced)
      PROVE  i = fresh
  BY <1>2 DEF InsertObject
<1> QED
  BY <1>1, <1>2, TreeSteps

-----------------------------------------------------------------------------
(* How each step changes the calls                                         *)

\* what a call keeps while it is under way
SameCall(d) ==
  call'[d].op = call[d].op /\ call'[d].path = call[d].path

OthersSame(d) == \A c \in Callers \ {d} : call'[c] = call[c]

LEMMA ReturnFields ==
  ASSUME CallsOK, NEW d \in Callers, NEW ok, NEW fault, Return(d, ok, fault)
  PROVE  /\ call'[d].pc = "returned" /\ call'[d].ok = ok /\ call'[d].fault = fault
         /\ call'[d].at = call[d].at /\ SameCall(d) /\ OthersSame(d)
<1>1. call[d] \in CallRecords
  BY DEF CallsOK
<1> DEFINE r == [call[d] EXCEPT !.pc = "returned", !.ok = ok, !.fault = fault]
<1>2. call' = [call EXCEPT ![d] = r]
  BY DEF Return, CallsOK
<1>3. /\ r.pc = "returned" /\ r.ok = ok /\ r.fault = fault /\ r.at = call[d].at
      /\ r.op = call[d].op /\ r.path = call[d].path
  BY <1>1 DEF CallRecords
<1> HIDE DEF r
<1>4. call'[d] = r /\ OthersSame(d)
  BY <1>2 DEF CallsOK, OthersSame
<1> QED
  BY <1>3, <1>4 DEF SameCall

LEMMA FoundFields ==
  ASSUME IInv, NEW d \in Callers, SubstorageFound(d)
  PROVE  \E i \in Matches(call[d].at, NextName(d)) :
           /\ call'[d].pc = "walk" /\ call'[d].at = i
           /\ call'[d].depth = call[d].depth + 1
           /\ SameCall(d) /\ OthersSame(d)
<1>1. PICK i \in Matches(call[d].at, NextName(d)) :
        call' = [call EXCEPT ![d].at = i, ![d].depth = @ + 1]
  BY DEF SubstorageFound
<1>2. call[d] \in CallRecords /\ call[d].pc = "walk"
  BY DEF IInv, CallsOK, SubstorageFound, Walking
<1>3. PICK n : n = call[d].depth + 1
  OBVIOUS
<1> DEFINE r == [call[d] EXCEPT !.at = i, !.depth = n]
<1>4. call' = [call EXCEPT ![d] = r]
  BY <1>1, <1>3 DEF IInv, CallsOK
<1>5. /\ r.pc = "walk" /\ r.at = i /\ r.depth = n
      /\ r.op = call[d].op /\ r.path = call[d].path
  BY <1>2 DEF CallRecords
<1> HIDE DEF r
<1>6. call'[d] = r /\ OthersSame(d)
  BY <1>4 DEF IInv, CallsOK, OthersSame
<1> QED
  BY <1>3, <1>5, <1>6 DEF SameCall

LEMMA MissingFields ==
  ASSUME IInv, NEW d \in Callers, SubstorageNotFound(d), call[d].op = "send"
  PROVE  /\ call'[d].pc = "create" /\ call'[d].at = call[d].at
         /\ call'[d].depth = call[d].depth /\ SameCall(d) /\ OthersSame(d)
<1>1. call' = [call EXCEPT ![d].pc = "create"]
  BY DEF SubstorageNotFound
<1>2. call[d] \in CallRecords
  BY DEF IInv, CallsOK
<1> DEFINE r == [call[d] EXCEPT !.pc = "create"]
<1>3. call' = [call EXCEPT ![d] = r]
  BY <1>1 DEF IInv, CallsOK
<1>4. /\ r.pc = "create" /\ r.at = call[d].at /\ r.depth = call[d].depth
      /\ r.op = call[d].op /\ r.path = call[d].path
  BY <1>2 DEF CallRecords
<1> HIDE DEF r
<1>5. call'[d] = r /\ OthersSame(d)
  BY <1>3 DEF IInv, CallsOK, OthersSame
<1> QED
  BY <1>4, <1>5 DEF SameCall

LEMMA CreateFields ==
  ASSUME IInv, NEW d \in Callers, CreateSubstorage(d)
  PROVE  /\ call'[d].pc = "walk" /\ call'[d].at = fresh
         /\ call'[d].depth = call[d].depth + 1 /\ SameCall(d) /\ OthersSame(d)
<1>1. call' = [call EXCEPT ![d].pc = "walk", ![d].at = fresh, ![d].depth = @ + 1]
  BY DEF CreateSubstorage
<1>2. call[d] \in CallRecords
  BY DEF IInv, CallsOK
<1>3. PICK n : n = call[d].depth + 1
  OBVIOUS
<1> DEFINE r == [call[d] EXCEPT !.pc = "walk", !.at = fresh, !.depth = n]
<1>4. call' = [call EXCEPT ![d] = r]
  BY <1>1, <1>3 DEF IInv, CallsOK
<1>5. /\ r.pc = "walk" /\ r.at = fresh /\ r.depth = n
      /\ r.op = call[d].op /\ r.path = call[d].path
  BY <1>2 DEF CallRecords
<1> HIDE DEF r
<1>6. call'[d] = r /\ OthersSame(d)
  BY <1>4 DEF IInv, CallsOK, OthersSame
<1> QED
  BY <1>3, <1>5, <1>6 DEF SameCall

LEMMA BeginFields ==
  ASSUME IInv, NEW d \in Callers, Begin(d)
  PROVE  /\ call'[d].pc = "walk" /\ call'[d].depth = 0 /\ call'[d].at = Root
         /\ OthersSame(d)
<1> DEFINE r(op, path) == [Idle EXCEPT !.pc = "walk", !.op = op, !.path = path]
<1>1. PICK op \in Ops, path \in Paths : call' = [call EXCEPT ![d] = r(op, path)]
  BY Zenon DEF Begin
<1>2. /\ r(op, path).pc = "walk" /\ r(op, path).depth = 0
      /\ r(op, path).at = Root
  BY DEF Idle
<1> HIDE DEF r
<1>3. call'[d] = r(op, path) /\ OthersSame(d)
  BY <1>1 DEF IInv, CallsOK, OthersSame
<1> QED
  BY <1>2, <1>3

\* The steps that end a call, or end it without a fault.
Quits(d) ==
  \/ NoParent(d) \/ NameLost(d) \/ EnumFails(d) \/ CreateFails(d) \/ QueryInterfaceFails(d)
  \/ ReadFile(d) \/ TransferFails(d) \/ ExistItem(d) \/ AttributesUnread(d)
  \/ RequestFails(d) \/ InsertFile(d) \/ InsertFolder(d) \/ DeleteItem(d)
  \/ (SubstorageNotFound(d) /\ call[d].op # "send")

LEMMA QuitFields ==
  ASSUME IInv, NEW d \in Callers, Quits(d)
  PROVE  /\ call[d].pc # "returned" /\ call'[d].pc = "returned"
         /\ call'[d].at = call[d].at /\ SameCall(d) /\ OthersSame(d)
<1>1. \E ok, fault : Return(d, ok, fault)
  BY Zenon DEF Quits, NoParent, NameLost, EnumFails, CreateFails, QueryInterfaceFails, ReadFile,
     TransferFails, ExistItem, AttributesUnread, RequestFails, InsertFile, InsertFolder,
     DeleteItem, SubstorageNotFound
<1>2. call[d].pc # "returned"
  BY DEF Quits, NoParent, NameLost, EnumFails, CreateFails, QueryInterfaceFails, ReadFile,
     TransferFails, ExistItem, AttributesUnread, RequestFails, InsertFile, InsertFolder,
     DeleteItem, SubstorageNotFound, Walking, Arrived
<1> QED
  BY <1>1, <1>2, ReturnFields DEF IInv

-----------------------------------------------------------------------------
(* The ways are an invariant                                               *)

\* What a step does to the other calls.
LEMMA OthersStay ==
  ASSUME IInv, NEW d \in Callers, Step(d), NEW c \in Callers, c # d
  PROVE  call'[c] = call[c]
BY BeginFields, QuitFields, FoundFields, MissingFields, CreateFields
   DEF Step, Quits, OthersSame

LEMMA StepsOfCall ==
  ASSUME NEW d \in Callers, Step(d)
  PROVE  \/ Begin(d) \/ Quits(d) \/ SubstorageFound(d) \/ CreateSubstorage(d)
         \/ (SubstorageNotFound(d) /\ call[d].op = "send")
BY DEF Step, Quits

\* Identifiers grow.
LEMMA FreshGrows ==
  ASSUME IInv, NEW d \in Callers, Step(d)
  PROVE  fresh <= fresh'
<1>1. fresh \in Nat
  BY DEF IInv, TreeOK
<1>2. CASE InsertFile(d) \/ InsertFolder(d) \/ CreateSubstorage(d)
  <2>1. fresh' = fresh + 1
    BY <1>2, Zenon DEF InsertFile, InsertFolder, CreateSubstorage, InsertObject
  <2> QED
    BY <1>1, <2>1
<1>3. CASE ~ (InsertFile(d) \/ InsertFolder(d) \/ CreateSubstorage(d))
  <2>1. fresh' = fresh
    BY <1>3, Zenon DEF Step, Begin, NoParent, NameLost, EnumFails, CreateFails,
       QueryInterfaceFails, ReadFile, TransferFails, ExistItem, AttributesUnread,
       RequestFails, DeleteItem, SubstorageNotFound, SubstorageFound
  <2> QED
    BY <1>1, <2>1
<1> QED
  BY <1>2, <1>3

LEMMA KnownNext ==
  ASSUME IInv, WayInv, NEW d \in Callers, Step(d)
  PROVE  KnownObjects'
<1> SUFFICES ASSUME NEW c \in Callers PROVE call'[c].at < fresh'
  BY DEF KnownObjects
<1>1. fresh \in Nat /\ fresh' \in Nat /\ fresh <= fresh' /\ fresh >= 1
      /\ \A i \in DOMAIN tree : i < fresh
  BY FreshGrows, NextInv DEF IInv, TreeOK, Next
<1>2. call[c].at \in {Root} \cup Objects /\ call[c].at < fresh
  BY DEF WayInv, KnownObjects, IInv, CallsOK, CallRecords
<1>3. call[c].at \in Nat /\ Root < fresh'
  BY <1>1, <1>2 DEF Root, Objects
<1>4. CASE c # d
  BY <1>1, <1>2, <1>3, <1>4, OthersStay DEF WayInv
<1>5. CASE c = d
  <2>1. CASE Begin(d)
    BY <1>3, <1>5, <2>1, BeginFields
  <2>2. CASE Quits(d) \/ (SubstorageNotFound(d) /\ call[d].op = "send")
    BY <1>1, <1>2, <1>3, <1>5, <2>2, QuitFields, MissingFields
  <2>3. CASE SubstorageFound(d)
    <3>1. call'[d].at \in DOMAIN tree
      BY <2>3, FoundFields DEF Matches, Children
    <3>2. call'[d].at \in Nat
      BY <3>1 DEF IInv, TreeOK, Objects
    <3> QED
      BY <1>1, <1>5, <3>1, <3>2
  <2>4. CASE CreateSubstorage(d)
    <3>1. call'[d].at = fresh /\ fresh' = fresh + 1
      BY <2>4, CreateFields DEF CreateSubstorage, InsertObject
    <3> QED
      BY <1>1, <1>5, <3>1
  <2> QED
    BY <2>1, <2>2, <2>3, <2>4, StepsOfCall
<1> QED
  BY <1>4, <1>5

\* The facts about ways hold after each step as well.
LEMMA WayExtendsAlways ==
  \A p : \A n \in Nat : \A s : \A i \in Objects :
    LeadsTo(p, n, s) /\ IsFolder(s) /\ i \in Named(s, p[n + 1])
      => LeadsTo(p, n + 1, i)
BY WayExtends

LEMMA WayExtendsNext ==
  (\A p : \A n \in Nat : \A s : \A i \in Objects :
     LeadsTo(p, n, s) /\ IsFolder(s) /\ i \in Named(s, p[n + 1])
       => LeadsTo(p, n + 1, i))'
BY WayExtendsAlways, PTL

LEMMA NoNamesAlways == \A p, i : LeadsTo(p, 0, i) <=> i = Root
BY NoNames

LEMMA NoNamesNext == (\A p, i : LeadsTo(p, 0, i) <=> i = Root)'
BY NoNamesAlways, PTL

\* The steps of another call leave the way of a call as it is.
LEMMA OthersReached ==
  ASSUME IInv, WayInv, NEW d \in Callers, Step(d), NEW c \in Callers, c # d,
         call'[c].pc # "returned", NEW p, NEW n, NEW i, At(c, p, n, i)',
         i = Root \/ i \in DOMAIN tree'
  PROVE  LeadsTo(p, n, i)'
<1>1. At(c, p, n, i) /\ call'[c].pc = call[c].pc
  BY OthersStay DEF WayInv, At
<1>3. n \in Nat
  BY <1>1 DEF IInv, CallsOK, CallRecords, At
<1>4. i = Root \/ i \in DOMAIN tree
  <2>1. i # fresh
    BY <1>1 DEF WayInv, KnownObjects, IInv, TreeOK, CallsOK, CallRecords, Root, Objects,
       At
  <2> QED
    BY <2>1, OnlyFreshIsNew
<1>5. LeadsTo(p, n, i)
  BY <1>1, <1>4 DEF WayInv, Reached
<1> QED
  BY <1>3, <1>4, <1>5, StepKeepsWays

\* One name further, into a folder that was there.
LEMMA FoundReached ==
  ASSUME IInv, WayInv, NEW d \in Callers, SubstorageFound(d)
  PROVE  \A p, n, i : At(d, p, n, i)' => LeadsTo(p, n, i)'
<1>1. PICK p, n, s : At(d, p, n, s)
  BY DEF At
<1>2. PICK i \in Matches(s, p[n + 1]) :
        /\ call'[d].path = p /\ call'[d].depth = n + 1 /\ call'[d].at = i
  BY <1>1, FoundFields DEF NextName, SameCall, At
<1>3. n \in Nat /\ i \in Objects
  BY <1>1 DEF At, IInv, CallsOK, CallRecords, TreeOK, Matches, Children
<1>4. IsFolder(s) /\ i \in Named(s, p[n + 1])
  BY <1>1 DEF SubstorageFound, Named, Matches, At
<1>5. LeadsTo(p, n, s)
  BY <1>1, <1>4 DEF WayInv, Reached, IsFolder, SubstorageFound, Walking
<1>6. LeadsTo(p, n + 1, i)
  BY <1>3, <1>4, <1>5, WayExtends
<1>7. LeadsTo(p, n + 1, i)'
  <2>1. UNCHANGED tree
    BY DEF SubstorageFound
  <2> QED
    BY <1>6, <2>1 DEF LeadsTo, Ways, IsFolder, Named, Children
<1> QED
  BY <1>2, <1>7 DEF At

There(i, kind) == i \in DOMAIN tree /\ tree[i].kind = kind

\* What is inserted under the last name of a way is at its end.
LEMMA InsertedReached ==
  ASSUME IInv, NEW p, NEW n \in Nat, NEW s, LeadsTo(p, n, s),
         NEW kind, NEW replaced,
         \A j \in DOMAIN tree : j \in replaced => tree[j].kind = "file",
         InsertObject(s, p[n + 1], kind, replaced)
  PROVE  \E i : i = fresh /\ LeadsTo(p, n + 1, i)' /\ There(i, kind)'
<1>1. PICK i : i = fresh
  OBVIOUS
<1>2. i \in Objects
  BY <1>1, DeviceAssumption
     DEF InsertObject, IInv, TreeOK, Objects, DeviceAssumption
<1>3. /\ tree'[i] = [parent |-> s, name |-> p[n + 1], kind |-> kind]
      /\ i \in DOMAIN tree'
  BY <1>1 DEF InsertObject
<1>4. IsFolder(s)'
  BY <1>1 DEF InsertObject, IsFolder, IInv, TreeOK
<1>5. (i \in Named(s, p[n + 1]))'
  BY <1>3 DEF Named, Children
<1>6. LeadsTo(p, n, s)'
  <2>1. s = Root \/ (s \in DOMAIN tree /\ s \notin replaced)
    BY DEF InsertObject, IsFolder
  <2> QED
    BY <2>1, InsertKeepsWays DEF IInv
<1>7. LeadsTo(p, n + 1, i)'
  BY <1>2, <1>4, <1>5, <1>6, WayExtendsNext
<1>8. There(i, kind)'
  BY <1>3 DEF There
<1> QED
  BY <1>1, <1>7, <1>8

LEMMA CreateReached ==
  ASSUME IInv, WayInv, NEW d \in Callers, CreateSubstorage(d),
         call[d].at \in {Root} \cup DOMAIN tree
  PROVE  \A p, n, i : At(d, p, n, i)' => LeadsTo(p, n, i)'
<1>1. PICK p, n, s : At(d, p, n, s)
  BY DEF At
<1>2. /\ call'[d].path = p /\ call'[d].depth = n + 1 /\ call'[d].at = fresh
  BY <1>1, CreateFields DEF SameCall, At
<1>3. n \in Nat
  BY <1>1 DEF At, IInv, CallsOK, CallRecords
<1>4. LeadsTo(p, n, s)
  BY <1>1 DEF WayInv, Reached, CreateSubstorage, At
<1> DEFINE none == {}
<1>5. InsertObject(s, p[n + 1], "folder", none)
  BY <1>1 DEF CreateSubstorage, NextName, At
<1>6. \A j \in DOMAIN tree : j \in none => tree[j].kind = "file"
  OBVIOUS
<1> HIDE DEF none
<1>7. PICK i : i = fresh /\ LeadsTo(p, n + 1, i)'
  BY <1>3, <1>4, <1>5, <1>6, InsertedReached
<1> QED
  BY <1>2, <1>7 DEF At

LEMMA ReachedNext ==
  ASSUME IInv, WayInv, NEW d \in Callers, Step(d)
  PROVE  Reached'
<1> SUFFICES ASSUME NEW c \in Callers, call'[c].pc # "returned",
                    NEW p, NEW n, NEW i, At(c, p, n, i)',
                    i = Root \/ i \in DOMAIN tree'
             PROVE  LeadsTo(p, n, i)'
  BY DEF Reached
<1>1. CASE c # d
  BY <1>1, OthersReached
<1>2. CASE c = d
  <2>1. CASE Begin(d)
    <3>1. call'[d].depth = 0 /\ call'[d].at = Root
      BY <2>1, BeginFields
    <3> QED
      BY <1>2, <3>1, NoNamesNext DEF At
  <2>2. CASE Quits(d)
    BY <1>2, <2>2, QuitFields
  <2>3. CASE SubstorageFound(d)
    BY <1>2, <2>3, FoundReached
  <2>4. CASE CreateSubstorage(d)
    <3>1. call[d].at \in {Root} \cup DOMAIN tree
      BY <2>4 DEF CreateSubstorage, InsertObject, IsFolder
    <3> QED
      BY <1>2, <2>4, <3>1, CreateReached
  <2>5. CASE SubstorageNotFound(d) /\ call[d].op = "send"
    <3>1. At(d, p, n, i)
      BY <1>2, <2>5, MissingFields DEF SameCall, At
    <3>2. UNCHANGED tree /\ call[d].pc # "returned"
      BY <2>5 DEF SubstorageNotFound, Walking
    <3>3. LeadsTo(p, n, i)
      BY <3>1, <3>2 DEF WayInv, Reached
    <3> QED
      BY <3>2, <3>3 DEF LeadsTo, Ways, IsFolder, Named, Children
  <2> QED
    BY <2>1, <2>2, <2>3, <2>4, <2>5, StepsOfCall
<1> QED
  BY <1>1, <1>2

\* Nothing is under way at first.
LEMMA WayInit == Init => WayInv
BY DEF Init, Idle, WayInv, Reached, KnownObjects, Root

LEMMA WayNext == IInv /\ WayInv /\ [Next]_vars => WayInv'
<1> SUFFICES ASSUME IInv, WayInv, [Next]_vars PROVE WayInv'
  OBVIOUS
<1>1. CASE UNCHANGED vars
  <2>1. UNCHANGED <<tree, fresh, call>>
    BY <1>1 DEF vars
  <2>2. \A p, n, i : LeadsTo(p, n, i)' <=> LeadsTo(p, n, i)
    BY <2>1 DEF LeadsTo, Ways, IsFolder, Named, Children
  <2>3. Reached'
    BY <2>1, <2>2 DEF WayInv, Reached, At
  <2>4. KnownObjects'
    BY <2>1 DEF WayInv, KnownObjects
  <2> QED
    BY <2>3, <2>4 DEF WayInv
<1>2. CASE \E d \in Callers : Step(d)
  BY <1>2, ReachedNext, KnownNext DEF WayInv
<1> QED
  BY <1>1, <1>2 DEF Next, Finished

\* What calls know of the tree they know in every state.
LEMMA WaysKnown == Spec => [](IInv /\ WayInv)
BY InitInv, NextInv, WayInit, WayNext, PTL DEF Spec

-----------------------------------------------------------------------------
(* What calls answer                                                       *)

\* A call that returns has taken the step itself.
LEMMA ReturnsByItself ==
  ASSUME IInv, WayInv, NEW d \in Callers, Step(d), NEW c \in Callers, Returns(c)
  PROVE  c = d /\ Quits(d)
<1>1. c = d
  BY OthersStay DEF Returns, WayInv
<1> QED
  BY <1>1, StepsOfCall, BeginFields, FoundFields, MissingFields, CreateFields
     DEF Returns

\* The walk of a call that has arrived.
LEMMA ArrivedWay ==
  ASSUME IInv, WayInv, NEW c \in Callers, Arrived(c),
         call[c].at = Root \/ call[c].at \in DOMAIN tree
  PROVE  \E n \in Nat : \E s :
           /\ At(c, call[c].path, n, s) /\ LeadsTo(call[c].path, n, s)
           /\ Len(call[c].path) \in Nat \ {0}
           /\ n = IF call[c].op \in {"send", "mkdir"} THEN Len(call[c].path) - 1
                                                       ELSE Len(call[c].path)
<1>1. PICK p, n, s : At(c, p, n, s)
  BY DEF At
<1>2. n \in Nat /\ p = call[c].path /\ s = call[c].at
  BY <1>1 DEF At, IInv, CallsOK, CallRecords
<1>3. LeadsTo(p, n, s)
  BY <1>1, <1>2 DEF WayInv, Reached, Arrived
<1>4. Len(call[c].path) \in Nat \ {0}
  BY NamesOfPath DEF Arrived, IInv, WalkInv
<1> QED
  BY <1>1, <1>2, <1>3, <1>4 DEF At, Arrived, Depth

\* The end of a way of all the names is what the path leads to.
LEMMA ResolvedNext ==
  ASSUME NEW c \in Callers, NEW p, p = call'[c].path, NEW kind,
         NEW i, LeadsTo(p, Len(p), i)', There(i, kind)'
  PROVE  Holds(call[c].path, kind)'
<1>1. Holds(p, kind)'
  BY DEF Holds, Resolve, There
<1> QED
  BY <1>1

\* An insert that succeeds has put its object at the end of the path.
LEMMA InsertHolds ==
  ASSUME IInv, WayInv, NEW c \in Callers, InsertFile(c) \/ InsertFolder(c)
  PROVE  /\ InsertFile(c) => Holds(call[c].path, "file")'
         /\ InsertFolder(c) => Holds(call[c].path, "folder")'
<1>1. Arrived(c) /\ call[c].op \in {"send", "mkdir"}
  BY DEF InsertFile, InsertFolder
<1>2. call[c].at = Root \/ call[c].at \in DOMAIN tree
  BY DEF InsertFile, InsertFolder, InsertObject, IsFolder
<1>3. PICK p : p = call[c].path
  OBVIOUS
<1>4. PICK n, s : n \in Nat /\ At(c, p, n, s) /\ LeadsTo(p, n, s) /\ n + 1 = Len(p)
  BY <1>1, <1>2, <1>3, ArrivedWay
<1>5. LastName(c) = p[n + 1] /\ call[c].at = s
  BY <1>3, <1>4 DEF LastName, At
<1>6. call'[c].path = p
  BY <1>3, QuitFields DEF Quits, SameCall
<1>7. ASSUME InsertFile(c) PROVE Holds(call[c].path, "file")'
  <2>0. PICK R : R = {i \in Children(s) : tree[i].name = p[n + 1] /\ tree[i].kind = "file"}
    OBVIOUS
  <2>1. InsertObject(s, p[n + 1], "file", R)
    BY <1>5, <1>7, <2>0 DEF InsertFile
  <2>2. \A j \in DOMAIN tree : j \in R => tree[j].kind = "file"
    BY <2>0
  <2>3. PICK i : LeadsTo(p, n + 1, i)' /\ There(i, "file")'
    BY <1>4, <2>1, <2>2, InsertedReached
  <2> QED
    BY <1>4, <1>6, <2>3, ResolvedNext
<1>8. ASSUME InsertFolder(c) PROVE Holds(call[c].path, "folder")'
  <2>0. PICK R : R = {}
    OBVIOUS
  <2>1. InsertObject(s, p[n + 1], "folder", R)
    BY <1>5, <1>8, <2>0 DEF InsertFolder
  <2>2. \A j \in DOMAIN tree : j \in R => tree[j].kind = "file"
    BY <2>0
  <2>3. PICK i : LeadsTo(p, n + 1, i)' /\ There(i, "folder")'
    BY <1>4, <2>1, <2>2, InsertedReached
  <2> QED
    BY <1>4, <1>6, <2>3, ResolvedNext
<1> QED
  BY <1>7, <1>8

\* What the calls that return without a fault have done.
LEMMA FaultlessReturns ==
  ASSUME IInv, WayInv, NEW c \in Callers, Quits(c), ~ call'[c].fault
  PROVE  \/ InsertFile(c) /\ call[c].op = "send" /\ call'[c].ok
         \/ InsertFolder(c) /\ call[c].op = "mkdir" /\ call'[c].ok
         \/ DeleteItem(c) /\ call[c].op = "delete"
         \/ ReadFile(c) /\ call[c].op = "get"
         \/ /\ ExistItem(c)
            /\ \/ /\ call[c].op = "existFile"
                  /\ call'[c].ok <=> tree[call[c].at].kind = "file"
               \/ /\ call[c].op = "existFolder"
                  /\ call'[c].ok <=> tree[call[c].at].kind = "folder"
         \/ NoParent(c) /\ call[c].op = "mkdir" /\ ~ call'[c].ok
         \/ NameLost(c) /\ call[c].op \in Queries /\ ~ call'[c].ok
         \/ /\ SubstorageNotFound(c) /\ call[c].op # "send"
            /\ call[c].op # "get" => ~ call'[c].ok
<1>1. \A ok, fault : Return(c, ok, fault) => call'[c].ok = ok /\ call'[c].fault = fault
  BY ReturnFields DEF IInv
<1>2. ~ (EnumFails(c) \/ CreateFails(c) \/ QueryInterfaceFails(c) \/ TransferFails(c)
         \/ AttributesUnread(c) \/ RequestFails(c))
  BY <1>1, Zenon DEF EnumFails, CreateFails, QueryInterfaceFails, TransferFails,
     AttributesUnread, RequestFails
<1>3. ASSUME ExistItem(c)
      PROVE  \/ /\ call[c].op = "existFile"
                /\ call'[c].ok <=> tree[call[c].at].kind = "file"
             \/ /\ call[c].op = "existFolder"
                /\ call'[c].ok <=> tree[call[c].at].kind = "folder"
  BY <1>1, <1>3, Zenon DEF ExistItem
<1>4. ASSUME SubstorageNotFound(c), call[c].op # "send", call[c].op # "get"
      PROVE  ~ call'[c].ok
  <2>1. Return(c, Masks(c), FALSE)
    BY <1>4 DEF SubstorageNotFound
  <2>2. ~ Masks(c)
    BY <1>4 DEF Masks
  <2>3. call'[c].ok = Masks(c)
    BY <1>1, <2>1
  <2> QED
    BY <2>2, <2>3, Zenon
<1>5. ASSUME InsertFile(c) \/ InsertFolder(c) PROVE call'[c].ok
  BY <1>1, <1>5, Zenon DEF InsertFile, InsertFolder
<1>6. ASSUME NoParent(c) PROVE call[c].op = "mkdir" /\ ~ call'[c].ok
  <2>1. Return(c, FALSE, FALSE) /\ call[c].op = "mkdir"
    BY <1>6, Zenon DEF NoParent, HasParent
  <2> QED
    BY <1>1, <2>1
<1>7. /\ InsertFile(c) => call[c].op = "send"
      /\ InsertFolder(c) => call[c].op = "mkdir"
      /\ DeleteItem(c) => call[c].op = "delete"
      /\ ReadFile(c) => call[c].op = "get"
  BY DEF InsertFile, InsertFolder, DeleteItem, ReadFile
<1>8. ASSUME NameLost(c) PROVE call[c].op \in Queries /\ ~ call'[c].ok
  BY <1>1, <1>8 DEF NameLost
<1> QED
  BY <1>2, <1>3, <1>4, <1>5, <1>6, <1>7, <1>8, Zenon DEF Quits

-----------------------------------------------------------------------------
\* After a send that succeeds the path leads to the file, and after a mkdir to
\* the folder, whatever other threads create and delete during the walk.
THEOREM InsertsDeliver == Spec => InsertDelivers
<1>1. ASSUME IInv, WayInv, [Next]_vars, NEW c \in Callers,
             Returns(c), ~ call'[c].fault
      PROVE  /\ call[c].op = "send" => call'[c].ok /\ Holds(call[c].path, "file")'
             /\ (call[c].op = "mkdir" /\ call'[c].ok)
                  => Holds(call[c].path, "folder")'
  <2>1. PICK d \in Callers : Step(d)
    BY <1>1 DEF Next, Finished, vars, Returns
  <2>2. Quits(c)
    BY <1>1, <2>1, ReturnsByItself
  <2> QED
    BY <1>1, <2>2, FaultlessReturns, InsertHolds DEF Queries
<1>2. IInv /\ WayInv /\ [Next]_vars
        => [\A c \in Callers :
              Returns(c) /\ ~call'[c].fault =>
                /\ call[c].op = "send" => call'[c].ok /\ Holds(call[c].path, "file")'
                /\ (call[c].op = "mkdir" /\ call'[c].ok)
                     => Holds(call[c].path, "folder")']_vars
  BY <1>1
<1> QED
  BY <1>2, WaysKnown, PTL DEF Spec, InsertDelivers

\* A query that answers yes has come to an object of that kind, and its path
\* still leads there.
THEOREM FoundExists == Spec => ExistFound
<1>1. ASSUME IInv, WayInv, [Next]_vars, NEW c \in Callers,
             Returns(c), call'[c].ok, ~ call'[c].fault
      PROVE  /\ call[c].op = "existFile"   => Holds(call[c].path, "file")
             /\ call[c].op = "existFolder" => Holds(call[c].path, "folder")
  <2>1. PICK d \in Callers : Step(d)
    BY <1>1 DEF Next, Finished, vars, Returns
  <2>2. Quits(c)
    BY <1>1, <2>1, ReturnsByItself
  <2> SUFFICES ASSUME call[c].op \in Queries
               PROVE  /\ call[c].op = "existFile"   => Holds(call[c].path, "file")
                      /\ call[c].op = "existFolder" => Holds(call[c].path, "folder")
    BY DEF Queries
  <2>3. /\ ExistItem(c)
        /\ \/ call[c].op = "existFile" /\ tree[call[c].at].kind = "file"
           \/ call[c].op = "existFolder" /\ tree[call[c].at].kind = "folder"
    BY <1>1, <2>2, FaultlessReturns DEF Queries
  <2>4. Arrived(c) /\ call[c].at \in DOMAIN tree
    BY <2>3, Zenon DEF ExistItem
  <2>5. LeadsTo(call[c].path, Len(call[c].path), call[c].at)
    BY <1>1, <2>4, ArrivedWay DEF At, Queries
  <2>6. call[c].at \in Resolve(call[c].path)
    BY <2>4, <2>5 DEF Resolve
  <2> QED
    BY <2>3, <2>6 DEF Holds
<1>2. IInv /\ WayInv /\ [Next]_vars
        => [\A c \in Callers :
              (Returns(c) /\ call'[c].ok /\ ~call'[c].fault) =>
                /\ call[c].op = "existFile"   => Holds(call[c].path, "file")
                /\ call[c].op = "existFolder" => Holds(call[c].path, "folder")]_vars
  BY <1>1
<1> QED
  BY <1>2, WaysKnown, PTL DEF Spec, ExistFound

\* An object goes only because the path of a call leads to it, or to what it
\* lies below.
THEOREM DeletesExact == Spec => DeleteExact
<1> DEFINE Asked(i, c) ==
             /\ Returns(c)
             /\ \/ /\ call[c].op = "delete"
                   /\ \E j \in Resolve(call[c].path) : i \in Below(j)
                \/ /\ call[c].op = "send"
                   /\ i \in Resolve(call[c].path) /\ tree[i].kind = "file"
<1>1. ASSUME IInv, WayInv, NEW c \in Callers, Step(c),
             NEW i \in DOMAIN tree \ DOMAIN tree'
      PROVE  Asked(i, c)
  <2>1. CASE DeleteItem(c)
    <3>1. /\ Arrived(c) /\ call[c].op = "delete" /\ call[c].at \in DOMAIN tree
          /\ i \in Below(call[c].at)
      BY <1>1, <2>1 DEF DeleteItem
    <3>2. LeadsTo(call[c].path, Len(call[c].path), call[c].at)
      BY <1>1, <3>1, ArrivedWay DEF At
    <3>3. call[c].at \in Resolve(call[c].path)
      BY <3>1, <3>2 DEF Resolve
    <3>4. Returns(c)
      BY <1>1, <2>1, QuitFields DEF Quits, Returns
    <3> QED
      BY <3>1, <3>3, <3>4
  <2>2. CASE InsertFile(c)
    <3>1. PICK p, n, s : /\ p = call[c].path /\ n \in Nat /\ At(c, p, n, s)
                         /\ LeadsTo(p, n, s) /\ n + 1 = Len(p)
      <4>1. /\ Arrived(c) /\ call[c].op = "send"
            /\ call[c].at = Root \/ call[c].at \in DOMAIN tree
        BY <2>2 DEF InsertFile, InsertObject, IsFolder
      <4> QED
        BY <1>1, <4>1, ArrivedWay
    <3>2. /\ i \in Children(s) /\ tree[i].name = p[n + 1] /\ tree[i].kind = "file"
          /\ IsFolder(s)
      BY <1>1, <2>2, <3>1 DEF InsertFile, InsertObject, At, LastName
    <3>3. LeadsTo(p, n + 1, i)
      BY <1>1, <3>1, <3>2, WayExtends DEF Named, IInv, TreeOK
    <3>4. i \in Resolve(call[c].path)
      BY <3>1, <3>3 DEF Resolve
    <3>5. Returns(c) /\ call[c].op = "send"
      BY <1>1, <2>2, QuitFields DEF Quits, Returns, InsertFile
    <3> QED
      BY <3>2, <3>4, <3>5
  <2>3. CASE CreateSubstorage(c) \/ InsertFolder(c)
    <3>1. PICK name : InsertObject(call[c].at, name, "folder", {})
      BY <2>3, Zenon DEF CreateSubstorage, InsertFolder
    <3> QED
      BY <1>1, <3>1 DEF InsertObject
  <2>4. UNCHANGED tree => FALSE
    BY <1>1
  <2> QED
    BY <1>1, <2>1, <2>2, <2>3, <2>4, Zenon DEF Step, Begin, NoParent, NameLost, SubstorageFound,
       SubstorageNotFound, EnumFails, CreateFails, QueryInterfaceFails, ReadFile,
       TransferFails, ExistItem, AttributesUnread, RequestFails
<1>2. IInv /\ WayInv /\ [Next]_vars
        => [\A i \in DOMAIN tree \ DOMAIN tree' :
              \E c \in Callers : Asked(i, c)]_vars
  <2> HIDE DEF Asked
  <2> QED
    BY <1>1 DEF Next, Finished, vars
<1> QED
  BY <1>2, WaysKnown, PTL DEF Spec, DeleteExact
=============================================================================
