-------------------------- MODULE CopyList_proofs --------------------------
(***************************************************************************)
(* What the tree and the copy list promise, for any file system, any       *)
(* changes of it and any selections.                                       *)
(*                                                                         *)
(* The list: while the user is asked about a file, it is not in the list.  *)
(* The tree: a node keeps the children it has once been given, and they    *)
(* are or were in the file system; a node has children only when its       *)
(* parent has (NodesOK).                                                   *)
(***************************************************************************)
EXTENDS CopyList, TLAPS

\* No path is in the list twice.
NoDuplicates ==
  \A i, j \in DOMAIN listModel : listModel[i] = listModel[j] => i = j

LoopsOK == pc = "expand" => depth >= 1

\* what the question is about
DialogOK ==
  pc = "dialog" => current[1] \in Mp3 /\ ~ IsListed(current)

NodesOK ==
  /\ \A d \in Entries : kids[d] \subseteq fs \cup changed
  /\ \A d \in expanded : ~ Leaf(d)
  /\ \A d \in Entries : \A c \in kids[d] : c # Root /\ Parent[c] = d
  /\ \A e \in Entries \ {Root} : ~ Leaf(e) => ~ Leaf(Parent[e])

\* the selection of the handler under way
Adding == pc \in {"call", "dialog", "list", "return"}

SelectionOK ==
  /\ sel \subseteq selected
  /\ Adding => top \in selected
  /\ ~ Adding /\ pc \notin {"select", "status"} => stopped = {}

IInv ==
  /\ TypeOK /\ LoopsOK /\ DialogOK /\ SelectionOK /\ NodesOK
  /\ NoDuplicates /\ LongListAsked /\ TreeIsAhead

ListedPaths == Mp3 \X Ways

\* What is below a path has a spelling.
LEMMA WayIsWay == \A p \in Paths : Way(p) \in Ways
BY DEF Paths, Way, Ways

\* A path that is not in the list can be added.
LEMMA AppendNew ==
  ASSUME listModel \in Seq(ListedPaths), NoDuplicates,
         current \in Paths, current[1] \in Mp3, ~ IsListed(current),
         listModel' = Append(listModel, current)
  PROVE  /\ NoDuplicates'
         /\ listModel' \in Seq(ListedPaths)
         /\ Len(listModel') = Len(listModel) + 1
<1>1. current \in ListedPaths
  BY DEF ListedPaths, Paths
<1>2. listModel' \in Seq(ListedPaths) /\ Len(listModel') = Len(listModel) + 1
  BY <1>1
<1>3. \A i \in 1 .. Len(listModel) : listModel'[i] = listModel[i]
  BY <1>1
<1>4. listModel'[Len(listModel) + 1] = current
  BY <1>1
<1>5. DOMAIN listModel = 1 .. Len(listModel)
      /\ DOMAIN listModel' = 1 .. Len(listModel) + 1 /\ Len(listModel) \in Nat
  BY <1>1
<1>6. ASSUME NEW i \in DOMAIN listModel', NEW j \in DOMAIN listModel',
             listModel'[i] = listModel'[j]
      PROVE  i = j
  <2>1. CASE i <= Len(listModel) /\ j <= Len(listModel)
    BY <1>3, <1>5, <1>6, <2>1 DEF NoDuplicates
  <2>2. CASE i = Len(listModel) + 1 /\ j <= Len(listModel)
    BY <1>3, <1>4, <1>5, <1>6, <2>2 DEF IsListed
  <2>3. CASE j = Len(listModel) + 1 /\ i <= Len(listModel)
    BY <1>3, <1>4, <1>5, <1>6, <2>3 DEF IsListed
  <2> QED
    BY <1>5, <1>6, <2>1, <2>2, <2>3
<1> QED
  BY <1>2, <1>6 DEF NoDuplicates

\* the nodes populateSubtree() is called for
InTree(d) == ~ Leaf(d) \/ (d \in Dirs /\ (d = Root \/ ~ Leaf(Parent[d])))

\* Only leaves get children, and they come from the file system; the children
\* of a node that is expanded are listed, unless they cannot be.
LEMMA PopulateEffect ==
  ASSUME IInv, NEW d \in Entries, InTree(d), PopulateSubtree(d)
  PROVE  /\ kids' \in [Entries -> SUBSET Entries]
         /\ dots' \subseteq Dirs /\ unread \subseteq unread'
         /\ \A e \in Entries : kids'[e] \subseteq kids[e] \cup fs
         /\ \A e \in Entries : ~ Leaf(e) => ~ Leaf(e)' /\ kids'[e] = kids[e]
         /\ \A e \in Entries : \A c \in kids'[e] : c # Root /\ Parent[c] = e
         /\ \A e \in Entries \ {Root} : ~ Leaf(e)' => ~ Leaf(Parent[e])'
         /\ ~ Leaf(d) => \A c \in kids[d] \cap Dirs :
              Leaf(c)' => c \in unread' \cup changed
<1> USE ListAssumption DEF ListAssumption
<1>1. PICK U \in SUBSET (({d} \cup kids[d] \cup Shown(d)) \cap Dirs) :
        LET below == IF ~ Leaf(d) THEN {c \in kids[d] : Leaf(c)}
                     ELSE IF d \in U \/ d \notin fs THEN {} ELSE Shown(d)
            here  == IF Leaf(d) THEN {d} ELSE {}
        IN  List((here \cup below) \cap fs \cap Dirs, U)
  BY DEF PopulateSubtree
<1> DEFINE below == IF ~ Leaf(d) THEN {c \in kids[d] : Leaf(c)}
                    ELSE IF d \in U \/ d \notin fs THEN {} ELSE Shown(d)
           here == IF Leaf(d) THEN {d} ELSE {}
           L == (here \cup below) \cap fs \cap Dirs
<1>2. /\ kids' = [e \in Entries |-> IF e \in L \ U THEN Shown(e) ELSE kids[e]]
      /\ dots' = dots \cup {e \in L \ U : Shown(e) = {}}
      /\ unread' = unread \cup (L \cap U)
  BY <1>1 DEF List
<1>3. /\ kids \in [Entries -> SUBSET Entries] /\ dots \subseteq Dirs
      /\ fs \subseteq Entries /\ Dirs \subseteq Entries
  BY DEF IInv, TypeOK
<1>4. \A e \in Entries : Shown(e) \subseteq fs
  BY DEF Shown, ChildrenOf
<1>5. L \subseteq Dirs
  OBVIOUS
<1>6. /\ kids' \in [Entries -> SUBSET Entries]
      /\ dots' \subseteq Dirs /\ unread \subseteq unread'
  <2>1. kids' \in [Entries -> SUBSET Entries]
    BY <1>2, <1>3, <1>4
  <2>2. dots' \subseteq Dirs
    BY <1>2, <1>3, <1>5
  <2> QED
    BY <1>2, <2>1, <2>2
<1>7. \A e \in Entries : e \in L \/ kids'[e] = kids[e]
  BY <1>2
<1>8. \A e \in Entries : kids'[e] \subseteq kids[e] \cup fs
  BY <1>2, <1>4
<1>9. \A e \in L \ U : ~ Leaf(e)'
  BY <1>2, <1>3, <1>5 DEF Leaf
<1>10. \A e \in Entries : ~ Leaf(e) => ~ Leaf(e)'
  BY <1>2, <1>7, <1>9, <1>3 DEF Leaf
<1>11. ASSUME ~ Leaf(d), NEW c \in kids[d] \cap Dirs, Leaf(c)'
       PROVE  c \in unread' \cup changed
  <2>1. c \in Entries /\ Leaf(c)
    BY <1>3, <1>10, <1>11
  <2>2. c \in below
    BY <1>11, <2>1
  <2>3. CASE c \notin fs
    BY <1>11, <2>3 DEF IInv, NodesOK
  <2>4. CASE c \in fs
    BY <1>2, <1>9, <1>11, <2>2, <2>4
  <2> QED
    BY <2>3, <2>4
<1>12. ASSUME NEW e \in L PROVE Leaf(e)
  <2>1. CASE Leaf(d) /\ e \in Shown(d)
    <3>1. e \in Entries \ {Root} /\ Parent[e] = d
      BY <1>3, <2>1 DEF Shown, ChildrenOf
    <3> QED
      BY <2>1, <3>1 DEF IInv, NodesOK
  <2> QED
    BY <1>12, <2>1
<1>13. \A e \in Entries : ~ Leaf(e) => kids'[e] = kids[e]
  BY <1>7, <1>12
<1>14. \A e \in Entries : \A c \in kids'[e] : c # Root /\ Parent[c] = e
  <2>1. \A e \in Entries : \A c \in Shown(e) : c # Root /\ Parent[c] = e
    BY DEF Shown, ChildrenOf
  <2> QED
    BY <1>2, <2>1 DEF IInv, NodesOK
<1>15. ASSUME NEW e \in Entries \ {Root}, ~ Leaf(e)'
       PROVE  ~ Leaf(Parent[e])'
  <2>1. Parent[e] \in Entries
    BY <1>3
  <2>2. CASE ~ Leaf(e)
    BY <1>10, <2>1, <2>2 DEF IInv, NodesOK
  <2>3. CASE Leaf(e)
    <3>1. e \in L \ U
      BY <1>2, <1>15, <2>3 DEF Leaf
    <3>2. CASE e = d
      BY <1>10, <2>1, <2>3, <3>2 DEF InTree
    <3>3. CASE ~ Leaf(d) /\ e \in kids[d]
      BY <1>10, <3>3 DEF IInv, NodesOK
    <3>4. CASE Leaf(d) /\ d \notin U /\ d \in fs /\ e \in Shown(d)
      <4>1. d \in L \ U
        BY <3>4 DEF InTree
      <4>2. Parent[e] = d
        BY <3>4 DEF Shown, ChildrenOf
      <4> QED
        BY <1>9, <4>1, <4>2
    <3> QED
      BY <3>1, <3>2, <3>3, <3>4
  <2> QED
    BY <2>2, <2>3
<1> QED
  BY <1>6, <1>8, <1>10, <1>11, <1>13, <1>14, <1>15

TreeOK ==
  /\ kids \in [Entries -> SUBSET Entries] /\ dots \subseteq Dirs
  /\ expanded \subseteq Entries
  /\ NodesOK /\ TreeIsAhead

\* Listing more of the tree keeps what is said of it.
LEMMA PopulateKeepsTree ==
  ASSUME IInv, NEW d \in Entries, InTree(d), PopulateSubtree(d), UNCHANGED fileVars,
         expanded' = expanded \/ (~ Leaf(d) /\ expanded' = expanded \cup {d})
  PROVE  TreeOK'
<1>1. /\ kids' \in [Entries -> SUBSET Entries]
      /\ dots' \subseteq Dirs /\ unread \subseteq unread'
      /\ \A e \in Entries : kids'[e] \subseteq kids[e] \cup fs
      /\ \A e \in Entries : ~ Leaf(e) => ~ Leaf(e)' /\ kids'[e] = kids[e]
      /\ \A e \in Entries : \A c \in kids'[e] : c # Root /\ Parent[c] = e
      /\ \A e \in Entries \ {Root} : ~ Leaf(e)' => ~ Leaf(Parent[e])'
      /\ ~ Leaf(d) => \A c \in kids[d] \cap Dirs :
           Leaf(c)' => c \in unread' \cup changed
  BY PopulateEffect
<1>2. fs' = fs /\ changed' = changed
  BY DEF fileVars
<1>3. expanded \subseteq Entries /\ expanded' \subseteq Entries
      /\ \A e \in expanded' : ~ Leaf(e)
      /\ kids \in [Entries -> SUBSET Entries]
  BY DEF IInv, TypeOK, NodesOK
<1>4. NodesOK'
  <2>1. \A e \in Entries : kids'[e] \subseteq fs' \cup changed'
    BY <1>1, <1>2 DEF IInv, NodesOK
  <2>2. \A e \in expanded' : ~ Leaf(e)'
    BY <1>1, <1>3
  <2> QED
    BY <1>1, <2>1, <2>2 DEF NodesOK
<1>6. TreeIsAhead'
  <2> SUFFICES ASSUME NEW e \in expanded', NEW c \in kids'[e] \cap Dirs, Leaf(c)'
               PROVE  c \in unread' \cup changed'
    BY DEF TreeIsAhead
  <2>1. c \in kids[e] \cap Dirs /\ c \in Entries /\ Leaf(c)
    BY <1>1, <1>3
  <2>2. CASE e \in expanded
    BY <1>1, <1>2, <2>1, <2>2 DEF IInv, TreeIsAhead
  <2>3. CASE e = d /\ ~ Leaf(d)
    BY <1>1, <1>2, <2>1, <2>3
  <2> QED
    BY <2>2, <2>3
<1> QED
  BY <1>1, <1>3, <1>4, <1>6 DEF TreeOK

\* Changes of the file system are known as changes.
LEMMA ChangeKeepsTree ==
  ASSUME IInv, UNCHANGED treeVars, changed \subseteq changed',
         fs \cup changed \subseteq fs' \cup changed'
  PROVE  TreeOK'
<1>1. TypeOK /\ NodesOK /\ TreeIsAhead
  BY DEF IInv
<1>2. /\ kids' = kids /\ dots' = dots /\ expanded' = expanded
      /\ unread' = unread
  BY DEF treeVars
<1>3. NodesOK'
  BY <1>1, <1>2 DEF NodesOK, Leaf, TypeOK
<1>4. TreeIsAhead'
  BY <1>1, <1>2 DEF TreeIsAhead, Leaf
<1> QED
  BY <1>1, <1>2, <1>3, <1>4 DEF TreeOK, TypeOK

LEMMA InitInv == Init => IInv
<1> SUFFICES ASSUME Init PROVE IInv
  OBVIOUS
<1> USE ListAssumption DEF ListAssumption
<1>1. TypeOK
  <2>1. fs \subseteq Entries /\ \A d \in Entries : Shown(d) \subseteq Entries
    BY DEF Init, Shown, ChildrenOf
  <2>2. kids \in [Entries -> SUBSET Entries] /\ dots \subseteq Dirs
    BY <2>1 DEF Init
  <2>3. depth \in 0 .. Len(MusicPath) /\ Len(MusicPath) \in Nat
    BY DEF Init
  <2>4. current \in Paths /\ top \in Paths
    BY DEF Init, Paths, Ways
  <2>5. listModel \in Seq(Mp3 \X Ways) /\ stack \in Seq(SUBSET Paths)
    BY DEF Init
  <2> QED
    BY <2>1, <2>2, <2>3, <2>4, <2>5 DEF Init, TypeOK
<1>2. LoopsOK /\ DialogOK /\ SelectionOK
  BY DEF Init, LoopsOK, DialogOK, SelectionOK, Adding
<1>3. NodesOK /\ TreeIsAhead
  BY DEF Init, NodesOK, TreeIsAhead, Shown, ChildrenOf, Leaf
<1>4. NoDuplicates /\ LongListAsked
  BY DEF Init, NoDuplicates, LongListAsked
<1> QED
  BY <1>1, <1>2, <1>3, <1>4 DEF IInv

ListOK ==
  /\ listModel \in Seq(ListedPaths) /\ asked \in BOOLEAN /\ ways \subseteq Ways
  /\ NoDuplicates /\ LongListAsked

ControlOK ==
  /\ fs \subseteq Entries
  /\ depth \in 0 .. Len(MusicPath)
  /\ pc \in {"start", "navigate", "lost", "expand", "idle", "select", "call",
             "dialog", "list", "return", "status"}
  /\ sel \subseteq Paths /\ current \in Paths /\ top \in Paths
  /\ stack \in Seq(SUBSET Paths)
  /\ selected \subseteq Paths /\ stopped \subseteq selected
  /\ LoopsOK /\ SelectionOK

LEMMA InvParts == IInv <=> TreeOK /\ ListOK /\ ControlOK /\ DialogOK
BY DEF IInv, TreeOK, ListOK, ControlOK, TypeOK, ListedPaths

LEMMA NewParts == TreeOK' /\ ListOK' /\ ControlOK' /\ DialogOK' => IInv'
BY DEF IInv, TreeOK, ListOK, ControlOK, TypeOK, ListedPaths

LEMMA KeepListLemma == ListOK /\ KeepList => ListOK'
BY DEF ListOK, KeepList, listVars, NoDuplicates, LongListAsked

LEMMA KeepTreeLemma == IInv /\ KeepTree /\ UNCHANGED fileVars => TreeOK'
BY ChangeKeepsTree DEF KeepTree, fileVars

\* The file system changes.
LEMMA ChangeInv ==
  ASSUME IInv, NEW e \in Entries \ {Root}, Create(e) \/ Remove(e)
  PROVE  IInv'
<1>1. PICK S \in SUBSET Entries :
        Change(S) /\ fs' \subseteq Entries /\ fs \cup changed \subseteq fs' \cup (changed \cup S)
  <2>1. CASE Create(e)
    <3>1. fs \subseteq Entries
      BY DEF IInv, TypeOK
    <3> QED
      BY <2>1, <3>1 DEF Create
  <2>2. CASE Remove(e)
    <3>1. fs \subseteq Entries
      BY DEF IInv, TypeOK
    <3>2. {x \in fs : e \in Above[x]} \subseteq Entries
      BY <3>1
    <3> QED
      BY <2>2, <3>1, <3>2 DEF Remove
  <2> QED
    BY <2>1, <2>2
<1>2. TreeOK /\ ListOK /\ ControlOK /\ DialogOK
  BY InvParts
<1>3. TreeOK'
  BY <1>1, ChangeKeepsTree DEF Change
<1>4. ListOK'
  BY <1>1, <1>2, KeepListLemma DEF Change, KeepList
<1>5. ControlOK' /\ DialogOK'
  <2>1. UNCHANGED <<addVars, treeVars, listVars, pc>>
    BY <1>1 DEF Change
  <2> QED
    BY <1>1, <1>2, <2>1 DEF ControlOK, DialogOK, addVars, treeVars, listVars,
       LoopsOK, SelectionOK, Adding, IsListed
<1> QED
  BY <1>3, <1>4, <1>5, NewParts

LEMMA FindMusicInv == IInv /\ FindMusic => IInv'
<1> SUFFICES ASSUME IInv, FindMusic PROVE IInv'
  OBVIOUS
<1>1. TreeOK /\ ListOK /\ ControlOK /\ DialogOK
  BY InvParts
<1>2. TreeOK' /\ ListOK'
  BY <1>1, KeepTreeLemma, KeepListLemma DEF FindMusic, At, InCall
<1>3. ControlOK'
  BY <1>1, ListAssumption DEF FindMusic, At, InCall, GoTo, KeepTree, treeVars, fileVars,
     KeepSelection, ControlOK, LoopsOK, SelectionOK, Adding
<1>4. DialogOK'
  BY <1>1 DEF FindMusic, InCall, At, GoTo, DialogOK
<1> QED
  BY <1>2, <1>3, <1>4, NewParts

LEMMA ChildMissingInv == IInv /\ ChildMissing => IInv'
<1> SUFFICES ASSUME IInv, ChildMissing PROVE IInv'
  OBVIOUS
<1>1. TreeOK /\ ListOK /\ ControlOK /\ DialogOK
  BY InvParts
<1>2. TreeOK' /\ ListOK'
  BY <1>1, KeepTreeLemma, KeepListLemma DEF ChildMissing, At, InCall
<1>3. ControlOK'
  BY <1>1, ListAssumption DEF ChildMissing, At, InCall, GoTo, KeepTree, treeVars, fileVars,
     KeepSelection, ControlOK, LoopsOK, SelectionOK, Adding
<1>4. DialogOK'
  BY <1>1 DEF ChildMissing, InCall, At, GoTo, DialogOK
<1> QED
  BY <1>2, <1>3, <1>4, NewParts

LEMMA NextSelectedInv == IInv /\ NextSelected => IInv'
<1> SUFFICES ASSUME IInv, NextSelected PROVE IInv'
  OBVIOUS
<1>1. TreeOK /\ ListOK /\ ControlOK /\ DialogOK
  BY InvParts
<1>2. TreeOK' /\ ListOK'
  BY <1>1, KeepTreeLemma, KeepListLemma DEF NextSelected, At, InCall
<1>3. ControlOK'
  BY <1>1, ListAssumption DEF NextSelected, At, InCall, GoTo, KeepTree, treeVars, fileVars,
     KeepSelection, ControlOK, LoopsOK, SelectionOK, Adding
<1>4. DialogOK'
  BY <1>1 DEF NextSelected, InCall, At, GoTo, DialogOK
<1> QED
  BY <1>2, <1>3, <1>4, NewParts

LEMMA AllSelectedAddedInv == IInv /\ AllSelectedAdded => IInv'
<1> SUFFICES ASSUME IInv, AllSelectedAdded PROVE IInv'
  OBVIOUS
<1>1. TreeOK /\ ListOK /\ ControlOK /\ DialogOK
  BY InvParts
<1>2. TreeOK' /\ ListOK'
  BY <1>1, KeepTreeLemma, KeepListLemma DEF AllSelectedAdded, At, InCall
<1>3. ControlOK'
  BY <1>1, ListAssumption DEF AllSelectedAdded, At, InCall, GoTo, KeepTree, treeVars, fileVars,
     KeepSelection, ControlOK, LoopsOK, SelectionOK, Adding
<1>4. DialogOK'
  BY <1>1 DEF AllSelectedAdded, InCall, At, GoTo, DialogOK
<1> QED
  BY <1>2, <1>3, <1>4, NewParts

LEMMA PassOverInv == IInv /\ PassOver => IInv'
<1> SUFFICES ASSUME IInv, PassOver PROVE IInv'
  OBVIOUS
<1>1. TreeOK /\ ListOK /\ ControlOK /\ DialogOK
  BY InvParts
<1>2. TreeOK' /\ ListOK'
  BY <1>1, KeepTreeLemma, KeepListLemma DEF PassOver, At, InCall
<1>3. ControlOK'
  BY <1>1, ListAssumption DEF PassOver, At, InCall, GoTo, KeepTree, treeVars, fileVars,
     KeepSelection, ControlOK, LoopsOK, SelectionOK, Adding
<1>4. DialogOK'
  BY <1>1 DEF PassOver, InCall, At, GoTo, DialogOK
<1> QED
  BY <1>2, <1>3, <1>4, NewParts

LEMMA AskUserInv == IInv /\ AskUser => IInv'
<1> SUFFICES ASSUME IInv, AskUser PROVE IInv'
  OBVIOUS
<1>1. TreeOK /\ ListOK /\ ControlOK /\ DialogOK
  BY InvParts
<1>2. TreeOK' /\ ListOK'
  BY <1>1, KeepTreeLemma, KeepListLemma DEF AskUser, At, InCall
<1>3. ControlOK'
  BY <1>1, ListAssumption DEF AskUser, At, InCall, GoTo, KeepTree, treeVars, fileVars,
     KeepSelection, ControlOK, LoopsOK, SelectionOK, Adding
<1>4. DialogOK'
  BY <1>1 DEF AskUser, InCall, At, GoTo, DialogOK, ToBeAdded, KeepList, listVars, IsListed
<1> QED
  BY <1>2, <1>3, <1>4, NewParts

LEMMA EnterDirectoryInv == IInv /\ EnterDirectory => IInv'
<1> SUFFICES ASSUME IInv, EnterDirectory PROVE IInv'
  OBVIOUS
<1>1. TreeOK /\ ListOK /\ ControlOK /\ DialogOK
  BY InvParts
<1>2. TreeOK' /\ ListOK'
  BY <1>1, KeepTreeLemma, KeepListLemma DEF EnterDirectory, At, InCall
<1>3. ControlOK'
  BY <1>1, ListAssumption DEF EnterDirectory, At, InCall, GoTo, KeepTree, treeVars, fileVars,
     KeepSelection, ControlOK, LoopsOK, SelectionOK, Adding
<1>4. DialogOK'
  BY <1>1 DEF EnterDirectory, InCall, At, GoTo, DialogOK
<1> QED
  BY <1>2, <1>3, <1>4, NewParts

LEMMA DescendInv == IInv /\ Descend => IInv'
<1> SUFFICES ASSUME IInv, Descend PROVE IInv'
  OBVIOUS
<1>1. TreeOK /\ ListOK /\ ControlOK /\ DialogOK
  BY InvParts
<1> DEFINE d == MusicPath[depth + 1]
<1> USE ListAssumption DEF ListAssumption
<1>2. depth \in Nat /\ depth < Len(MusicPath) /\ d \in Dirs /\ d \in Entries
  <2>1. depth \in 0 .. Len(MusicPath) /\ depth < Len(MusicPath) /\ Len(MusicPath) \in Nat
    BY <1>1 DEF ControlOK, Descend
  <2>2. depth + 1 \in 1 .. Len(MusicPath)
    BY <2>1
  <2> QED
    BY <2>1, <2>2
<1>3. InTree(d)
  <2>1. CASE depth = 0
    BY <1>2, <2>1 DEF InTree
  <2>2. CASE depth > 0
    <3>1. MusicPath[depth] \in Entries
      BY <1>2, <2>2
    <3>2. d \in kids[MusicPath[depth]]
      BY <2>2 DEF Descend
    <3>3. Parent[d] = MusicPath[depth] /\ ~ Leaf(MusicPath[depth])
      BY <1>1, <3>1, <3>2 DEF TreeOK, NodesOK, Leaf
    <3> QED
      BY <1>2, <3>3 DEF InTree
  <2> QED
    BY <1>2, <2>1, <2>2
<1>4. TreeOK'
  BY <1>2, <1>3, PopulateKeepsTree DEF Descend, At
<1>5. ListOK'
  BY <1>1, KeepListLemma DEF Descend
<1>6. ControlOK'
  <2>1. depth' \in 0 .. Len(MusicPath)
    BY <1>2 DEF Descend
  <2> QED
    BY <1>1, <2>1 DEF ControlOK, Descend, At, fileVars, KeepSelection, LoopsOK,
       SelectionOK, Adding
<1>7. DialogOK'
  BY DEF Descend, At, DialogOK
<1> QED
  BY <1>4, <1>5, <1>6, <1>7, NewParts

\* Opening a node keeps what is said of the tree.
LEMMA ExpandKeepsTree ==
  ASSUME IInv, NEW d \in Entries, Expand(d), UNCHANGED fileVars
  PROVE  TreeOK'
<1>1. CASE Leaf(d)
  <2>1. /\ kids' = kids /\ dots' = dots /\ unread' = unread
        /\ expanded' = expanded /\ fs' = fs /\ changed' = changed
    BY <1>1 DEF Expand, fileVars
  <2>2. TreeOK
    BY InvParts
  <2> QED
    BY <2>1, <2>2 DEF TreeOK, NodesOK, TreeIsAhead, Leaf
<1>2. CASE ~ Leaf(d)
  BY <1>2, PopulateKeepsTree DEF Expand, InTree
<1> QED
  BY <1>1, <1>2

LEMMA ExpandNextInv == IInv /\ ExpandNext => IInv'
<1> SUFFICES ASSUME IInv, ExpandNext PROVE IInv'
  OBVIOUS
<1>1. TreeOK /\ ListOK /\ ControlOK /\ DialogOK
  BY InvParts
<1> USE ListAssumption DEF ListAssumption
<1>2. depth \in 1 .. Len(MusicPath) /\ Len(MusicPath) \in Nat
  <2>1. depth \in 0 .. Len(MusicPath) /\ Len(MusicPath) \in Nat /\ Len(MusicPath) > 0
    BY <1>1 DEF ControlOK
  <2>2. depth = Len(MusicPath) \/ depth >= 1
    BY <1>1 DEF ControlOK, LoopsOK, ExpandNext, At
  <2> QED
    BY <2>1, <2>2
<1>3. MusicPath[Len(MusicPath) - depth + 1] \in Entries
  <2>1. Len(MusicPath) - depth + 1 \in 1 .. Len(MusicPath)
    BY <1>2
  <2> QED
    BY <2>1
<1>4. TreeOK'
  BY <1>3, ExpandKeepsTree DEF ExpandNext, At
<1>5. ListOK'
  BY <1>1, KeepListLemma DEF ExpandNext
<1>6. ControlOK'
  <2>1. depth' \in 0 .. Len(MusicPath) /\ LoopsOK'
    BY <1>2 DEF ExpandNext, LoopsOK, GoTo
  <2>2. SelectionOK'
    BY <1>1 DEF ControlOK, SelectionOK, Adding, ExpandNext, At, GoTo, KeepSelection
  <2> QED
    BY <1>1, <2>1, <2>2 DEF ControlOK, ExpandNext, At, GoTo, fileVars, KeepSelection
<1>7. DialogOK'
  BY DEF ExpandNext, GoTo, DialogOK
<1> QED
  BY <1>4, <1>5, <1>6, <1>7, NewParts

LEMMA TreeWillExpandInv == IInv /\ TreeWillExpand => IInv'
<1> SUFFICES ASSUME IInv, TreeWillExpand PROVE IInv'
  OBVIOUS
<1>1. TreeOK /\ ListOK /\ ControlOK /\ DialogOK
  BY InvParts
<1>2. TreeOK'
  <2>1. PICK d \in {Root} \cup UNION {kids[e] : e \in expanded} : Expand(d)
    BY DEF TreeWillExpand
  <2>2. d \in Entries
    BY <1>1, <2>1, ListAssumption DEF TreeOK, ListAssumption
  <2> QED
    BY <2>1, <2>2, ExpandKeepsTree DEF TreeWillExpand, At
<1>3. ListOK'
  BY <1>1, KeepListLemma DEF TreeWillExpand
<1>4. ControlOK' /\ DialogOK'
  BY <1>1 DEF TreeWillExpand, At, fileVars, KeepSelection, ControlOK, LoopsOK,
     SelectionOK, Adding, DialogOK
<1> QED
  BY <1>2, <1>3, <1>4, NewParts

LEMMA AddTreeSelectionInv == IInv /\ AddTreeSelection => IInv'
<1> SUFFICES ASSUME IInv, AddTreeSelection PROVE IInv'
  OBVIOUS
<1>1. TreeOK /\ ListOK /\ ControlOK /\ DialogOK
  BY InvParts
<1>2. TreeOK'
  BY KeepTreeLemma DEF AddTreeSelection
<1>3. ControlOK'
  <2>1. Visible \subseteq Paths
    <3>1. /\ kids \in [Entries -> SUBSET Entries] /\ dots \subseteq Dirs
          /\ expanded \subseteq Entries
      BY <1>1 DEF TreeOK
    <3>2. UNION {kids[d] : d \in expanded} \subseteq Entries
      BY <3>1
    <3> QED
      BY <3>1, <3>2, ListAssumption DEF Visible, Paths, Ways, ListAssumption
  <2>2. sel' \subseteq Paths /\ selected' = sel'
    BY <2>1 DEF AddTreeSelection
  <2>3. stopped' = {}
    BY <1>1 DEF AddTreeSelection, ControlOK, SelectionOK, Adding
  <2> QED
    BY <1>1, <2>2, <2>3 DEF AddTreeSelection, GoTo, KeepTree, treeVars, fileVars,
       ControlOK, LoopsOK, SelectionOK, Adding
<1>4. ListOK'
  <2>1. sel' \subseteq Paths
    BY <1>3 DEF ControlOK
  <2>2. ways' \subseteq Ways
    BY <1>1, <2>1, WayIsWay DEF ListOK, AddTreeSelection
  <2> QED
    BY <1>1, <2>2 DEF AddTreeSelection, ListOK, NoDuplicates, LongListAsked
<1>5. DialogOK'
  BY DEF AddTreeSelection, GoTo, DialogOK
<1> QED
  BY <1>2, <1>3, <1>4, <1>5, NewParts

LEMMA EndOfHandlerInv == IInv /\ EndOfHandler => IInv'
<1> SUFFICES ASSUME IInv, EndOfHandler PROVE IInv'
  OBVIOUS
<1>1. TreeOK /\ ListOK /\ ControlOK /\ DialogOK
  BY InvParts
<1>2. TreeOK'
  BY ChangeKeepsTree DEF EndOfHandler, KeepTree
<1>3. ListOK'
  BY <1>1, KeepListLemma DEF EndOfHandler
<1>4. ControlOK' /\ DialogOK'
  <2>1. <<Root, Plain>> \in Paths
    BY ListAssumption DEF Paths, Ways, ListAssumption
  <2>2. stack' \in Seq(SUBSET Paths)
    BY DEF EndOfHandler
  <2> QED
    BY <1>1, <2>1, <2>2 DEF EndOfHandler, GoTo, KeepTree, treeVars, ControlOK,
       LoopsOK, SelectionOK, Adding, DialogOK
<1> QED
  BY <1>2, <1>3, <1>4, NewParts

LEMMA ClearListInv == IInv /\ ClearList => IInv'
<1> SUFFICES ASSUME IInv, ClearList PROVE IInv'
  OBVIOUS
<1>1. TreeOK /\ ListOK /\ ControlOK /\ DialogOK
  BY InvParts
<1>2. TreeOK'
  BY KeepTreeLemma DEF ClearList, At
<1>3. ListOK'
  <2>1. listModel' = <<>> /\ asked' = FALSE /\ ways' = {}
    BY DEF ClearList
  <2>2. listModel' \in Seq(ListedPaths)
    BY <2>1
  <2>3. NoDuplicates'
    BY <2>1 DEF NoDuplicates
  <2>4. LongListAsked'
    BY <2>1, ListAssumption DEF LongListAsked, ListAssumption
  <2> QED
    BY <2>1, <2>2, <2>3, <2>4 DEF ListOK
<1>4. ControlOK' /\ DialogOK'
  BY <1>1 DEF ClearList, At, fileVars, KeepTree, treeVars, KeepSelection, ControlOK,
     LoopsOK, SelectionOK, Adding, DialogOK
<1> QED
  BY <1>2, <1>3, <1>4, NewParts

LEMMA AddFileInv == IInv /\ AddFile => IInv'
<1> SUFFICES ASSUME IInv, AddFile PROVE IInv'
  OBVIOUS
<1>1. TreeOK /\ ListOK /\ ControlOK /\ DialogOK
  BY InvParts
<1>2. TreeOK'
  BY KeepTreeLemma DEF AddFile, InCall, At
<1>3. ListOK'
  <2>1. NoDuplicates' /\ listModel' \in Seq(ListedPaths) /\ Len(listModel') = Len(listModel) + 1
    BY <1>1, AppendNew DEF AddFile, ToBeAdded, ListOK, ControlOK
  <2>2. Len(listModel) \in Nat /\ WarnAt \in Nat
    BY <1>1, ListAssumption DEF ListOK, ListAssumption
  <2>3. LongListAsked'
    <3>1. Len(listModel) # WarnAt /\ asked' = asked
      BY DEF AddFile
    <3> QED
      BY <1>1, <2>1, <2>2, <3>1 DEF ListOK, LongListAsked
  <2> QED
    BY <1>1, <2>1, <2>3 DEF AddFile, ListOK
<1>4. ControlOK' /\ DialogOK'
  BY <1>1 DEF AddFile, InCall, At, GoTo, fileVars, KeepTree, treeVars, KeepSelection,
     ControlOK, LoopsOK, SelectionOK, Adding, DialogOK
<1> QED
  BY <1>2, <1>3, <1>4, NewParts

LEMMA AnswerOkInv == IInv /\ AnswerOk => IInv'
<1> SUFFICES ASSUME IInv, AnswerOk PROVE IInv'
  OBVIOUS
<1>1. TreeOK /\ ListOK /\ ControlOK /\ DialogOK
  BY InvParts
<1>2. TreeOK'
  BY KeepTreeLemma DEF AnswerOk, InCall, At
<1>3. ListOK'
  <2>1. NoDuplicates' /\ listModel' \in Seq(ListedPaths)
    BY <1>1, AppendNew DEF AnswerOk, At, AddAnswered, DialogOK, ListOK, ControlOK
  <2> QED
    BY <1>1, <2>1 DEF AnswerOk, AddAnswered, ListOK, LongListAsked
<1>4. ControlOK' /\ DialogOK'
  BY <1>1 DEF AnswerOk, At, GoTo, fileVars, KeepTree, treeVars, KeepSelection,
     ControlOK, LoopsOK, SelectionOK, Adding, DialogOK
<1> QED
  BY <1>2, <1>3, <1>4, NewParts

LEMMA AnswerCancelInv == IInv /\ AnswerCancel => IInv'
<1> SUFFICES ASSUME IInv, AnswerCancel PROVE IInv'
  OBVIOUS
<1>1. TreeOK /\ ListOK /\ ControlOK /\ DialogOK
  BY InvParts
<1>2. TreeOK'
  BY KeepTreeLemma DEF AnswerCancel, InCall, At
<1>3. ListOK'
  <2>1. NoDuplicates' /\ listModel' \in Seq(ListedPaths)
    BY <1>1, AppendNew DEF AnswerCancel, At, AddAnswered, DialogOK, ListOK, ControlOK
  <2> QED
    BY <1>1, <2>1 DEF AnswerCancel, AddAnswered, ListOK, LongListAsked
<1>4. ControlOK' /\ DialogOK'
  <2>1. stack' \in Seq(SUBSET Paths)
    BY DEF AnswerCancel
  <2>2. stopped' \subseteq selected /\ selected' = selected
    BY <1>1 DEF AnswerCancel, At, ControlOK, SelectionOK, Adding
  <2> QED
    BY <1>1, <2>1, <2>2 DEF AnswerCancel, At, GoTo, fileVars, KeepTree, treeVars,
       ControlOK, LoopsOK, SelectionOK, Adding, DialogOK
<1> QED
  BY <1>2, <1>3, <1>4, NewParts

LEMMA ListChildrenInv == IInv /\ ListChildren => IInv'
<1> SUFFICES ASSUME IInv, ListChildren PROVE IInv'
  OBVIOUS
<1>1. TreeOK /\ ListOK /\ ControlOK /\ DialogOK
  BY InvParts
<1>2. TreeOK' /\ ListOK'
  BY <1>1, KeepTreeLemma, KeepListLemma DEF ListChildren, At
<1>3. ControlOK'
  <2>1. stack \in Seq(SUBSET Paths) /\ current \in Paths
    BY <1>1 DEF ControlOK
  <2>2. stack' \in Seq(SUBSET Paths)
    <3>1. {<<c, Way(current)>> : c \in ChildrenOf(current[1])} \in SUBSET Paths
      BY <1>1, <2>1, WayIsWay DEF ControlOK, ChildrenOf, Paths
    <3> QED
      BY <2>1, <3>1 DEF ListChildren
  <2> QED
    BY <1>1, <2>2 DEF ListChildren, At, GoTo, KeepTree, treeVars, fileVars, KeepSelection,
       ControlOK, LoopsOK, SelectionOK, Adding
<1>4. DialogOK'
  BY DEF ListChildren, At, GoTo, DialogOK
<1> QED
  BY <1>2, <1>3, <1>4, NewParts

LEMMA NextChildInv == IInv /\ NextChild => IInv'
<1> SUFFICES ASSUME IInv, NextChild PROVE IInv'
  OBVIOUS
<1>1. TreeOK /\ ListOK /\ ControlOK /\ DialogOK
  BY InvParts
<1>2. TreeOK' /\ ListOK'
  BY <1>1, KeepTreeLemma, KeepListLemma DEF NextChild, At
<1>3. ControlOK'
  <2>1. stack \in Seq(SUBSET Paths) /\ current \in Paths
    BY <1>1 DEF ControlOK
  <2>2. stack' \in Seq(SUBSET Paths) /\ current' \in Paths
    <3>1. Level \in 1 .. Len(stack)
      <4>1. stack # <<>>
        BY DEF NextChild
      <4> QED
        BY <2>1, <4>1 DEF Level
    <3>2. stack[Level] \in SUBSET Paths
      BY <2>1, <3>1
    <3>3. PICK p \in stack[Level] :
            current' = p /\ stack' = [stack EXCEPT ![Level] = @ \ {p}]
      BY DEF NextChild
    <3>4. stack[Level] \ {p} \in SUBSET Paths
      BY <3>2
    <3>5. stack' \in Seq(SUBSET Paths)
      BY <2>1, <3>1, <3>3, <3>4
    <3> QED
      BY <3>2, <3>3, <3>5
  <2> QED
    BY <1>1, <2>2 DEF NextChild, At, GoTo, KeepTree, treeVars, fileVars, KeepSelection,
       ControlOK, LoopsOK, SelectionOK, Adding
<1>4. DialogOK'
  BY DEF NextChild, At, GoTo, DialogOK
<1> QED
  BY <1>2, <1>3, <1>4, NewParts

LEMMA ReturnFromCallInv == IInv /\ ReturnFromCall => IInv'
<1> SUFFICES ASSUME IInv, ReturnFromCall PROVE IInv'
  OBVIOUS
<1>1. TreeOK /\ ListOK /\ ControlOK /\ DialogOK
  BY InvParts
<1>2. TreeOK' /\ ListOK'
  BY <1>1, KeepTreeLemma, KeepListLemma DEF ReturnFromCall, At
<1>3. ControlOK'
  <2>1. stack \in Seq(SUBSET Paths) /\ current \in Paths
    BY <1>1 DEF ControlOK
  <2>2. stack' \in Seq(SUBSET Paths)
    <3>1. CASE stack # <<>> /\ stack' = SubSeq(stack, 1, Level - 1)
      <4>1. Len(stack) \in Nat /\ Len(stack) > 0
        BY <2>1, <3>1
      <4> QED
        BY <2>1, <3>1, <4>1 DEF Level
    <3> QED
      BY <2>1, <3>1 DEF ReturnFromCall
  <2> QED
    BY <1>1, <2>2 DEF ReturnFromCall, At, GoTo, KeepTree, treeVars, fileVars, KeepSelection,
       ControlOK, LoopsOK, SelectionOK, Adding
<1>4. DialogOK'
  BY DEF ReturnFromCall, At, GoTo, DialogOK
<1> QED
  BY <1>2, <1>3, <1>4, NewParts

LEMMA NextInv == IInv /\ [Next]_vars => IInv'
<1> SUFFICES ASSUME IInv, [Next]_vars PROVE IInv'
  OBVIOUS
<1>1. CASE \E e \in Entries \ {Root} : Create(e) \/ Remove(e)
  BY <1>1, ChangeInv
<1>2. CASE FindMusic \/ Descend \/ ChildMissing \/ ExpandNext \/ TreeWillExpand
  BY <1>2, FindMusicInv, DescendInv, ChildMissingInv, ExpandNextInv, TreeWillExpandInv
<1>3. CASE AddTreeSelection \/ NextSelected \/ AllSelectedAdded
  BY <1>3, AddTreeSelectionInv, NextSelectedInv, AllSelectedAddedInv
<1>4. CASE SetStatus \/ ListIsNull
  BY <1>4, EndOfHandlerInv DEF SetStatus, ListIsNull
<1>5. CASE ClearList \/ PassOver \/ AddFile \/ AskUser \/ AnswerOk \/ AnswerCancel
  BY <1>5, ClearListInv, PassOverInv, AddFileInv, AskUserInv, AnswerOkInv, AnswerCancelInv
<1>6. CASE EnterDirectory \/ ListChildren \/ NextChild \/ ReturnFromCall
  BY <1>6, EnterDirectoryInv, ListChildrenInv, NextChildInv, ReturnFromCallInv
<1>7. CASE UNCHANGED vars
  BY <1>7 DEF vars, fileVars, treeVars, addVars, listVars, IInv, TypeOK, LoopsOK,
     DialogOK, SelectionOK, Adding, NodesOK, NoDuplicates, LongListAsked, TreeIsAhead,
     Leaf, IsListed
<1> QED
  BY <1>1, <1>2, <1>3, <1>4, <1>5, <1>6, <1>7 DEF Next

\* The invariant: the types, what each loop and the question rely on, the nodes
\* of the tree, and the three properties below.
THEOREM CopyListInvariant == Spec => []IInv
BY InitInv, NextInv, PTL DEF Spec

\* The variables of the window have their types: in the copy list are mp3 files only.
THEOREM ListTypeCorrect == Spec => []TypeOK
<1>1. IInv => TypeOK
  BY DEF IInv
<1> QED
  BY <1>1, CopyListInvariant, PTL

\* The list does not get longer than WarnAt before the user has been asked,
\* although addNodeToList() tests for this one length.
THEOREM UserAskedBeforeLong == Spec => []LongListAsked
<1>1. IInv => LongListAsked
  BY DEF IInv
<1> QED
  BY <1>1, CopyListInvariant, PTL

\* What the user can see and has not gone away can be opened.
THEOREM TreeAheadOfUser == Spec => []TreeIsAhead
<1>1. IInv => TreeIsAhead
  BY DEF IInv
<1> QED
  BY <1>1, CopyListInvariant, PTL

-----------------------------------------------------------------------------
(* What is below a selected node is added                                  *)

Busy == Adding \/ pc \in {"select", "status"}

Listed(f) == \E i \in DOMAIN listModel : listModel[i][1] = f

\* the files that have to be added when s is selected
Wanted(s) ==
  {f \in (Mp3 \cap fs) \ Dirs : s[1] \in Above[f] /\ Above[f] \cap touched = {}}

\* addNodeToList() is on its way to f
Pending(f) ==
  \/ pc \in {"call", "dialog", "list"} /\ current[1] \in Above[f]
  \/ \E l \in DOMAIN stack : \E p \in stack[l] : p[1] \in Above[f]

AddInv ==
  /\ Closed(fs)
  /\ Busy => selected # {}
  /\ pc = "status" => sel = {}
  /\ pc = "list" => current[1] \in Dirs
  /\ pc = "dialog" => current[1] \notin Dirs
  /\ Busy => \A s \in selected \ stopped : \A f \in Wanted(s) :
       Listed(f) \/ s \in sel \/ (Adding /\ s = top /\ Pending(f))

\* Above[f] is the least set that is closed.
LEMMA AboveLeast ==
  ASSUME NEW f \in Entries
  PROVE  /\ f \in Above[f] /\ Above[f] \subseteq Entries
         /\ Closed(Above[f])
         /\ \A S \in SUBSET Entries : f \in S /\ Closed(S) => Above[f] \subseteq S
<1>1. Above[f] = {x \in Entries :
        \A S \in SUBSET Entries : f \in S /\ Closed(S) => x \in S}
  BY DEF Above
<1>2. ASSUME NEW x \in Above[f] \ {Root} PROVE Parent[x] \in Above[f]
  <2>1. x \in Entries \ {Root} /\ Parent[x] \in Entries
    BY <1>1, ListAssumption DEF ListAssumption
  <2>2. ASSUME NEW S \in SUBSET Entries, f \in S, Closed(S)
        PROVE  Parent[x] \in S
    BY <1>1, <2>1, <2>2 DEF Closed
  <2> QED
    BY <1>1, <2>1, <2>2
<1> QED
  BY <1>1, <1>2 DEF Closed

\* The directories on the way to f: each one has the next one among its children.
LEMMA NextBelow ==
  ASSUME NEW f \in Entries, NEW d \in Above[f], d # f
  PROVE  \E c \in Above[f] \ {Root} : Parent[c] = d
<1> SUFFICES ASSUME \A c \in Above[f] \ {Root} : Parent[c] # d PROVE FALSE
  OBVIOUS
<1>1. Above[f] \subseteq Entries /\ f \in Above[f] /\ Closed(Above[f])
  BY AboveLeast
<1>2. Closed(Above[f] \ {d})
  BY <1>1 DEF Closed
<1>3. Above[f] \subseteq Above[f] \ {d}
  BY <1>1, <1>2, AboveLeast
<1> QED
  BY <1>3

\* All that is above f but f itself are directories.
LEMMA AboveAreDirs ==
  ASSUME NEW f \in Entries, NEW d \in Above[f], d # f
  PROVE  d \in Dirs
<1>1. Closed({f} \cup Dirs) /\ {f} \cup Dirs \in SUBSET Entries
  BY ListAssumption DEF ListAssumption, Closed
<1> QED
  BY <1>1, AboveLeast

\* What has something above it that is in the file system is there as well.
LEMMA AbovePresent ==
  ASSUME fs \subseteq Entries, Closed(fs), NEW f \in fs
  PROVE  Above[f] \subseteq fs
BY AboveLeast

\* The file system is closed, whatever is created and removed.
LEMMA ChangeClosed ==
  ASSUME fs \subseteq Entries, Closed(fs), NEW e \in Entries \ {Root},
         Create(e) \/ Remove(e)
  PROVE  Closed(fs')
<1>1. CASE Create(e)
  BY <1>1 DEF Create, Closed
<1>2. CASE Remove(e)
  <2> SUFFICES ASSUME NEW x \in fs', x # Root PROVE Parent[x] \in fs'
    BY DEF Closed
  <2>1. fs' = fs \ {y \in fs : e \in Above[y]}
    BY <1>2 DEF Remove
  <2>2. x \in fs /\ e \notin Above[x] /\ Parent[x] \in fs /\ x \in Entries
    BY <2>1 DEF Closed
  <2>3. Above[Parent[x]] \subseteq Above[x]
    <3>1. Above[x] \in SUBSET Entries /\ Closed(Above[x]) /\ x \in Above[x]
      BY <2>2, AboveLeast
    <3>2. Parent[x] \in Above[x]
      BY <3>1 DEF Closed
    <3> QED
      BY <2>2, <3>1, <3>2, AboveLeast
  <2> QED
    BY <2>1, <2>2, <2>3
<1> QED
  BY <1>1, <1>2

LEMMA AddInit == Init => AddInv
<1> SUFFICES ASSUME Init PROVE AddInv
  OBVIOUS
<1>1. Closed(fs)
  <2> SUFFICES ASSUME NEW e \in fs, e # Root PROVE Parent[e] \in fs
    BY DEF Closed
  <2>1. e \in Entries /\ Above[e] \subseteq fs
    BY DEF Init
  <2> QED
    BY <2>1, AboveLeast DEF Closed
<1> QED
  BY <1>1 DEF Init, AddInv, Busy, Adding

\* What a step of the handler has to show.
Onward(s, f) ==
  (Listed(f) \/ s \in sel \/ (Adding /\ s = top /\ Pending(f)))
    => (Listed(f)' \/ s \in sel' \/ (Adding' /\ s = top' /\ Pending(f)'))

LEMMA AddKeeps ==
  ASSUME AddInv, Busy, UNCHANGED fileVars, selected' = selected,
         stopped \subseteq stopped',
         pc' = "status" => sel' = {},
         pc' = "list" => current'[1] \in Dirs,
         pc' = "dialog" => current'[1] \notin Dirs,
         \A s \in selected \ stopped' : \A f \in Wanted(s) : Onward(s, f)
  PROVE  AddInv'
<1>1. fs' = fs /\ touched' = touched
  BY DEF fileVars
<1>2. \A s : Wanted(s)' = Wanted(s)
  BY <1>1 DEF Wanted
<1>3. Closed(fs)' /\ selected' # {}
  BY <1>1 DEF AddInv, Closed
<1>4. \A s \in selected' \ stopped' : \A f \in Wanted(s)' :
        Listed(f)' \/ s \in sel' \/ (Adding' /\ s = top' /\ Pending(f)')
  BY <1>2 DEF AddInv, Onward
<1> QED
  BY <1>3, <1>4 DEF AddInv

\* What is wanted is a file in the file system, with all that is above it; and
\* what is above it but itself is a directory.
LEMMA WantedIs ==
  ASSUME IInv, AddInv, NEW s, NEW f \in Wanted(s)
  PROVE  /\ f \in Mp3 /\ f \in fs \ Dirs /\ f \in Entries
         /\ Above[f] \subseteq fs
         /\ \A x \in Above[f] : x = f \/ x \in Dirs
<1>1. f \in Mp3 /\ f \in fs \ Dirs /\ f \in Entries /\ fs \subseteq Entries
  BY DEF Wanted, IInv, TypeOK
<1>2. Above[f] \subseteq fs
  BY <1>1, AbovePresent DEF AddInv
<1> QED
  BY <1>1, <1>2, AboveAreDirs

\* The file system changes: what is wanted afterwards was wanted before.
LEMMA AddChange ==
  ASSUME IInv, AddInv, NEW e \in Entries \ {Root}, Create(e) \/ Remove(e)
  PROVE  AddInv'
<1>1. fs \subseteq Entries
  BY DEF IInv, TypeOK
<1>2. Closed(fs')
  BY <1>1, ChangeClosed DEF AddInv
<1>3. UNCHANGED <<addVars, listVars, pc>>
  BY DEF Create, Remove, Change
<1>4. ASSUME Busy, NEW s, NEW f \in Wanted(s)'
      PROVE  f \in Wanted(s)
  <2>1. selected # {}
    BY <1>4 DEF AddInv
  <2>2. CASE Create(e)
    <3>1. fs' = fs \cup {e} /\ touched' = touched \cup {e}
      BY <2>1, <2>2 DEF Create, Change
    <3>2. f # e
      BY <1>4, <3>1, AboveLeast DEF Wanted
    <3> QED
      BY <1>4, <3>1, <3>2 DEF Wanted
  <2>3. CASE Remove(e)
    <3>1. fs' \subseteq fs /\ touched \subseteq touched'
      BY <2>1, <2>3 DEF Remove, Change
    <3> QED
      BY <1>4, <3>1 DEF Wanted
  <2> QED
    BY <2>2, <2>3
<1>5. Busy' => Busy /\ selected' # {} /\ \A s \in selected' \ stopped' : \A f \in Wanted(s)' :
        Listed(f)' \/ s \in sel' \/ (Adding' /\ s = top' /\ Pending(f)')
  <2> SUFFICES ASSUME Busy'
               PROVE Busy /\ selected' # {} /\ \A s \in selected' \ stopped' : \A f \in Wanted(s)' :
                 Listed(f)' \/ s \in sel' \/ (Adding' /\ s = top' /\ Pending(f)')
    OBVIOUS
  <2>1. Busy
    BY <1>3 DEF Busy, Adding
  <2>2. \A f : (Listed(f)' <=> Listed(f)) /\ (Pending(f)' <=> Pending(f))
    BY <1>3 DEF Listed, Pending, addVars, listVars
  <2> QED
    BY <1>3, <1>4, <2>1, <2>2 DEF AddInv, addVars, Adding
<1> QED
  BY <1>2, <1>3, <1>5 DEF AddInv, addVars

\* Outside of the handler nothing is claimed.
LEMMA AddElsewhere ==
  ASSUME AddInv, fs' = fs, pc' \in {"start", "navigate", "lost", "expand", "idle"}
  PROVE  AddInv'
BY DEF AddInv, Closed, Busy, Adding

LEMMA AddSelects == IInv /\ AddInv /\ AddTreeSelection => AddInv'
<1> SUFFICES ASSUME IInv, AddInv, AddTreeSelection PROVE AddInv'
  OBVIOUS
<1>1. fs' = fs /\ pc' = "select" /\ selected' = sel'
  BY DEF AddTreeSelection, fileVars, GoTo
<1>2. sel' # {}
  BY DEF AddTreeSelection
<1> QED
  BY <1>1, <1>2 DEF AddInv, Closed, Busy, Adding

LEMMA AddNextSelected == IInv /\ AddInv /\ NextSelected => AddInv'
<1> SUFFICES ASSUME IInv, AddInv, NextSelected PROVE AddInv'
  OBVIOUS
<1>1. /\ pc = "select" /\ pc' = "call" /\ UNCHANGED <<fileVars, stack, selected, stopped, listModel>>
      /\ \E p \in sel : top' = p /\ current' = p /\ sel' = sel \ {p}
  BY DEF NextSelected, At, GoTo, KeepList, listVars
<1>2. ASSUME NEW s \in selected \ stopped', NEW f \in Wanted(s)
      PROVE  Onward(s, f)
  <2>1. s[1] \in Above[f]
    BY DEF Wanted
  <2>2. Listed(f) => Listed(f)'
    BY <1>1 DEF Listed
  <2>3. CASE s = top'
    BY <1>1, <2>1, <2>3 DEF Onward, Adding, Pending
  <2>4. CASE s # top'
    BY <1>1, <2>2, <2>4 DEF Onward, Adding
  <2> QED
    BY <2>3, <2>4
<1>3. Busy /\ selected' = selected /\ stopped \subseteq stopped' /\ UNCHANGED fileVars
  BY <1>1 DEF Busy
<1> QED
  BY <1>1, <1>2, <1>3, AddKeeps

LEMMA AddAllSelected == IInv /\ AddInv /\ AllSelectedAdded => AddInv'
<1> SUFFICES ASSUME IInv, AddInv, AllSelectedAdded PROVE AddInv'
  OBVIOUS
<1>1. /\ pc = "select" /\ pc' = "status" /\ UNCHANGED <<fileVars, selected, stopped, sel, listModel>>
      /\ sel = {}
  BY DEF AllSelectedAdded, At, GoTo, KeepList, listVars, KeepSelection
<1>2. ASSUME NEW s \in selected \ stopped', NEW f \in Wanted(s)
      PROVE  Onward(s, f)
  BY <1>1 DEF Onward, Adding, Listed
<1>3. Busy /\ selected' = selected /\ stopped \subseteq stopped' /\ UNCHANGED fileVars
  BY <1>1 DEF Busy
<1> QED
  BY <1>1, <1>2, <1>3, AddKeeps

\* What is appended is listed, and what was stays so.
LEMMA AppendLists ==
  ASSUME listModel \in Seq(ListedPaths), current \in Paths, current[1] \in Mp3,
         listModel' = Append(listModel, current), current' = current
  PROVE  Listed(current[1])' /\ \A f : Listed(f) => Listed(f)'
<1>1. current \in ListedPaths
  BY DEF ListedPaths, Paths
<1>2. /\ DOMAIN listModel = 1 .. Len(listModel) /\ Len(listModel) \in Nat
      /\ DOMAIN listModel' = 1 .. Len(listModel) + 1
  BY <1>1
<1>3. \A i \in 1 .. Len(listModel) : listModel'[i] = listModel[i]
  BY <1>1
<1>4. listModel'[Len(listModel) + 1] = current
  BY <1>1
<1>5. \E i \in DOMAIN listModel' : listModel'[i] = current
  BY <1>2, <1>4
<1>6. \E i \in DOMAIN listModel' : listModel'[i][1] = current[1]
  BY <1>5
<1>7. ASSUME NEW f, NEW i \in DOMAIN listModel, listModel[i][1] = f
      PROVE  \E j \in DOMAIN listModel' : listModel'[j][1] = f
  <2>1. i \in DOMAIN listModel' /\ listModel'[i] = listModel[i]
    BY <1>2, <1>3
  <2> QED
    BY <1>7, <2>1
<1>8. Listed(current[1])'
  BY <1>6 DEF Listed
<1> QED
  BY <1>7, <1>8 DEF Listed

LEMMA AddPassOver == IInv /\ AddInv /\ PassOver => AddInv'
<1> SUFFICES ASSUME IInv, AddInv, PassOver PROVE AddInv'
  OBVIOUS
<1>1. /\ pc = "call" /\ pc' = "return" /\ UNCHANGED <<fileVars, addVars, listModel>>
      /\ ~ IsDirectory(current) /\ ~ ToBeAdded
  BY DEF PassOver, InCall, At, GoTo, KeepList, listVars, KeepSelection, addVars
<1>2. ASSUME NEW s \in selected \ stopped', NEW f \in Wanted(s)
      PROVE  Onward(s, f)
  <2>1. /\ f \in Mp3 /\ f \in fs \ Dirs /\ Above[f] \subseteq fs
        /\ \A x \in Above[f] : x = f \/ x \in Dirs
    BY WantedIs
  <2>2. current[1] \in Above[f] => Listed(f)
    <3> SUFFICES ASSUME current[1] \in Above[f] PROVE Listed(f)
      OBVIOUS
    <3>1. current[1] = f
      BY <1>1, <2>1 DEF IsDirectory
    <3>2. IsListed(current)
      BY <1>1, <2>1, <3>1 DEF ToBeAdded, IsFile
    <3> QED
      BY <3>1, <3>2 DEF IsListed, Listed
  <2>3. Listed(f) => Listed(f)'
    BY <1>1 DEF Listed
  <2> QED
    BY <1>1, <2>2, <2>3 DEF Onward, Adding, Pending, addVars
<1>3. Busy /\ selected' = selected /\ stopped \subseteq stopped' /\ UNCHANGED fileVars
  BY <1>1 DEF Busy, Adding, addVars
<1> QED
  BY <1>1, <1>2, <1>3, AddKeeps

LEMMA AddAskUser == IInv /\ AddInv /\ AskUser => AddInv'
<1> SUFFICES ASSUME IInv, AddInv, AskUser PROVE AddInv'
  OBVIOUS
<1>1. /\ pc = "call" /\ pc' = "dialog" /\ UNCHANGED <<fileVars, addVars, listModel>>
      /\ ToBeAdded
  BY DEF AskUser, InCall, At, GoTo, KeepList, listVars, KeepSelection, addVars
<1>2. ASSUME NEW s \in selected \ stopped', NEW f \in Wanted(s)
      PROVE  Onward(s, f)
  BY <1>1 DEF Onward, Adding, Pending, addVars, Listed
<1>3. Busy /\ selected' = selected /\ stopped \subseteq stopped' /\ UNCHANGED fileVars
  BY <1>1 DEF Busy, Adding, addVars
<1>4. current'[1] \notin Dirs
  BY <1>1 DEF ToBeAdded, IsFile, addVars
<1> QED
  BY <1>1, <1>2, <1>3, <1>4, AddKeeps

LEMMA AddEnters == IInv /\ AddInv /\ EnterDirectory => AddInv'
<1> SUFFICES ASSUME IInv, AddInv, EnterDirectory PROVE AddInv'
  OBVIOUS
<1>1. /\ pc = "call" /\ pc' = "list" /\ UNCHANGED <<fileVars, addVars, listModel>>
      /\ IsDirectory(current)
  BY DEF EnterDirectory, InCall, At, GoTo, KeepList, listVars, KeepSelection, addVars
<1>2. ASSUME NEW s \in selected \ stopped', NEW f \in Wanted(s)
      PROVE  Onward(s, f)
  BY <1>1 DEF Onward, Adding, Pending, addVars, Listed
<1>3. Busy /\ selected' = selected /\ stopped \subseteq stopped' /\ UNCHANGED fileVars
  BY <1>1 DEF Busy, Adding, addVars
<1>4. current'[1] \in Dirs
  BY <1>1 DEF IsDirectory, addVars
<1> QED
  BY <1>1, <1>2, <1>3, <1>4, AddKeeps

\* A file that is on its way and is no directory is the one that is appended.
LEMMA AppendStep ==
  ASSUME IInv, AddInv, pc \in {"call", "dialog"}, pc' \in {"return", "select"},
         current[1] \in Mp3 \ Dirs,
         listModel' = Append(listModel, current), current' = current,
         NEW s, NEW f \in Wanted(s), s \in sel => s \in sel',
         s = top => (s = top' /\ Adding' /\ stack' = stack)
  PROVE  Onward(s, f)
<1>1. Listed(current[1])' /\ (Listed(f) => Listed(f)')
  BY AppendLists DEF IInv, TypeOK, ListedPaths
<1>2. \A x \in Above[f] : x = f \/ x \in Dirs
  BY WantedIs
<1>3. current[1] \in Above[f] => Listed(f)'
  <2> SUFFICES ASSUME current[1] \in Above[f] PROVE Listed(f)'
    OBVIOUS
  <2>1. current'[1] = f
    BY <1>2
  <2> QED
    BY <1>1, <2>1 DEF Listed
<1> QED
  BY <1>1, <1>3 DEF Onward, Pending

LEMMA AddAdds == IInv /\ AddInv /\ (AddFile \/ AnswerOk \/ AnswerCancel) => AddInv'
<1> SUFFICES ASSUME IInv, AddInv, AddFile \/ AnswerOk \/ AnswerCancel PROVE AddInv'
  OBVIOUS
<1>1. /\ pc \in {"call", "dialog"} /\ pc' \in {"return", "select"}
      /\ listModel' = Append(listModel, current)
      /\ UNCHANGED <<fileVars, sel, top, selected, current>>
  BY DEF AddFile, AnswerOk, AnswerCancel, AddAnswered, InCall, At, GoTo, KeepSelection
<1>2. current[1] \in Mp3 \ Dirs
  BY DEF AddFile, AnswerOk, AnswerCancel, InCall, At, ToBeAdded, IsFile, IInv, DialogOK,
     AddInv
<1>3. stopped \subseteq stopped'
      /\ ((pc' = "return" /\ stack' = stack) \/ stopped' = stopped \cup {top})
  BY DEF AddFile, AnswerOk, AnswerCancel, InCall, At, GoTo, KeepSelection
<1>4. ASSUME NEW s \in selected \ stopped', NEW f \in Wanted(s)
      PROVE  Onward(s, f)
  <2>1. s = top => (s = top' /\ Adding' /\ stack' = stack)
    BY <1>1, <1>3, <1>4 DEF Adding
  <2> QED
    BY <1>1, <1>2, <2>1, AppendStep
<1>5. Busy /\ selected' = selected /\ UNCHANGED fileVars
  BY <1>1 DEF Busy, Adding
<1> QED
  BY <1>1, <1>3, <1>4, <1>5, AddKeeps

LEMMA AddLists == IInv /\ AddInv /\ ListChildren => AddInv'
<1> SUFFICES ASSUME IInv, AddInv, ListChildren PROVE AddInv'
  OBVIOUS
<1> DEFINE below == {<<c, Way(current)>> : c \in ChildrenOf(current[1])}
<1>1. /\ pc = "list" /\ pc' = "return" /\ stack' = Append(stack, below)
      /\ UNCHANGED <<fileVars, sel, top, selected, stopped, current, listModel>>
  BY DEF ListChildren, At, GoTo, KeepList, listVars, KeepSelection
<1>2. below \in SUBSET Paths /\ stack \in Seq(SUBSET Paths)
  <2>1. fs \subseteq Entries /\ current \in Paths
    BY DEF IInv, TypeOK
  <2> QED
    BY <2>1, WayIsWay DEF IInv, TypeOK, ChildrenOf, Paths
<1>3. /\ \A l \in DOMAIN stack : l \in DOMAIN stack' /\ stack'[l] = stack[l]
      /\ Len(stack) + 1 \in DOMAIN stack' /\ stack'[Len(stack) + 1] = below
  <2>1. DOMAIN stack = 1 .. Len(stack) /\ Len(stack) \in Nat
        /\ DOMAIN stack' = 1 .. Len(stack) + 1
    BY <1>1, <1>2
  <2>2. \A l \in 1 .. Len(stack) : stack'[l] = stack[l]
    BY <1>1, <1>2
  <2>3. stack'[Len(stack) + 1] = below
    BY <1>1, <1>2
  <2> QED
    BY <2>1, <2>2, <2>3
<1>4. ASSUME NEW s \in selected \ stopped', NEW f \in Wanted(s)
      PROVE  Onward(s, f)
  <2>1. /\ f \in Entries /\ f \in fs \ Dirs /\ Above[f] \subseteq fs
    BY WantedIs
  <2>2. CASE current[1] \in Above[f]
    <3>1. current[1] # f
      BY <1>1, <2>1 DEF AddInv
    <3>2. PICK c \in Above[f] \ {Root} : Parent[c] = current[1]
      BY <2>1, <2>2, <3>1, NextBelow
    <3>3. <<c, Way(current)>> \in below
      BY <2>1, <3>2 DEF ChildrenOf
    <3>4. \E p \in below : p[1] \in Above[f]
      BY <3>2, <3>3
    <3>5. Pending(f)'
      BY <1>3, <3>4 DEF Pending
    <3> QED
      BY <1>1, <3>5 DEF Onward, Adding, Listed
  <2>3. CASE current[1] \notin Above[f]
    <3>1. Pending(f) => Pending(f)'
      BY <1>3, <2>3 DEF Pending
    <3> QED
      BY <1>1, <3>1 DEF Onward, Adding, Listed
  <2> QED
    BY <2>2, <2>3
<1>5. Busy /\ selected' = selected /\ stopped \subseteq stopped' /\ UNCHANGED fileVars
  BY <1>1 DEF Busy, Adding
<1> QED
  BY <1>1, <1>4, <1>5, AddKeeps

LEMMA AddNextChild == IInv /\ AddInv /\ NextChild => AddInv'
<1> SUFFICES ASSUME IInv, AddInv, NextChild PROVE AddInv'
  OBVIOUS
<1>1. /\ pc = "return" /\ pc' = "call" /\ stack # <<>>
      /\ UNCHANGED <<fileVars, sel, top, selected, stopped, listModel>>
  BY DEF NextChild, At, GoTo, KeepList, listVars, KeepSelection
<1>2. PICK p \in stack[Level] :
        current' = p /\ stack' = [stack EXCEPT ![Level] = @ \ {p}]
  BY DEF NextChild
<1>3. stack \in Seq(SUBSET Paths) /\ Level \in DOMAIN stack
  <2>1. stack \in Seq(SUBSET Paths)
    BY DEF IInv, TypeOK
  <2> QED
    BY <1>1, <2>1 DEF Level
<1>4. /\ DOMAIN stack' = DOMAIN stack
      /\ \A l \in DOMAIN stack : stack'[l] = IF l = Level THEN stack[l] \ {p} ELSE stack[l]
  BY <1>2, <1>3
<1>5. ASSUME NEW s \in selected \ stopped', NEW f \in Wanted(s)
      PROVE  Onward(s, f)
  <2>1. Pending(f) => Pending(f)'
    <3> SUFFICES ASSUME NEW l \in DOMAIN stack, NEW q \in stack[l], q[1] \in Above[f]
                 PROVE  Pending(f)'
      BY <1>1 DEF Pending
    <3>1. CASE q = p
      BY <1>1, <1>2, <3>1 DEF Pending
    <3>2. CASE q # p
      <4>1. l \in DOMAIN stack' /\ q \in stack'[l]
        BY <1>4, <3>2
      <4> QED
        BY <4>1 DEF Pending
    <3> QED
      BY <3>1, <3>2
  <2> QED
    BY <1>1, <2>1 DEF Onward, Adding, Listed
<1>6. Busy /\ selected' = selected /\ stopped \subseteq stopped' /\ UNCHANGED fileVars
  BY <1>1 DEF Busy, Adding
<1> QED
  BY <1>1, <1>5, <1>6, AddKeeps

LEMMA AddReturns == IInv /\ AddInv /\ ReturnFromCall => AddInv'
<1> SUFFICES ASSUME IInv, AddInv, ReturnFromCall PROVE AddInv'
  OBVIOUS
<1>1. /\ pc = "return" /\ pc' \in {"return", "select"}
      /\ UNCHANGED <<fileVars, sel, top, selected, stopped, current, listModel>>
  BY DEF ReturnFromCall, At, GoTo, KeepList, listVars, KeepSelection
<1>2. stack \in Seq(SUBSET Paths)
  BY DEF IInv, TypeOK
<1>3. ASSUME NEW s \in selected \ stopped', NEW f \in Wanted(s)
      PROVE  Onward(s, f)
  <2>1. CASE stack = <<>>
    <3>1. ~ Pending(f)
      BY <1>1, <2>1 DEF Pending
    <3> QED
      BY <1>1, <3>1 DEF Onward, Listed
  <2>2. CASE stack # <<>> /\ stack[Level] = {} /\ stack' = SubSeq(stack, 1, Level - 1)
             /\ pc' = pc
    <3>1. Len(stack) \in Nat /\ Len(stack) > 0 /\ Level = Len(stack)
          /\ DOMAIN stack = 1 .. Len(stack)
      BY <1>2, <2>2 DEF Level
    <3>2. DOMAIN stack' = 1 .. Len(stack) - 1
          /\ \A l \in 1 .. Len(stack) - 1 : stack'[l] = stack[l]
      BY <1>2, <2>2, <3>1
    <3>3. Pending(f) => Pending(f)'
      <4> SUFFICES ASSUME NEW l \in DOMAIN stack, NEW q \in stack[l], q[1] \in Above[f]
                   PROVE  Pending(f)'
        BY <1>1 DEF Pending
      <4>1. l # Level
        BY <2>2
      <4>2. l \in DOMAIN stack' /\ stack'[l] = stack[l]
        BY <3>1, <3>2, <4>1
      <4> QED
        BY <4>2 DEF Pending
    <3> QED
      BY <1>1, <2>2, <3>3 DEF Onward, Adding, Listed
  <2> QED
    BY <2>1, <2>2 DEF ReturnFromCall
<1>4. Busy /\ selected' = selected /\ stopped \subseteq stopped' /\ UNCHANGED fileVars
  BY <1>1 DEF Busy, Adding
<1> QED
  BY <1>1, <1>3, <1>4, AddKeeps

LEMMA AddNext == IInv /\ AddInv /\ [Next]_vars => AddInv'
<1> SUFFICES ASSUME IInv, AddInv, [Next]_vars PROVE AddInv'
  OBVIOUS
<1>1. CASE \E e \in Entries \ {Root} : Create(e) \/ Remove(e)
  BY <1>1, AddChange
<1>2. CASE FindMusic \/ Descend \/ ChildMissing \/ ExpandNext \/ TreeWillExpand \/ ClearList
  <2>1. fs' = fs /\ pc' \in {"start", "navigate", "lost", "expand", "idle"}
    BY <1>2 DEF FindMusic, Descend, ChildMissing, ExpandNext, TreeWillExpand, ClearList,
       At, GoTo, fileVars
  <2> QED
    BY <2>1, AddElsewhere
<1>3. CASE SetStatus \/ ListIsNull
  <2>1. fs' = fs /\ pc' = "idle"
    BY <1>3 DEF SetStatus, ListIsNull, EndOfHandler, GoTo
  <2> QED
    BY <2>1, AddElsewhere
<1>4. CASE AddTreeSelection \/ NextSelected \/ AllSelectedAdded
  BY <1>4, AddSelects, AddNextSelected, AddAllSelected
<1>5. CASE PassOver \/ AskUser \/ AddFile \/ AnswerOk \/ AnswerCancel
  BY <1>5, AddPassOver, AddAskUser, AddAdds
<1>6. CASE EnterDirectory \/ ListChildren \/ NextChild \/ ReturnFromCall
  BY <1>6, AddEnters, AddLists, AddNextChild, AddReturns
<1>7. CASE UNCHANGED vars
  BY <1>7 DEF vars, fileVars, addVars, listVars, AddInv, Closed, Busy, Adding, Wanted,
     Listed, Pending
<1> QED
  BY <1>1, <1>2, <1>3, <1>4, <1>5, <1>6, <1>7 DEF Next

\* What is selected and stays is added (addTreeSelectionToList() and the
\* recursion of addNodeToList()), whatever vanishes or appears beside it.
THEOREM SelectedIsAdded == Spec => []AllAdded
<1>1. IInv /\ AddInv => AllAdded
  <2> SUFFICES ASSUME IInv, AddInv, pc = "status", NEW s \in selected \ stopped,
                      NEW f \in (Mp3 \cap fs) \ Dirs,
                      s[1] \in Above[f] /\ Above[f] \cap touched = {}
               PROVE  \E i \in DOMAIN listModel : listModel[i][1] = f
    BY DEF AllAdded
  <2>1. f \in Wanted(s) /\ Busy /\ ~ Adding /\ sel = {}
    BY DEF Wanted, Busy, Adding, AddInv
  <2> QED
    BY <2>1 DEF AddInv, Listed
<1> QED
  BY CopyListInvariant, AddInit, AddNext, <1>1, PTL DEF Spec

-----------------------------------------------------------------------------
(* A file is listed once                                                   *)

\* What is listed, and what is still to be, has a spelling of a selected node.
WaysInv ==
  /\ \A i \in DOMAIN listModel : listModel[i][2] \in ways
  /\ ~ Adding => stack = <<>>
  /\ Adding \/ pc = "select" => \A p \in sel : Way(p) \in ways
  /\ Adding => /\ Way(current) \in ways
               /\ \A l \in DOMAIN stack : \A p \in stack[l] : Way(p) \in ways
  /\ pc = "dialog" => current[1] \notin Dirs

LEMMA WaysInit == Init => WaysInv
BY DEF Init, WaysInv, Adding

\* Nothing of this changes but the place in the handler.
LEMMA WaysKept ==
  ASSUME WaysInv, UNCHANGED <<listModel, ways, sel, stack, current>>,
         Adding' => Adding, pc' = "select" => Adding \/ pc = "select",
         pc' = "dialog" => current[1] \notin Dirs,
         ~ Adding' => ~ Adding \/ stack = <<>>
  PROVE  WaysInv'
BY DEF WaysInv

\* The handler is over.
LEMMA WaysIdle ==
  ASSUME WaysInv, UNCHANGED <<listModel, ways>> \/ listModel' = <<>>,
         stack' = <<>>, pc' \notin {"call", "dialog", "list", "return", "select"}
  PROVE  WaysInv'
BY DEF WaysInv, Adding

\* The list grows by the path under way, which is no directory.
LEMMA WaysAppend ==
  ASSUME IInv, WaysInv, pc \in {"call", "dialog"}, current[1] \notin Dirs,
         listModel' = Append(listModel, current), ways' = ways,
         pc' \in {"return", "select"}, sel' = sel, current' = current,
         (stack' = stack /\ pc' = "return") \/ stack' = <<>>
  PROVE  WaysInv'
<1>1. current \in Paths /\ listModel \in Seq(Mp3 \X Ways)
  BY DEF IInv, TypeOK
<1>2. current[2] \in ways
  BY ListAssumption DEF WaysInv, Adding, Way, ListAssumption
<1>3. \A i \in DOMAIN listModel' :
        listModel'[i] = current \/ (i \in DOMAIN listModel /\ listModel'[i] = listModel[i])
  BY <1>1
<1>4. \A i \in DOMAIN listModel' : listModel'[i][2] \in ways
  BY <1>2, <1>3 DEF WaysInv
<1> QED
  BY <1>4 DEF WaysInv, Adding

LEMMA WaysSelects == IInv /\ WaysInv /\ AddTreeSelection => WaysInv'
<1> SUFFICES ASSUME IInv, WaysInv, AddTreeSelection PROVE WaysInv'
  OBVIOUS
<1>1. /\ pc = "idle" /\ pc' = "select" /\ UNCHANGED <<listModel, stack>>
      /\ ways' = ways \cup {Way(p) : p \in sel'}
  BY DEF AddTreeSelection, GoTo
<1> QED
  BY <1>1 DEF WaysInv, Adding

LEMMA WaysNextSelected == IInv /\ WaysInv /\ NextSelected => WaysInv'
<1> SUFFICES ASSUME IInv, WaysInv, NextSelected PROVE WaysInv'
  OBVIOUS
<1>1. PICK p \in sel : current' = p /\ sel' = sel \ {p}
  BY DEF NextSelected
<1>2. pc = "select" /\ pc' = "call" /\ UNCHANGED <<listModel, ways, stack>>
  BY DEF NextSelected, At, GoTo, KeepList, listVars
<1>3. stack = <<>>
  BY <1>2 DEF WaysInv, Adding
<1> QED
  BY <1>1, <1>2, <1>3 DEF WaysInv, Adding

LEMMA WaysLists == IInv /\ WaysInv /\ ListChildren => WaysInv'
<1> SUFFICES ASSUME IInv, WaysInv, ListChildren PROVE WaysInv'
  OBVIOUS
<1> DEFINE below == {<<c, Way(current)>> : c \in ChildrenOf(current[1])}
<1>1. /\ pc = "list" /\ pc' = "return" /\ UNCHANGED <<listModel, ways, sel, current>>
      /\ stack' = Append(stack, below)
  BY DEF ListChildren, At, GoTo, KeepList, listVars, KeepSelection
<1>2. stack \in Seq(SUBSET Paths)
  BY DEF IInv, TypeOK
<1>3. \A p \in below : Way(p) = Way(current)
  BY DEF Way, ChildrenOf
<1>4. \A l \in DOMAIN stack' :
        stack'[l] = below \/ (l \in DOMAIN stack /\ stack'[l] = stack[l])
  <2> HIDE DEF below
  <2>1. PICK b : b = below
    OBVIOUS
  <2>2. stack' = Append(stack, b) /\ Len(stack) \in Nat /\ DOMAIN stack = 1 .. Len(stack)
    BY <1>1, <1>2, <2>1
  <2>3. \A l \in 1 .. Len(stack) + 1 :
          stack'[l] = b \/ (l \in 1 .. Len(stack) /\ stack'[l] = stack[l])
    BY <1>2, <2>2
  <2>4. DOMAIN stack' = 1 .. Len(stack) + 1
    BY <1>2, <2>2
  <2> QED
    BY <2>1, <2>2, <2>3, <2>4
<1>5. \A l \in DOMAIN stack' : \A p \in stack'[l] : Way(p) \in ways
  BY <1>1, <1>3, <1>4 DEF WaysInv, Adding
<1> QED
  BY <1>1, <1>5 DEF WaysInv, Adding

LEMMA WaysNextChild == IInv /\ WaysInv /\ NextChild => WaysInv'
<1> SUFFICES ASSUME IInv, WaysInv, NextChild PROVE WaysInv'
  OBVIOUS
<1>1. PICK p \in stack[Level] :
        current' = p /\ stack' = [stack EXCEPT ![Level] = @ \ {p}]
  BY DEF NextChild
<1>2. pc = "return" /\ pc' = "call" /\ UNCHANGED <<listModel, ways, sel>>
  BY DEF NextChild, At, GoTo, KeepList, listVars, KeepSelection
<1>3. Level \in DOMAIN stack
  BY DEF IInv, TypeOK, NextChild, Level
<1>4. DOMAIN stack' = DOMAIN stack /\ \A l \in DOMAIN stack : stack'[l] \subseteq stack[l]
  BY <1>1 DEF IInv, TypeOK
<1>5. Way(p) \in ways /\ \A l \in DOMAIN stack' : \A q \in stack'[l] : Way(q) \in ways
  BY <1>2, <1>3, <1>4 DEF WaysInv, Adding
<1> QED
  BY <1>1, <1>2, <1>5 DEF WaysInv, Adding

LEMMA WaysReturns == IInv /\ WaysInv /\ ReturnFromCall => WaysInv'
<1> SUFFICES ASSUME IInv, WaysInv, ReturnFromCall PROVE WaysInv'
  OBVIOUS
<1>1. pc = "return" /\ UNCHANGED <<listModel, ways, sel, current>>
  BY DEF ReturnFromCall, At, KeepList, listVars, KeepSelection
<1>2. CASE stack = <<>> /\ pc' = "select" /\ stack' = stack
  BY <1>1, <1>2 DEF WaysInv, Adding
<1>3. CASE stack # <<>> /\ stack' = SubSeq(stack, 1, Level - 1) /\ pc' = pc
  <2>1. stack \in Seq(SUBSET Paths) /\ Len(stack) \in Nat /\ Len(stack) > 0
    BY <1>3 DEF IInv, TypeOK
  <2>2. \A l \in DOMAIN stack' : l \in DOMAIN stack /\ stack'[l] = stack[l]
    BY <1>3, <2>1 DEF Level
  <2> QED
    BY <1>1, <1>3, <2>2 DEF WaysInv, Adding
<1> QED
  BY <1>2, <1>3 DEF ReturnFromCall, GoTo

LEMMA WaysNext == IInv /\ WaysInv /\ [Next]_vars => WaysInv'
<1> SUFFICES ASSUME IInv, WaysInv, [Next]_vars PROVE WaysInv'
  OBVIOUS
<1>1. CASE \E e \in Entries \ {Root} : Create(e) \/ Remove(e)
  BY <1>1, WaysKept DEF Create, Remove, Change, addVars, listVars, Adding, WaysInv
<1>2. CASE FindMusic \/ Descend \/ ChildMissing \/ ExpandNext \/ TreeWillExpand
  <2>1. /\ UNCHANGED <<listModel, ways, stack>>
        /\ pc' \in {"start", "navigate", "lost", "expand", "idle"} /\ ~ Adding
    BY <1>2 DEF FindMusic, Descend, ChildMissing, ExpandNext, TreeWillExpand, At, GoTo,
       KeepList, listVars, Adding
  <2> QED
    BY <2>1, WaysIdle DEF WaysInv
<1>3. CASE ClearList \/ SetStatus \/ ListIsNull \/ AllSelectedAdded
  <2>1. stack' = stack \/ stack' = <<>>
    BY <1>3 DEF ClearList, SetStatus, ListIsNull, EndOfHandler, AllSelectedAdded
  <2>2. stack' = <<>> \/ pc \in {"idle", "select"}
    BY <1>3 DEF ClearList, SetStatus, ListIsNull, EndOfHandler, AllSelectedAdded, At
  <2>3. /\ UNCHANGED <<listModel, ways>> \/ listModel' = <<>>
        /\ pc' \in {"idle", "status"}
    BY <1>3 DEF ClearList, SetStatus, ListIsNull, EndOfHandler, AllSelectedAdded, At,
       GoTo, KeepList, listVars
  <2> QED
    BY <2>1, <2>2, <2>3, WaysIdle DEF WaysInv, Adding
<1>4. CASE PassOver \/ EnterDirectory \/ AskUser
  <2>1. /\ UNCHANGED <<listModel, ways, sel, stack, current>>
        /\ pc = "call" /\ pc' \in {"return", "list", "dialog"}
    BY <1>4 DEF PassOver, EnterDirectory, AskUser, InCall, At, GoTo, KeepList, listVars,
       KeepSelection
  <2>2. pc' = "dialog" => current[1] \notin Dirs
    BY <1>4 DEF PassOver, EnterDirectory, AskUser, GoTo, ToBeAdded, IsFile
  <2> QED
    BY <2>1, <2>2, WaysKept DEF Adding
<1>5. CASE AddFile \/ AnswerOk \/ AnswerCancel
  <2>1. current[1] \notin Dirs
    BY <1>5 DEF AddFile, AnswerOk, AnswerCancel, At, ToBeAdded, IsFile, WaysInv
  <2> QED
    BY <1>5, <2>1, WaysAppend
       DEF AddFile, AnswerOk, AnswerCancel, AddAnswered, InCall, At, GoTo, KeepSelection
<1>6. CASE AddTreeSelection \/ NextSelected \/ ListChildren \/ NextChild \/ ReturnFromCall
  BY <1>6, WaysSelects, WaysNextSelected, WaysLists, WaysNextChild, WaysReturns
<1>7. CASE UNCHANGED vars
  BY <1>7, WaysKept DEF vars, addVars, listVars, Adding, WaysInv
<1> QED
  BY <1>1, <1>2, <1>3, <1>4, <1>5, <1>6, <1>7 DEF Next

\* A file is in the copy list once, unless nodes of several spellings have been
\* selected, whatever other programs do to the file system meanwhile: the texts
\* addNodeToList() compares are then those of one spelling.
THEOREM FilesListedOnce == Spec => []FilesOnce
<1>1. IInv /\ WaysInv => FilesOnce
  <2> SUFFICES ASSUME IInv, WaysInv, NEW w \in Ways, ways \subseteq {w},
                      NEW i \in DOMAIN listModel, NEW j \in DOMAIN listModel,
                      listModel[i][1] = listModel[j][1]
               PROVE  i = j
    BY DEF FilesOnce
  <2>1. listModel[i] \in Mp3 \X Ways /\ listModel[j] \in Mp3 \X Ways
    BY DEF IInv, TypeOK
  <2>2. listModel[i][2] = listModel[j][2]
    BY DEF WaysInv
  <2>3. listModel[i] = listModel[j]
    BY <2>1, <2>2
  <2> QED
    BY <2>3 DEF IInv, NoDuplicates
<1> QED
  BY CopyListInvariant, WaysInit, WaysNext, <1>1, PTL DEF Spec

-----------------------------------------------------------------------------
(* The start finds the way to Music                                        *)

\* a node that has been listed shows the directories, but for changes
TreeMirrors ==
  \A d \in Entries : ~ Leaf(d) =>
    \A c \in (Dirs \cap fs) \ {Root} : Parent[c] = d => c \in kids[d] \cup changed

\* the entry came or went, could not be listed, or is not there
Missed(e) == e \in unread \cup changed \cup (Entries \ fs)

StartInv ==
  /\ TreeMirrors
  /\ pc = "start" => depth = 0
  /\ pc = "navigate" /\ depth > 0 /\ Leaf(MusicPath[depth]) => Missed(MusicPath[depth])
  /\ StartFindsMusic

\* A node that gets children gets all there are; the node asked for is listed
\* unless it cannot be.
LEMMA PopulateLists ==
  ASSUME IInv, NEW d \in Entries, PopulateSubtree(d)
  PROVE  /\ \A e \in Entries :
              \/ kids'[e] = kids[e] /\ (Leaf(e)' <=> Leaf(e))
              \/ kids'[e] = Shown(e)
         /\ d \in Dirs \cap fs /\ Leaf(d) /\ Leaf(d)' => d \in unread'
<1>1. PICK U \in SUBSET (({d} \cup kids[d] \cup Shown(d)) \cap Dirs) :
        LET below == IF ~ Leaf(d) THEN {c \in kids[d] : Leaf(c)}
                     ELSE IF d \in U \/ d \notin fs THEN {} ELSE Shown(d)
            here  == IF Leaf(d) THEN {d} ELSE {}
        IN  List((here \cup below) \cap fs \cap Dirs, U)
  BY DEF PopulateSubtree
<1> DEFINE below == IF ~ Leaf(d) THEN {c \in kids[d] : Leaf(c)}
                    ELSE IF d \in U \/ d \notin fs THEN {} ELSE Shown(d)
           here == IF Leaf(d) THEN {d} ELSE {}
           L == (here \cup below) \cap fs \cap Dirs
<1>2. /\ kids' = [e \in Entries |-> IF e \in L \ U THEN Shown(e) ELSE kids[e]]
      /\ dots' = dots \cup {e \in L \ U : Shown(e) = {}}
      /\ unread' = unread \cup (L \cap U)
  BY <1>1 DEF List
<1>3. L \subseteq Entries
  BY ListAssumption DEF ListAssumption
<1>4. \A e \in Entries : e \notin L \ U => kids'[e] = kids[e] /\ (e \in dots' <=> e \in dots)
  BY <1>2
<1>5. \A e \in L \ U : kids'[e] = Shown(e) /\ ~ Leaf(e)'
  BY <1>2, <1>3 DEF Leaf
<1>6. \A e \in Entries :
        \/ kids'[e] = kids[e] /\ (Leaf(e)' <=> Leaf(e))
        \/ kids'[e] = Shown(e)
  BY <1>4, <1>5 DEF Leaf
<1>7. ASSUME d \in Dirs \cap fs, Leaf(d), Leaf(d)' PROVE d \in unread'
  <2>1. d \in L
    BY <1>7
  <2> QED
    BY <1>2, <1>5, <1>7, <2>1
<1> QED
  BY <1>6, <1>7

LEMMA MirrorsPopulate ==
  ASSUME IInv, TreeMirrors, NEW d \in Entries, PopulateSubtree(d), UNCHANGED fileVars
  PROVE  TreeMirrors'
<1>1. fs' = fs /\ changed' = changed
  BY DEF fileVars
<1> SUFFICES ASSUME NEW e \in Entries, ~ Leaf(e)',
                    NEW c \in (Dirs \cap fs) \ {Root}, Parent[c] = e
             PROVE  c \in kids'[e] \cup changed
  BY <1>1 DEF TreeMirrors
<1>2. CASE kids'[e] = kids[e] /\ (Leaf(e)' <=> Leaf(e))
  BY <1>2 DEF TreeMirrors
<1>3. CASE kids'[e] = Shown(e)
  BY <1>3 DEF Shown, ChildrenOf
<1> QED
  BY <1>2, <1>3, PopulateLists

LEMMA MirrorsExpand ==
  ASSUME IInv, TreeMirrors, NEW d \in Entries, Expand(d), UNCHANGED fileVars
  PROVE  TreeMirrors'
<1>1. CASE Leaf(d)
  BY <1>1 DEF Expand, TreeMirrors, Leaf, fileVars
<1>2. CASE ~ Leaf(d)
  BY <1>2, MirrorsPopulate DEF Expand
<1> QED
  BY <1>1, <1>2

LEMMA StartInit == Init => StartInv
<1> SUFFICES ASSUME Init PROVE StartInv
  OBVIOUS
<1>1. TreeMirrors
  BY DEF Init, TreeMirrors, Leaf, Shown, ChildrenOf
<1> QED
  BY <1>1 DEF Init, StartInv, StartFindsMusic

LEMMA StartChange ==
  ASSUME IInv, StartInv, NEW e \in Entries \ {Root}, Create(e) \/ Remove(e)
  PROVE  StartInv'
<1>1. /\ UNCHANGED <<treeVars, pc>> /\ changed \subseteq changed'
      /\ fs \cup changed \subseteq fs' \cup changed' /\ fs' \subseteq fs \cup changed'
  BY DEF Create, Remove, Change
<1>2. TreeMirrors'
  BY <1>1 DEF StartInv, TreeMirrors, Leaf, treeVars
<1>3. StartFindsMusic'
  BY <1>1 DEF StartInv, StartFindsMusic, treeVars
<1>4. pc = "navigate" /\ depth > 0 /\ Leaf(MusicPath[depth])
        => Missed(MusicPath[depth])'
  BY <1>1 DEF StartInv, Missed, treeVars
<1> QED
  BY <1>1, <1>2, <1>3, <1>4 DEF StartInv, treeVars, Leaf

LEMMA StartFinds == StartInv /\ FindMusic => StartInv'
<1> SUFFICES ASSUME StartInv, FindMusic PROVE StartInv'
  OBVIOUS
<1>1. UNCHANGED <<fileVars, treeVars>> /\ pc = "start" /\ pc' \in {"navigate", "idle"}
  BY DEF FindMusic, At, GoTo, KeepTree
<1>2. TreeMirrors'
  BY <1>1 DEF StartInv, TreeMirrors, Leaf, treeVars, fileVars
<1> QED
  BY <1>1, <1>2 DEF StartInv, StartFindsMusic, treeVars, fileVars

\* The node gets the children there are, unless it has gone or cannot be listed.
LEMMA DescendLists ==
  ASSUME IInv, StartInv, Descend, NEW d \in Dirs, d = MusicPath[depth + 1],
         depth + 1 \in 1 .. Len(MusicPath)
  PROVE  TreeMirrors' /\ (Leaf(d)' => Missed(d)')
<1>1. /\ pc = "navigate" /\ UNCHANGED fileVars /\ PopulateSubtree(d)
  BY DEF Descend, At
<1>2. d \in Entries
  BY ListAssumption DEF ListAssumption
<1>3. TreeMirrors'
  BY <1>1, <1>2, MirrorsPopulate DEF StartInv
<1>4. fs' = fs /\ changed' = changed
  BY <1>1 DEF fileVars
<1>5. ASSUME Leaf(d)' PROVE Missed(d)'
  <2>1. CASE d \notin fs
    BY <1>2, <1>4, <2>1 DEF Missed
  <2>2. CASE d \in fs /\ Leaf(d)
    BY <1>1, <1>2, <1>5, <2>2, PopulateLists DEF Missed
  <2>3. CASE ~ Leaf(d)
    BY <1>1, <1>2, <1>5, <2>3, PopulateEffect DEF InTree
  <2> QED
    BY <2>1, <2>2, <2>3
<1> QED
  BY <1>3, <1>5

LEMMA StartDescends == IInv /\ StartInv /\ Descend => StartInv'
<1> SUFFICES ASSUME IInv, StartInv, Descend PROVE StartInv'
  OBVIOUS
<1>1. /\ pc = "navigate" /\ pc' = "navigate" /\ UNCHANGED fileVars
      /\ depth' = depth + 1
  BY DEF Descend, At
<1>2. depth + 1 \in 1 .. Len(MusicPath) /\ MusicPath[depth + 1] \in Dirs
  <2>1. depth \in 0 .. Len(MusicPath) /\ depth < Len(MusicPath) /\ Len(MusicPath) \in Nat
    BY ListAssumption DEF IInv, TypeOK, Descend, ListAssumption
  <2>2. depth + 1 \in 1 .. Len(MusicPath)
    BY <2>1
  <2> QED
    BY <2>2, ListAssumption DEF ListAssumption
<1>3. PICK d \in Dirs : d = MusicPath[depth + 1]
  BY <1>2
<1>4. TreeMirrors' /\ (Leaf(d)' => Missed(d)')
  BY <1>2, <1>3, DescendLists
<1>5. MusicPath[depth'] = d
  BY <1>1, <1>3
<1>6. (Leaf(MusicPath[depth]))' => (Missed(MusicPath[depth]))'
  BY <1>4, <1>5 DEF Leaf, Missed
<1>7. fs' = fs /\ changed' = changed
  BY <1>1 DEF fileVars
<1> QED
  BY <1>1, <1>4, <1>6, <1>7 DEF StartInv, StartFindsMusic

LEMMA StartLost == IInv /\ StartInv /\ ChildMissing => StartInv'
<1> SUFFICES ASSUME IInv, StartInv, ChildMissing PROVE StartInv'
  OBVIOUS
<1>1. /\ pc = "navigate" /\ pc' = "lost" /\ UNCHANGED <<fileVars, treeVars>>
      /\ 0 < depth /\ depth < Len(MusicPath)
      /\ MusicPath[depth + 1] \notin kids[MusicPath[depth]]
  BY DEF ChildMissing, At, GoTo, KeepTree
<1>2. TreeMirrors'
  BY <1>1 DEF StartInv, TreeMirrors, Leaf, treeVars, fileVars
<1>3. /\ depth \in 1 .. Len(MusicPath) - 1 /\ depth \in 1 .. Len(MusicPath)
      /\ depth + 1 \in 1 .. Len(MusicPath)
  BY <1>1, ListAssumption DEF IInv, TypeOK, ListAssumption
<1>4. \E i \in DOMAIN MusicPath : Missed(MusicPath[i])
  <2> DEFINE d == MusicPath[depth]
             c == MusicPath[depth + 1]
  <2>1. /\ d \in Dirs /\ c \in Dirs /\ d \in Entries /\ c # Root /\ Parent[c] = d
        /\ DOMAIN MusicPath = 1 .. Len(MusicPath)
    BY <1>3, ListAssumption DEF ListAssumption
  <2>2. CASE Leaf(d)
    BY <1>1, <1>3, <2>1, <2>2 DEF StartInv
  <2>3. CASE ~ Leaf(d)
    <3>1. c \notin fs \/ c \in changed
      BY <1>1, <2>1, <2>3 DEF StartInv, TreeMirrors
    <3>2. c \in Entries
      BY <2>1, ListAssumption DEF ListAssumption
    <3> QED
      BY <1>3, <2>1, <3>1, <3>2 DEF Missed
  <2> QED
    BY <2>2, <2>3
<1>5. unread' = unread /\ changed' = changed /\ fs' = fs
  BY <1>1 DEF treeVars, fileVars
<1> QED
  BY <1>1, <1>2, <1>4, <1>5 DEF StartInv, StartFindsMusic, Missed

LEMMA StartExpands ==
  ASSUME IInv, StartInv, ExpandNext \/ TreeWillExpand
  PROVE  StartInv'
<1>1. pc' \in {"idle", "expand"} /\ UNCHANGED fileVars
  BY DEF ExpandNext, TreeWillExpand, At, GoTo
<1>2. PICK d \in Entries : Expand(d)
  <2>1. CASE ExpandNext
    <3>0. Len(MusicPath) \in Nat \ {0}
      BY ListAssumption DEF ListAssumption
    <3>1. /\ depth \in 0 .. Len(MusicPath)
          /\ Expand(MusicPath[Len(MusicPath) - depth + 1])
          /\ depth > 0
      BY <2>1, <3>0 DEF IInv, TypeOK, LoopsOK, ExpandNext, At
    <3>2. Len(MusicPath) - depth + 1 \in 1 .. Len(MusicPath)
      BY <3>0, <3>1
    <3> QED
      BY <3>1, <3>2, ListAssumption DEF ListAssumption
  <2>2. CASE TreeWillExpand
    BY <2>2, ListAssumption DEF IInv, TypeOK, TreeWillExpand, ListAssumption
  <2> QED
    BY <2>1, <2>2
<1>3. TreeMirrors'
  BY <1>1, <1>2, MirrorsExpand DEF StartInv
<1> QED
  BY <1>1, <1>3 DEF StartInv, StartFindsMusic

\* What is neither of the start nor of the tree leaves all this alone.
LEMMA StartKept ==
  ASSUME StartInv, UNCHANGED <<fs, changed, treeVars>>,
         pc' = pc \/ pc' \notin {"start", "navigate", "lost"}
  PROVE  StartInv'
<1>1. TreeMirrors'
  BY DEF StartInv, TreeMirrors, Leaf, treeVars
<1> QED
  BY <1>1 DEF StartInv, StartFindsMusic, Missed, treeVars, Leaf

LEMMA StartNext == IInv /\ StartInv /\ [Next]_vars => StartInv'
<1> SUFFICES ASSUME IInv, StartInv, [Next]_vars PROVE StartInv'
  OBVIOUS
<1>1. ASSUME NEW e \in Entries \ {Root}, Create(e) \/ Remove(e) PROVE StartInv'
  BY <1>1, StartChange
<1>2. CASE FindMusic \/ Descend \/ ChildMissing \/ ExpandNext \/ TreeWillExpand
  BY <1>2, StartFinds, StartDescends, StartLost, StartExpands
<1>3. CASE AddTreeSelection \/ NextSelected \/ AllSelectedAdded \/ SetStatus \/ ClearList
  BY <1>3, StartKept
     DEF AddTreeSelection, NextSelected, AllSelectedAdded, SetStatus, ClearList,
         EndOfHandler, GoTo, At, KeepTree, fileVars
<1>4. CASE PassOver \/ AddFile \/ AskUser \/ AnswerOk \/ AnswerCancel
  BY <1>4, StartKept
     DEF PassOver, AddFile, AskUser, AnswerOk, AnswerCancel, InCall, GoTo, At, KeepTree,
         fileVars
<1>5. CASE EnterDirectory \/ ListChildren \/ ListIsNull \/ NextChild \/ ReturnFromCall
  BY <1>5, StartKept
     DEF EnterDirectory, ListChildren, ListIsNull, NextChild, ReturnFromCall,
         EndOfHandler, InCall, GoTo, At, KeepTree, fileVars
<1>6. CASE UNCHANGED vars
  BY <1>6, StartKept DEF vars, fileVars
<1> QED
  BY <1>1, <1>2, <1>3, <1>4, <1>5, <1>6 DEF Next

\* The program starts where the directories are there by the names it builds: the
\* constructor loses the way to Music only when one of them is not, came or went
\* meanwhile, or could not be listed.
THEOREM WayToMusicFound == Spec => []StartFindsMusic
<1>1. Init => IInv
  BY InitInv
<1>2. Spec => []IInv
  BY CopyListInvariant
<1>3. StartInv => StartFindsMusic
  BY DEF StartInv
<1> QED
  BY <1>1, <1>2, <1>3, StartInit, StartNext, PTL DEF Spec
=============================================================================
