----------------------------- MODULE CopyList ------------------------------
(***************************************************************************)
(* The file tree and the copy list of the window (src/mtpretag/            *)
(* MtpRetag.java): populateSubtree(), navigateTreeToPath(), and            *)
(* addTreeSelectionToList() with the recursion of addNodeToList().         *)
(*                                                                         *)
(* All of it runs on the event dispatch thread, against a file system      *)
(* other programs change between any two of its requests.  The recursion   *)
(* is a stack of the children that are still to come on each level.        *)
(***************************************************************************)
EXTENDS Naturals, Sequences

CONSTANTS
  Entries,    \* what may be in the file system,
  Dirs,       \*   the directories among it,
  Mp3,        \*   and what has a name that ends with mp3
  Root,       \* the drive
  Parent,     \* Parent[e]: the directory of e
  Key,        \* Key[e]: what Windows compares of the path of e, which leaves
              \*   out the case of its letters; entries with one key are the
              \*   spellings of one path, as a file or as a directory
  MusicPath,  \* the directories from Root to the folder Music of the user, by
              \*   the names the program builds
  WarnAt,     \* WARNING_NUMBER_OF_FILES
  MaxChanges, \* bound: changes of the file system
  MaxClicks   \* bound: clicks on the button Add

\* e and the directories it is in: what each set has that has e and the
\* directories of its entries
Closed(S) == \A e \in S \ {Root} : Parent[e] \in S

Above ==
  [e \in Entries |->
     {x \in Entries : \A S \in SUBSET Entries : e \in S /\ Closed(S) => x \in S}]

ASSUME ListAssumption ==
  /\ Dirs \subseteq Entries /\ Mp3 \subseteq Entries /\ Root \in Dirs
  /\ Parent \in [Entries \ {Root} -> Dirs]
  /\ DOMAIN Key = Entries
  /\ MusicPath \in Seq(Dirs) /\ MusicPath # <<>> /\ MusicPath[1] = Root
  /\ \A i \in 1 .. Len(MusicPath) - 1 :
       MusicPath[i + 1] # Root /\ Parent[MusicPath[i + 1]] = MusicPath[i]
  /\ \A i \in 1 .. Len(MusicPath) : MusicPath[i] \in Above[MusicPath[Len(MusicPath)]]
  /\ WarnAt \in Nat /\ MaxChanges \in Nat /\ MaxClicks \in Nat

VARIABLES
  fs,        \* what is in the file system
  kids,      \* kids[d]: the children of the node d of the tree
  dots,      \* the nodes with a child "." that stands for nothing
  expanded,  \* the nodes that have been expanded
  depth,     \* currentDepth in navigateTreeToPath()
  listModel, \* the copy list
  pc,        \* what the event dispatch thread does
  sel,       \* the selected nodes that are still to be added
  stack,     \* the children to come of each directory under way
  current,   \* pathToAdd
  top,       \* the selected node that is being added
  \* history
  changes,   \* number of changes so far
  clicks,    \* number of clicks so far
  changed,   \* what has ever been created or removed
  touched,   \* what has been created or removed during this handler
  unread,    \* the directories the tree could not list
  selected,  \* the nodes this handler began with
  stopped,   \* those of them the user has stopped with Cancel
  asked,     \* has the user been asked since the list was cleared?
  ways       \* the spellings of the nodes selected since then

fileVars == <<fs, changes, changed, touched>>
treeVars == <<kids, dots, expanded, depth, unread>>
addVars  == <<sel, stack, current, top, selected, stopped, clicks>>
listVars == <<listModel, asked, ways>>
vars     == <<fileVars, treeVars, addVars, listVars, pc>>

-----------------------------------------------------------------------------
(* The file system                                                         *)

ChildrenOf(d) == {e \in fs \ {Root} : Parent[e] = d}

\* A path names an entry.  Paths are compared by their text, and the second part
\* is how the text differs from the plain one: it has a second separator after
\* the drive, or a "\." after a directory.
Plain == "plain"
Doubled == "doubled"
Ways == Dirs \cup {Plain, Doubled}
Paths == Entries \X Ways

\* the spelling of what is below a path: the text of the drive ends with a
\* separator, and one more is appended to it
Way(p) == IF p = <<Root, Plain>> THEN Doubled ELSE p[2]

\* A path has one spelling and kind for the whole run.
Free(e) == \A x \in (fs \cup changed) \ {e} : Key[x] # Key[e]

Change(S) ==
  /\ changes < MaxChanges
  /\ changes' = changes + 1
  /\ changed' = changed \cup S
  /\ touched' = IF selected = {} THEN {} ELSE touched \cup S
  /\ UNCHANGED <<treeVars, addVars, listVars, pc>>

Create(e) ==
  /\ e \notin fs /\ Parent[e] \in fs /\ Free(e)
  /\ fs' = fs \cup {e}
  /\ Change({e})

Remove(e) ==
  /\ e \in fs
  /\ LET gone == {x \in fs : e \in Above[x]}
     IN  fs' = fs \ gone /\ Change(gone)

-----------------------------------------------------------------------------
(* The tree                                                                *)

Leaf(d) == kids[d] = {} /\ d \notin dots

\* what the tree shows of a directory
Shown(d) == {e \in ChildrenOf(d) : e \in Dirs \cup Mp3}

\* File.list() fails for the directories U
List(S, U) ==
  /\ kids' = [d \in Entries |-> IF d \in S \ U THEN Shown(d) ELSE kids[d]]
  /\ dots' = dots \cup {d \in S \ U : Shown(d) = {}}
  /\ unread' = unread \cup (S \cap U)

\* Mutant: one level is listed
PopulateOne(d) ==
  \E U \in SUBSET ({d} \cap Dirs) :
    List(IF Leaf(d) THEN {d} \cap fs \cap Dirs ELSE {}, U)

\* populateSubtree(d, 2): a leaf is listed and then each new child; of another
\* node each child that is a leaf
PopulateSubtree(d) ==
  \E U \in SUBSET (({d} \cup kids[d] \cup Shown(d)) \cap Dirs) :
    LET below == IF ~ Leaf(d) THEN {c \in kids[d] : Leaf(c)}
                 ELSE IF d \in U \/ d \notin fs THEN {} ELSE Shown(d)
        here  == IF Leaf(d) THEN {d} ELSE {}
    IN  List((here \cup below) \cap fs \cap Dirs, U)

\* createNodes() has listed the root of the drive
Init ==
  /\ fs \in SUBSET Entries /\ changed = {}
  /\ \A e \in fs : Above[e] \subseteq fs
  /\ Root \in fs /\ \A e \in fs : Free(e)
  /\ kids = [d \in Entries |-> IF d = Root THEN Shown(d) ELSE {}]
  /\ dots = {d \in {Root} : Shown(d) = {}}
  /\ expanded = {} /\ depth = 0 /\ unread = {}
  /\ listModel = <<>> /\ asked = FALSE /\ ways = {}
  /\ pc = "start"
  /\ sel = {} /\ stack = <<>>
  /\ current = <<Root, Plain>> /\ top = current
  /\ selected = {} /\ stopped = {}
  /\ changes = 0 /\ clicks = 0 /\ touched = {}

GoTo(label) == pc' = label
At(label) == pc = label /\ UNCHANGED <<fileVars, clicks>>

KeepTree == UNCHANGED treeVars
KeepList == UNCHANGED listVars
KeepSelection == UNCHANGED <<sel, top, selected, stopped>>

\* defaultTreePath.exists(): a file will do, and any case of the letters
Exists(e) == \E x \in fs : Key[x] = Key[e]

FindMusic ==
  /\ At("start")
  /\ GoTo(IF Exists(MusicPath[Len(MusicPath)]) THEN "navigate" ELSE "idle")
  /\ KeepTree /\ KeepList /\ KeepSelection /\ UNCHANGED <<stack, current>>

\* Mutant: the children of the next node are not listed
DescendOnly ==
  /\ At("navigate") /\ depth < Len(MusicPath)
  /\ depth > 0 => MusicPath[depth + 1] \in kids[MusicPath[depth]]
  /\ depth' = depth + 1
  /\ UNCHANGED <<kids, dots, unread, pc>>
  /\ KeepList /\ KeepSelection /\ UNCHANGED <<stack, current, expanded>>

Descend ==
  /\ At("navigate") /\ depth < Len(MusicPath)
  /\ depth > 0 => MusicPath[depth + 1] \in kids[MusicPath[depth]]
  /\ depth' = depth + 1
  /\ PopulateSubtree(MusicPath[depth + 1])
  /\ KeepList /\ KeepSelection /\ UNCHANGED <<stack, current, expanded, pc>>

\* No child matches: the names are compared with the case of their letters, and
\* the tree shows no file but mp3.  getChildAt() throws in the constructor, and the window
\* is never shown
ChildMissing ==
  /\ At("navigate") /\ 0 < depth /\ depth < Len(MusicPath)
  /\ MusicPath[depth + 1] \notin kids[MusicPath[depth]]
  /\ GoTo("lost")
  /\ KeepTree /\ KeepList /\ KeepSelection /\ UNCHANGED <<stack, current>>

\* Only a node with children is expanded.
Expand(d) ==
  IF Leaf(d) THEN UNCHANGED <<kids, dots, unread, expanded>>
  ELSE PopulateSubtree(d) /\ expanded' = expanded \cup {d}

\* expandPath() calls treeWillExpandHandler() for each node of the path, from
\* the root down; depth counts those that are left
ExpandNext ==
  /\ \/ At("navigate") /\ depth = Len(MusicPath)
     \/ At("expand")
  /\ Expand(MusicPath[Len(MusicPath) - depth + 1])
  /\ depth' = depth - 1
  /\ GoTo(IF depth = 1 THEN "idle" ELSE "expand")
  /\ KeepList /\ KeepSelection /\ UNCHANGED <<stack, current>>

TreeWillExpand ==
  /\ At("idle")
  /\ \E d \in {Root} \cup UNION {kids[e] : e \in expanded} :
       ~ Leaf(d) /\ Expand(d)
  /\ KeepList /\ KeepSelection /\ UNCHANGED <<stack, current, depth, pc>>

-----------------------------------------------------------------------------
(* addTreeSelectionToList()                                                *)

Visible ==
  {<<e, Plain>> : e \in {Root} \cup UNION {kids[d] : d \in expanded}}
    \cup {<<d, d>> : d \in dots \cap expanded}

\* Without a selection the handler ends with an exception and changes nothing.
AddTreeSelection ==
  /\ pc = "idle" /\ clicks < MaxClicks
  /\ \E p, q \in Visible : sel' = {p, q}
  /\ selected' = sel'
  /\ ways' = ways \cup {Way(p) : p \in sel'}
  /\ clicks' = clicks + 1
  /\ GoTo("select")
  /\ KeepTree /\ UNCHANGED <<listModel, asked>>
  /\ UNCHANGED <<fileVars, stack, current, top, stopped>>

NextSelected ==
  /\ At("select")
  /\ \E p \in sel : top' = p /\ current' = p /\ sel' = sel \ {p}
  /\ GoTo("call")
  /\ KeepTree /\ KeepList /\ UNCHANGED <<stack, selected, stopped>>

AllSelectedAdded ==
  /\ At("select") /\ sel = {}
  /\ GoTo("status")
  /\ KeepTree /\ KeepList /\ KeepSelection /\ UNCHANGED <<stack, current>>

\* the locals of the handler are gone
EndOfHandler ==
  /\ GoTo("idle")
  /\ sel' = {} /\ stack' = <<>> /\ selected' = {} /\ stopped' = {}
  /\ current' = <<Root, Plain>> /\ top' = current' /\ touched' = {}
  /\ UNCHANGED <<fs, changes, changed, clicks>>
  /\ KeepTree /\ KeepList

SetStatus == pc = "status" /\ EndOfHandler

\* "Clear", and the end of "Copy files"
ClearList ==
  /\ At("idle")
  /\ listModel' = <<>> /\ asked' = FALSE /\ ways' = {}
  /\ KeepTree /\ KeepSelection /\ UNCHANGED <<stack, current, pc>>

-----------------------------------------------------------------------------
(* addNodeToList(current)                                                  *)

IsFile(p) == p[1] \in fs \ Dirs
IsDirectory(p) == p[1] \in fs \cap Dirs

\* Mutant: only the last entry is compared
IsLast(p) == listModel # <<>> /\ listModel[Len(listModel)] = p

IsListed(p) == \E i \in DOMAIN listModel : listModel[i] = p

InCall == At("call") /\ KeepTree /\ KeepSelection /\ UNCHANGED <<stack, current>>

\* Mutant: files of every kind are added
AnyFile == IsFile(current) /\ ~ IsListed(current)

ToBeAdded == IsFile(current) /\ current[1] \in Mp3 /\ ~ IsListed(current)

\* Mutant: what is neither a file nor a directory ends the loops
StopAtMissing ==
  /\ InCall /\ ~ IsDirectory(current) /\ ~ ToBeAdded
  /\ GoTo(IF current[1] \in fs \/ stack = <<>> THEN "return" ELSE "select")
  /\ KeepList

PassOver ==
  /\ InCall /\ ~ IsDirectory(current) /\ ~ ToBeAdded
  /\ GoTo("return") /\ KeepList

\* Mutant: the question comes one file late
AddOneMore ==
  /\ InCall /\ ToBeAdded /\ Len(listModel) # WarnAt + 1
  /\ listModel' = Append(listModel, current)
  /\ GoTo("return") /\ UNCHANGED <<asked, ways>>

AddFile ==
  /\ InCall /\ ToBeAdded /\ Len(listModel) # WarnAt
  /\ listModel' = Append(listModel, current)
  /\ GoTo("return") /\ UNCHANGED <<asked, ways>>

AskUser ==
  /\ InCall /\ ToBeAdded /\ Len(listModel) = WarnAt
  /\ GoTo("dialog") /\ KeepList

\* the file is added whatever the answer is
AddAnswered ==
  listModel' = Append(listModel, current) /\ asked' = TRUE /\ UNCHANGED ways

AnswerOk ==
  /\ At("dialog") /\ AddAnswered
  /\ GoTo("return")
  /\ KeepTree /\ KeepSelection /\ UNCHANGED <<stack, current>>

\* FALSE ends the loops of all directories under way, and is then ignored by
\* addTreeSelectionToList()
AnswerCancel ==
  /\ At("dialog") /\ AddAnswered
  /\ stack' = <<>> /\ stopped' = stopped \cup {top}
  /\ GoTo("select")
  /\ KeepTree /\ UNCHANGED <<sel, top, selected, current>>

EnterDirectory ==
  /\ InCall /\ IsDirectory(current)
  /\ GoTo("list") /\ KeepList

ListChildren ==
  /\ At("list") /\ current[1] \in fs
  /\ stack' = Append(stack, {<<c, Way(current)>> : c \in ChildrenOf(current[1])})
  /\ GoTo("return")
  /\ KeepTree /\ KeepList /\ KeepSelection /\ UNCHANGED current

\* list() returns null, and the loop over it throws: the handler ends
ListIsNull == pc = "list" /\ EndOfHandler

\* the loop over the children of one directory
Level == Len(stack)

NextChild ==
  /\ At("return") /\ stack # <<>>
  /\ \E p \in stack[Level] :
       /\ current' = p
       /\ stack' = [stack EXCEPT ![Level] = @ \ {p}]
  /\ GoTo("call")
  /\ KeepTree /\ KeepList /\ KeepSelection

ReturnFromCall ==
  /\ At("return")
  /\ \/ stack = <<>> /\ GoTo("select") /\ UNCHANGED stack
     \/ /\ stack # <<>> /\ stack[Level] = {}
        /\ stack' = SubSeq(stack, 1, Level - 1)
        /\ UNCHANGED pc
  /\ KeepTree /\ KeepList /\ KeepSelection /\ UNCHANGED current

-----------------------------------------------------------------------------
Next ==
  \/ \E e \in Entries \ {Root} : Create(e) \/ Remove(e)
  \/ FindMusic \/ Descend \/ ChildMissing \/ ExpandNext \/ TreeWillExpand
  \/ AddTreeSelection \/ NextSelected \/ AllSelectedAdded \/ SetStatus
  \/ ClearList
  \/ PassOver \/ AddFile \/ AskUser \/ AnswerOk \/ AnswerCancel
  \/ EnterDirectory \/ ListChildren \/ ListIsNull
  \/ NextChild \/ ReturnFromCall

Spec == Init /\ [][Next]_vars

-----------------------------------------------------------------------------
(* Properties                                                              *)

TypeOK ==
  /\ fs \subseteq Entries
  /\ kids \in [Entries -> SUBSET Entries]
  /\ dots \subseteq Dirs /\ expanded \subseteq Entries
  /\ depth \in 0 .. Len(MusicPath)
  /\ listModel \in Seq(Mp3 \X Ways)
  /\ pc \in {"start", "navigate", "lost", "expand", "idle", "select", "call", "dialog",
             "list", "return", "status"}
  /\ sel \subseteq Paths /\ current \in Paths /\ top \in Paths
  /\ stack \in Seq(SUBSET Paths)
  /\ selected \subseteq Paths /\ stopped \subseteq selected
  /\ asked \in BOOLEAN /\ ways \subseteq Ways

\* A file is listed, and copied, once, however often it is selected and however
\* the selected nodes lie one inside the other, over any clicks and changes of
\* the file system, unless nodes of several spellings have been selected since
\* the list was cleared: the drive or a placeholder "." beside other nodes.  (Then
\* it is listed once for each spelling: the texts that are compared differ.)
FilesOnce ==
  (\E w \in Ways : ways \subseteq {w}) =>
    \A i, j \in DOMAIN listModel : listModel[i][1] = listModel[j][1] => i = j

\* When "Add" has come to its end, each mp3 file below a selected node is in the
\* list, unless the user has stopped this node or the file, or a directory it is
\* in, came or went meanwhile.  Files that vanish do not take their neighbours
\* with them.
AllAdded ==
  pc = "status" =>
    \A s \in selected \ stopped : \A f \in (Mp3 \cap fs) \ Dirs :
      (s[1] \in Above[f] /\ Above[f] \cap touched = {}) =>
        \E i \in DOMAIN listModel : listModel[i][1] = f

\* The list never gets longer than WarnAt without a question to the user,
\* although the test is for this one length.
LongListAsked == Len(listModel) > WarnAt => asked

\* The tree is one level ahead of the user: a directory that can be seen can be
\* opened, unless it was empty of all requests answered (it could not be listed)
\* or has come or gone.
TreeIsAhead ==
  \A d \in expanded : \A c \in kids[d] \cap Dirs :
    Leaf(c) => c \in unread \cup changed

\* The program starts where the directories of the way to Music are there under
\* the very names the program builds: the way is lost only when one of them came
\* or went, could not be listed, or is not there under its name.  (It is lost
\* then: exists() is content with a file Music, or a folder music.)
StartFindsMusic ==
  pc = "lost" =>
    \E i \in DOMAIN MusicPath :
      MusicPath[i] \in unread \cup changed \cup (Entries \ fs)
=============================================================================
