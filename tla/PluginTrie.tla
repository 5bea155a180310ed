----------------------------- MODULE PluginTrie -----------------------------
(***************************************************************************)
(* The plugin loader of plugin.c: a trie of plugin names laid out as a      *)
(* binary tree (RNode: first node of the next character, LNode: next node   *)
(* for the same character position, FNode: the node that points here), the  *)
(* search, insertion, loading and pruning of open_plugin, and the walk of   *)
(* free_so_file_node.  Nodes are cells of a small heap; loops run one       *)
(* iteration a step; a crash may fall between any two.                      *)
(***************************************************************************)
EXTENDS Naturals, Sequences

CONSTANTS
  Addr,      \* heap cells malloc can return
  NULL,
  Chars,     \* characters of plugin names
  Root,      \* data of the root node (0)
  Names,     \* names parse_plugin_command passes (isalnum or '_', <= 28)
  Missing,   \* neither soFile nor pyModule is set
  Stale      \* soFile or pyModule still points to what has been freed

ASSUME NamesAssumption ==
  /\ Names \subseteq Seq(Chars)
  /\ Root \notin Chars
  /\ NULL \notin Addr
  /\ Missing \notin {"so", "py"} \union [kind: {"so", "py"}, name: Names]
  /\ Stale \notin {Missing} \union [kind: {"so", "py"}, name: Names]

VARIABLES
  alloc,                          \* cells malloc'd and not freed
  data, plug, RNode, LNode, FNode,  \* fields (plug: soFile, pyModule)
  head,                           \* soNameTreeHead
  pc,                             \* the loop or stage the loader is in
  name, i,                        \* name and index of open_plugin
  node, lastNode, newNode,        \* its pointers
  stack,                          \* frames of free_so_file_node
  ran,                            \* plugin run for the last message
  spell                           \* history: the characters a node stands for

fields == <<data, plug, RNode, LNode, FNode>>
heap == <<alloc, fields, spell>>
vars == <<alloc, data, plug, RNode, LNode, FNode, head, pc, name, i, node,
          lastNode, newNode, stack, ran, spell>>

Plugins == [kind: {"so", "py"}, name: Names]
Ptr == Addr \union {NULL}
Frames == [l: Ptr, last: Ptr, inside: BOOLEAN]

Opening == {"find", "sibling", "insert", "lastsib", "prune"}

TypeOK ==
  /\ alloc \subseteq Addr
  /\ data \in [Addr -> Chars \union {Root}]
  /\ plug \in [Addr -> Plugins \union {Missing, Stale}]
  /\ RNode \in [Addr -> Ptr]
  /\ LNode \in [Addr -> Ptr]
  /\ FNode \in [Addr -> Ptr]
  /\ head \in Ptr
  /\ pc \in {"off", "idle", "free"} \union Opening
  /\ name \in Names \union {<<>>}
  /\ i \in Nat \ {0}
  /\ node \in Ptr /\ lastNode \in Ptr /\ newNode \in Ptr
  /\ stack \in Seq(Frames)
  /\ ran \in Plugins \union {Missing}
  /\ spell \in [Addr -> Seq(Chars)]

NoLink == [a \in Addr |-> NULL]

Init ==
  /\ alloc = {} /\ data = [a \in Addr |-> Root] /\ plug = [a \in Addr |-> Missing]
  /\ RNode = NoLink /\ LNode = NoLink /\ FNode = NoLink
  /\ head = NULL /\ pc = "off"
  /\ name = <<>> /\ i = 1 /\ node = NULL /\ lastNode = NULL /\ newNode = NULL
  /\ stack = <<>> /\ ran = Missing
  /\ spell = [a \in Addr |-> <<>>]

(* The locals of open_plugin, dead once it has returned. *)
NoLocals ==
  /\ name' = <<>> /\ i' = 1
  /\ node' = NULL /\ lastNode' = NULL /\ newNode' = NULL

(* free(a): the fields of a free cell have their initial values, except for *)
(* plug, whose stale pointer no step follows once the cell is free.         *)
FreeCell(a) ==
  /\ alloc' = alloc \ {a}
  /\ data' = [data EXCEPT ![a] = Root]
  /\ FNode' = [FNode EXCEPT ![a] = NULL]
  /\ spell' = [spell EXCEPT ![a] = <<>>]

(* init_so_file_tree *)
Start ==
  /\ pc = "off" /\ pc' = "idle"
  /\ \E a \in Addr : alloc' = {a} /\ head' = a
  /\ UNCHANGED <<fields, spell, name, i, node, lastNode, newNode, stack, ran>>
-----------------------------------------------------------------------------
(* open_plugin: find the string *)

OpenPlugin(n) ==
  /\ pc = "idle" /\ pc' = "find"
  /\ name' = n /\ i' = 1
  /\ node' = head /\ newNode' = NULL
  /\ UNCHANGED <<heap, head, lastNode, stack, ran>>

AtEnd == i > Len(name)      \* !name[i]

Searching(from, to) ==
  /\ pc = from /\ pc' = to
  /\ UNCHANGED <<heap, head, name, newNode, stack, ran>>

FindRight ==
  /\ Searching("find", "sibling")
  /\ ~AtEnd /\ RNode[node] # NULL
  /\ lastNode' = node /\ node' = RNode[node]
  /\ UNCHANGED i

NoRightNode ==
  /\ Searching("find", "insert")
  /\ ~AtEnd /\ RNode[node] = NULL
  /\ UNCHANGED <<i, node, lastNode>>

(* Mutant: the first sibling is taken whatever its character. *)
Matches_Any == TRUE
Matches == data[node] = name[i]

SiblingMatches ==
  /\ Searching("sibling", "find")
  /\ node # NULL /\ Matches
  /\ i' = i + 1
  /\ UNCHANGED <<node, lastNode>>

(* Mutant: the loop does not advance. *)
NextLeft_Stays == node' = node
NextLeft == node' = LNode[node]

SiblingDiffers ==
  /\ Searching("sibling", "sibling")
  /\ node # NULL /\ ~Matches
  /\ NextLeft
  /\ UNCHANGED <<i, lastNode>>

(* Mutant: no fall back to the node above, the string goes under a sibling. *)
FallBack_GoesOn == node' = RNode[lastNode]
FallBack == node' = lastNode

NoSibling ==
  /\ Searching("sibling", "insert")
  /\ node = NULL
  /\ FallBack
  /\ UNCHANGED <<i, lastNode>>

(* Mutant: a plugin that is there is loaded again. *)
Bare_Always == TRUE
Bare == plug[node] = Missing

(* The string ends on a node without a plugin: nothing to add, try to load. *)
FoundBare ==
  /\ Searching("find", "insert")
  /\ AtEnd /\ Bare
  /\ UNCHANGED <<i, node, lastNode>>

(* open_plugin returns and parse_plugin_command runs what the node holds. *)
Returns(result) ==
  /\ pc' = "idle" /\ ran' = result
  /\ NoLocals
  /\ UNCHANGED <<head, stack>>

Found ==
  /\ pc = "find" /\ AtEnd /\ ~Bare
  /\ Returns(plug[node])
  /\ UNCHANGED heap
-----------------------------------------------------------------------------
(* open_plugin: add the string to the tree *)

(* Mutant: FNode is the node above also for a left node. *)
LinkBack_Above(a) == FNode' = [FNode EXCEPT ![a] = IF pc = "lastsib" THEN FNode[node] ELSE node]
LinkBack(a) == FNode' = [FNode EXCEPT ![a] = node]

(* A new node a for the character name[i], reached from node by Link. *)
NewNode(a) ==
  /\ a \in Addr \ alloc
  /\ alloc' = alloc \union {a}
  /\ data' = [data EXCEPT ![a] = name[i]]
  /\ LinkBack(a)
  /\ spell' = [spell EXCEPT ![a] = SubSeq(name, 1, i)]
  /\ node' = a
  /\ newNode' = IF newNode = NULL THEN a ELSE newNode
  /\ i' = i + 1
  /\ pc' = "insert"
  /\ UNCHANGED <<plug, head, name, lastNode, stack, ran>>

AddRight ==
  /\ pc = "insert" /\ ~AtEnd /\ RNode[node] = NULL
  /\ \E a \in Addr :
       NewNode(a) /\ RNode' = [RNode EXCEPT ![node] = a, ![a] = NULL]
                  /\ LNode' = [LNode EXCEPT ![a] = NULL]

ToSiblings ==
  /\ Searching("insert", "lastsib")
  /\ ~AtEnd /\ RNode[node] # NULL
  /\ node' = RNode[node]
  /\ UNCHANGED <<i, lastNode>>

NextSibling ==
  /\ Searching("lastsib", "lastsib")
  /\ LNode[node] # NULL
  /\ node' = LNode[node]
  /\ UNCHANGED <<i, lastNode>>

AddLeft ==
  /\ pc = "lastsib" /\ LNode[node] = NULL
  /\ \E a \in Addr :
       NewNode(a) /\ LNode' = [LNode EXCEPT ![node] = a, ![a] = NULL]
                  /\ RNode' = [RNode EXCEPT ![a] = NULL]
-----------------------------------------------------------------------------
(* open_plugin: load the plugin, or prune the string again *)

(* dlopen and dlsym of func succeed and init_func is called, or the python  *)
(* module is imported and has a func; the plugin is run.                    *)
Load(k) ==
  /\ pc = "insert" /\ AtEnd
  /\ plug' = [plug EXCEPT ![node] = [kind |-> k, name |-> name]]
  /\ Returns([kind |-> k, name |-> name])
  /\ UNCHANGED <<alloc, data, RNode, LNode, FNode, spell>>

(* Mutant: the python module without a func stays in the node. *)
ClearModule_Not == plug' = [plug EXCEPT ![node] = [kind |-> "none", name |-> name]]
ClearModule == plug' = [plug EXCEPT ![node] = Missing]

(* There is no such file, or it has no func. *)
NoSuchPlugin ==
  /\ pc = "insert" /\ AtEnd /\ pc' = "prune"
  /\ ClearModule
  /\ UNCHANGED <<alloc, data, RNode, LNode, FNode, head, name, i, node, lastNode,
                 newNode, stack, ran, spell>>

(* Mutant: only the first node that was added is taken back. *)
Added_First == newNode = node
Added == newNode # NULL

(* The loop stops at the root, at a plugin, or where the tree goes on. *)
Prunable ==
  /\ Added /\ FNode[node] # NULL
  /\ plug[node] = Missing /\ LNode[node] = NULL /\ RNode[node] = NULL

(* Mutant: the link to the freed node is not cleared. *)
Unlink_Not(a, f) == UNCHANGED <<LNode, RNode>>
Unlink(a, f) ==
  IF LNode[f] = a THEN LNode' = [LNode EXCEPT ![f] = NULL] /\ UNCHANGED RNode
  ELSE RNode' = [RNode EXCEPT ![f] = NULL] /\ UNCHANGED LNode

(* The node is freed and the link to it is cleared, left if it was left. *)
PruneNode ==
  /\ pc = "prune" /\ Prunable
  /\ lastNode' = node /\ node' = FNode[node]
  /\ FreeCell(node)
  /\ Unlink(node, FNode[node])
  /\ UNCHANGED <<plug, head, pc, name, i, newNode, stack, ran>>

PruneDone ==
  /\ pc = "prune" /\ ~Prunable
  /\ Returns(Missing)
  /\ UNCHANGED heap
-----------------------------------------------------------------------------
(* free_so_file_tree *)

Frame(a) == [l |-> a, last |-> NULL, inside |-> FALSE]
Top == stack[Len(stack)]
Caller == SubSeq(stack, 1, Len(stack) - 1)
Freeing == pc = "free" /\ stack # <<>>

CloseTree ==
  /\ pc = "idle" /\ pc' = "free"
  /\ stack' = <<Frame(head)>>
  /\ UNCHANGED <<heap, head, name, i, node, lastNode, newNode, ran>>

(* free(last), when there is one to free *)
FreeLast(a) ==
  IF a = NULL THEN UNCHANGED <<alloc, data, RNode, LNode, FNode, spell>>
  ELSE /\ FreeCell(a)
       /\ RNode' = [RNode EXCEPT ![a] = NULL]
       /\ LNode' = [LNode EXCEPT ![a] = NULL]

(* The loop frees the node before this one, closes this one's plugin with   *)
(* end_func, frees it but leaves the pointer, and calls itself for the      *)
(* nodes on the right.                                                      *)
FreeVisit ==
  /\ Freeing /\ Top.l # NULL /\ ~Top.inside
  /\ FreeLast(Top.last)
  /\ plug' = [plug EXCEPT ![Top.l] = IF @ = Missing THEN Missing ELSE Stale]
  /\ LET called == Append(Caller, [Top EXCEPT !.inside = TRUE])
     IN  stack' = IF RNode[Top.l] # NULL THEN Append(called, Frame(RNode[Top.l])) ELSE called
  /\ UNCHANGED <<head, pc, name, i, node, lastNode, newNode, ran>>

FreeNext ==
  /\ Freeing /\ Top.l # NULL /\ Top.inside
  /\ stack' = Append(Caller, [l |-> LNode[Top.l], last |-> Top.l, inside |-> FALSE])
  /\ UNCHANGED <<heap, head, pc, name, i, node, lastNode, newNode, ran>>

(* Mutant: the last node of a row is not freed. *)
FreeRowEnd_Not == FreeLast(NULL)
FreeRowEnd == FreeLast(Top.last)

FreeReturn ==
  /\ Freeing /\ Top.l = NULL
  /\ FreeRowEnd
  /\ stack' = Caller
  /\ UNCHANGED <<plug, head, pc, name, i, node, lastNode, newNode, ran>>

(* Every variable as in a process not yet started. *)
Gone ==
  /\ alloc' = {} /\ data' = [a \in Addr |-> Root] /\ plug' = [a \in Addr |-> Missing]
  /\ RNode' = NoLink /\ LNode' = NoLink /\ FNode' = NoLink
  /\ head' = NULL /\ pc' = "off"
  /\ NoLocals
  /\ stack' = <<>> /\ ran' = Missing
  /\ spell' = [a \in Addr |-> <<>>]

(* free_so_file_tree returns; main runs to its end. *)
TreeClosed == pc = "free" /\ stack = <<>> /\ Gone

(* malloc fails: parse_plugin_command takes MALLOC_ERROR for a node and     *)
(* follows it.                                                             *)
MallocFails ==
  /\ alloc = Addr
  /\ \/ pc = "insert" /\ ~AtEnd /\ RNode[node] = NULL
     \/ pc = "lastsib" /\ LNode[node] = NULL
  /\ Gone

(* The process dies; a plugin's init_func or func may do it. *)
Crash == pc # "off" /\ Gone
-----------------------------------------------------------------------------
Open ==
  \/ FindRight \/ NoRightNode \/ SiblingMatches \/ SiblingDiffers \/ NoSibling
  \/ FoundBare \/ Found
  \/ AddRight \/ ToSiblings \/ NextSibling \/ AddLeft
  \/ \E k \in {"so", "py"} : Load(k)
  \/ NoSuchPlugin \/ PruneNode \/ PruneDone
  \/ MallocFails

Free == FreeVisit \/ FreeNext \/ FreeReturn \/ TreeClosed

Next == Start \/ (\E n \in Names : OpenPlugin(n)) \/ Open \/ CloseTree \/ Free \/ Crash

Spec == Init /\ [][Next]_vars

(* Inside the loader the thread waits only for files, and for init_func and *)
(* python imports, which are taken to return.                               *)
FairSpec == Spec /\ WF_vars(Open) /\ WF_vars(Free)
-----------------------------------------------------------------------------
(* Every node about to be followed or freed is allocated: a pruned branch   *)
(* leaves no pointer behind, free_so_file_node reads a node's links before  *)
(* the node is freed, and closes no plugin that it has closed and freed     *)
(* before (plugin.c 147-161, 179-200).                                      *)
NoDangling ==
  /\ pc \notin {"off", "free"} => head \in alloc
  /\ pc \in Opening => node \in alloc \union (IF pc = "sibling" THEN {NULL} ELSE {})
  /\ pc = "sibling" => lastNode \in alloc
  /\ \A f \in 1..Len(stack) :
       /\ stack[f].l \in alloc \union {NULL}
       /\ ~stack[f].inside => stack[f].last \in alloc \union {NULL}
  /\ Freeing /\ Top.l # NULL /\ ~Top.inside => plug[Top.l] # Stale

(* While the tree is in use every node but the root hangs on exactly one    *)
(* link, its FNode says which, and every link leads to a node that agrees.  *)
TreeLinks ==
  pc \notin {"off", "free"} =>
    /\ \A a \in alloc \ {head} :
         /\ FNode[a] \in alloc
         /\ RNode[FNode[a]] = a <=> LNode[FNode[a]] # a
    /\ \A a \in alloc : \A b \in {RNode[a], LNode[a]} \ {NULL} :
         b \in alloc \ {head} /\ FNode[b] = a
    /\ FNode[head] = NULL

(* The links spell: a right node adds its character to the node above, a    *)
(* left node replaces the last one.                                         *)
LinksSpell ==
  pc \notin {"off", "free"} =>
    \A a \in alloc :
      /\ RNode[a] # NULL => spell[RNode[a]] = Append(spell[a], data[RNode[a]])
      /\ LNode[a] # NULL =>
           /\ spell[a] # <<>>
           /\ spell[LNode[a]] = Append(SubSeq(spell[a], 1, Len(spell[a]) - 1), data[LNode[a]])

HasPlugin(a) == plug[a] \notin {Missing, Stale}

(* A plugin hangs on the node of its own name. *)
PluginAtItsName == \A a \in alloc : HasPlugin(a) => plug[a].name = spell[a]

(* Between messages every branch ends in a plugin: an unknown name leaves   *)
(* no node behind (plugin.c 145-161).                                       *)
NoDeadBranches ==
  pc = "idle" => \A a \in alloc \ {head} : plug[a] # Missing \/ RNode[a] # NULL

(* free_so_file_tree leaves no node behind. *)
AllFreed == (pc = "free" /\ stack = <<>>) => alloc = {}

(* The loops of open_plugin and the recursion of free_so_file_node end.     *)
LoaderReturns == (pc \in Opening \union {"free"}) ~> (pc \in {"idle", "off"})
-----------------------------------------------------------------------------
(* The trie implements the table. *)
Loaded(n) == {a \in alloc : HasPlugin(a) /\ plug[a].name = n}

Stage == CASE pc = "off" -> "off" [] pc = "free" -> "closing" [] OTHER -> "open"
Held == [n \in Names |->
           IF Loaded(n) = {} THEN Missing ELSE plug[CHOOSE a \in Loaded(n) : TRUE].kind]

Table == INSTANCE PluginTable WITH stage <- Stage, table <- Held

LoadsOnce == Table!Spec
=============================================================================
