-------------------------- MODULE PluginTrieProofs --------------------------
(* Type correctness of PluginTrie, that the links of the trie and the FNode  *)
(* of every node agree, that the links spell the names the nodes were made   *)
(* for and that a plugin hangs on the node of its own name: for every set of *)
(* cells and of names.                                                       *)
EXTENDS PluginTrie, SequenceTheorems, TLAPS

(* No plugin is freed before the tree is. *)
NoneStale == \A a \in Addr : plug[a] # Stale

(* What TypeOK needs to be inductive: where the loader's pointers are set. *)
Places ==
  /\ pc \notin {"off", "free"} => head \in Addr
  /\ pc \in Opening => name \in Names
  /\ pc \in Opening \ {"sibling"} => node \in Addr
  /\ pc = "sibling" => lastNode \in Addr
  /\ pc \in {"sibling", "lastsib"} => i <= Len(name)

TInv == TypeOK /\ Places /\ (pc # "free" => NoneStale)
-----------------------------------------------------------------------------
(* The index of a character of a name gives a character and a prefix. *)
LEMMA CharOfName ==
  ASSUME NEW n \in Seq(Chars), NEW j \in Nat \ {0}, j <= Len(n)
  PROVE  n[j] \in Chars /\ SubSeq(n, 1, j) \in Seq(Chars)
<1>1. j \in 1..Len(n)
  OBVIOUS
<1>2. n[j] \in Chars
  BY <1>1, ElementOfSeq
<1>3. \A k \in 1..j : n[k] \in Chars
  BY ElementOfSeq
<1> QED
  BY <1>2, <1>3, SubSeqProperties, LenProperties

(* The frames under the top one, and the top one itself, are frames. *)
LEMMA StackParts ==
  ASSUME NEW s \in Seq(Frames), s # <<>>
  PROVE  /\ s[Len(s)] \in Frames
         /\ SubSeq(s, 1, Len(s) - 1) \in Seq(Frames)
<1>1. Len(s) \in 1..Len(s)
  BY EmptySeq, LenProperties
<1>2. s[Len(s)] \in Frames
  BY <1>1, ElementOfSeq
<1>3. \A k \in 1..(Len(s) - 1) : s[k] \in Frames
  BY ElementOfSeq, LenProperties
<1> QED
  BY <1>2, <1>3, SubSeqProperties, LenProperties
-----------------------------------------------------------------------------
(* Before the process starts nothing is allocated and no pointer is set. *)
LEMMA TypeInit == Init => TInv
  BY NamesAssumption DEF Init, TInv, TypeOK, Places, NoneStale, NoLink, Ptr, Opening

(* The types of what a new node sets. *)
LEMMA NewNodeTypes ==
  ASSUME TInv, NEW a \in Addr, NewNode(a), i <= Len(name), pc \in {"insert", "lastsib"}
  PROVE  /\ alloc' \subseteq Addr
         /\ data' \in [Addr -> Chars \union {Root}]
         /\ FNode' \in [Addr -> Ptr]
         /\ spell' \in [Addr -> Seq(Chars)]
         /\ node' \in Addr /\ newNode' \in Ptr /\ i' \in Nat \ {0}
<1> USE DEF TInv, TypeOK, Places, Opening
<1>1. name \in Seq(Chars)
  BY NamesAssumption
<1>2. name[i] \in Chars /\ SubSeq(name, 1, i) \in Seq(Chars)
  BY <1>1, CharOfName
<1>3. data' \in [Addr -> Chars \union {Root}] /\ spell' \in [Addr -> Seq(Chars)]
  BY <1>2 DEF NewNode
<1> QED
  BY <1>3 DEF NewNode, LinkBack, Ptr

(* The types of what freeing a node sets. *)
LEMMA FreeCellTypes ==
  ASSUME TypeOK, NEW a \in Addr, FreeCell(a)
  PROVE  /\ alloc' \subseteq Addr
         /\ data' \in [Addr -> Chars \union {Root}]
         /\ FNode' \in [Addr -> Ptr]
         /\ spell' \in [Addr -> Seq(Chars)]
<1>1. <<>> \in Seq(Chars)
  BY EmptySeq
<1>2. spell' \in [Addr -> Seq(Chars)]
  BY <1>1 DEF FreeCell, TypeOK
<1> QED
  BY <1>2 DEF FreeCell, TypeOK, Ptr

(* The types of what freeing the node before this one sets. *)
LEMMA FreeLastTypes ==
  ASSUME TypeOK, NEW a \in Ptr, FreeLast(a)
  PROVE  /\ alloc' \subseteq Addr
         /\ data' \in [Addr -> Chars \union {Root}]
         /\ RNode' \in [Addr -> Ptr] /\ LNode' \in [Addr -> Ptr] /\ FNode' \in [Addr -> Ptr]
         /\ spell' \in [Addr -> Seq(Chars)]
<1>1. CASE a = NULL
  BY <1>1 DEF FreeLast, TypeOK
<1>2. CASE a # NULL
  <2>1. a \in Addr /\ FreeCell(a)
    BY <1>2 DEF Ptr, FreeLast
  <2> QED
    BY <2>1, <1>2, FreeCellTypes DEF FreeLast, TypeOK, Ptr
<1> QED
  BY <1>1, <1>2

(* No step but those of the walk frees a plugin.                             *)
LEMMA StaleNext ==
  ASSUME TInv, [Next]_vars, pc' # "free" PROVE NoneStale'
<1> USE NamesAssumption
<1>0. TypeOK
  BY DEF TInv
<1>1. CASE pc # "free" /\ UNCHANGED plug
  BY <1>1 DEF TInv, NoneStale
<1>2. CASE Gone
  BY <1>2 DEF Gone, NoneStale
<1>3. ASSUME NEW k \in {"so", "py"}, Load(k) PROVE NoneStale'
  <2>1. /\ pc = "insert" /\ plug' = [plug EXCEPT ![node] = [kind |-> k, name |-> name]]
        /\ name \in Names \/ name = <<>>
    BY <1>0, <1>3 DEF Load, TypeOK
  <2>2. name \in Names
    BY <1>3 DEF Load, TInv, Places, Opening
  <2>3. [kind |-> k, name |-> name] # Stale
    BY <2>2
  <2> QED
    BY <1>0, <2>1, <2>3 DEF TInv, NoneStale, TypeOK
<1>4. CASE NoSuchPlugin
  BY <1>0, <1>4 DEF NoSuchPlugin, ClearModule, TInv, NoneStale, TypeOK
<1>5. \/ pc # "free" /\ UNCHANGED plug
      \/ Gone \/ NoSuchPlugin \/ \E k \in {"so", "py"} : Load(k)
  BY DEF Next, Open, Free, Start, OpenPlugin, FindRight, NoRightNode, SiblingMatches, SiblingDiffers,
         NoSibling, FoundBare, Found, AddRight, AddLeft, NewNode, ToSiblings, NextSibling, PruneNode,
         PruneDone, MallocFails, CloseTree, FreeVisit, FreeNext, FreeReturn, Freeing, TreeClosed, Crash,
         Searching, heap, fields, vars
<1> QED
  BY <1>1, <1>2, <1>3, <1>4, <1>5

(* Every step keeps the types.  The pointers followed are cells because the  *)
(* guards of the loops test for NULL before they are.                        *)
LEMMA TypeNext == TInv /\ [Next]_vars => TInv'
<1> SUFFICES ASSUME TInv, [Next]_vars PROVE TInv'
  OBVIOUS
<1>0. pc' # "free" => NoneStale'
  BY StaleNext
<1> USE NamesAssumption, <1>0 DEF TInv, TypeOK, Places, Ptr, Opening, heap, fields
<1>1. CASE UNCHANGED vars
  BY <1>1 DEF vars
<1>2. CASE Start
  BY <1>2 DEF Start
<1>3. ASSUME NEW n \in Names, OpenPlugin(n) PROVE TInv'
  BY <1>3 DEF OpenPlugin
<1>4. CASE FindRight \/ NoRightNode \/ FoundBare
  BY <1>4 DEF FindRight, NoRightNode, FoundBare, Searching, AtEnd
<1>5. CASE SiblingMatches \/ SiblingDiffers \/ NoSibling
  BY <1>5 DEF SiblingMatches, SiblingDiffers, NoSibling, Searching, NextLeft, FallBack
<1>6. CASE ToSiblings \/ NextSibling
  BY <1>6 DEF ToSiblings, NextSibling, Searching, AtEnd
<1>7. CASE AddRight
  <2>1. PICK a \in Addr : /\ NewNode(a)
                          /\ RNode' = [RNode EXCEPT ![node] = a, ![a] = NULL]
                          /\ LNode' = [LNode EXCEPT ![a] = NULL]
    BY <1>7 DEF AddRight
  <2>2. pc = "insert" /\ i <= Len(name)
    BY <1>7, LenProperties DEF AddRight, AtEnd
  <2> QED
    BY <2>1, <2>2, NewNodeTypes DEF NewNode
<1>8. CASE AddLeft
  <2>1. PICK a \in Addr : /\ NewNode(a)
                          /\ LNode' = [LNode EXCEPT ![node] = a, ![a] = NULL]
                          /\ RNode' = [RNode EXCEPT ![a] = NULL]
    BY <1>8 DEF AddLeft
  <2>2. pc = "lastsib" /\ i <= Len(name)
    BY <1>8 DEF AddLeft
  <2> QED
    BY <2>1, <2>2, NewNodeTypes DEF NewNode
<1>9. CASE Found
  BY <1>9 DEF Found, Returns, NoLocals, Bare, NoneStale
<1>10. ASSUME NEW k \in {"so", "py"}, Load(k) PROVE TInv'
  BY <1>10 DEF Load, Returns, NoLocals, Plugins
<1>11. CASE NoSuchPlugin
  BY <1>11 DEF NoSuchPlugin, ClearModule
<1>12. CASE PruneNode
  <2>1. node \in Addr /\ FNode[node] \in Addr
    BY <1>12 DEF PruneNode, Prunable
  <2>2. RNode' \in [Addr -> Ptr] /\ LNode' \in [Addr -> Ptr]
    BY <1>12, <2>1 DEF PruneNode, Unlink
  <2> QED
    BY <1>12, <2>1, <2>2, FreeCellTypes DEF PruneNode
<1>13. CASE PruneDone
  BY <1>13 DEF PruneDone, Returns, NoLocals
<1>14. CASE CloseTree
  BY <1>14 DEF CloseTree, Frame, Frames
<1>15. CASE FreeVisit
  <2>1. Top \in Frames /\ Caller \in Seq(Frames)
    BY <1>15, StackParts DEF FreeVisit, Freeing, Top, Caller
  <2>2. Top.l \in Addr /\ Top.last \in Ptr
    BY <1>15, <2>1 DEF FreeVisit, Frames
  <2>3. plug' \in [Addr -> Plugins \union {Missing, Stale}]
    BY <1>15 DEF FreeVisit
  <2>4. stack' \in Seq(Frames)
    <3>1. [Top EXCEPT !.inside = TRUE] \in Frames /\ Frame(RNode[Top.l]) \in Frames
      BY <2>1, <2>2 DEF Frames, Frame
    <3>2. Append(Caller, [Top EXCEPT !.inside = TRUE]) \in Seq(Frames)
      BY <2>1, <3>1, AppendProperties
    <3>3. Append(Append(Caller, [Top EXCEPT !.inside = TRUE]), Frame(RNode[Top.l])) \in Seq(Frames)
      BY <3>1, <3>2, AppendProperties
    <3> QED
      BY <1>15, <3>2, <3>3 DEF FreeVisit
  <2> QED
    BY <1>15, <2>2, <2>3, <2>4, FreeLastTypes DEF FreeVisit, Freeing
<1>16. CASE FreeNext
  <2>1. Top \in Frames /\ Caller \in Seq(Frames)
    BY <1>16, StackParts DEF FreeNext, Freeing, Top, Caller
  <2>2. [l |-> LNode[Top.l], last |-> Top.l, inside |-> FALSE] \in Frames
    BY <1>16, <2>1 DEF FreeNext, Frames
  <2>3. stack' \in Seq(Frames)
    BY <1>16, <2>1, <2>2, AppendProperties DEF FreeNext
  <2> QED
    BY <1>16, <2>3 DEF FreeNext, Freeing
<1>17. CASE FreeReturn
  <2>1. Top \in Frames /\ Caller \in Seq(Frames)
    BY <1>17, StackParts DEF FreeReturn, Freeing, Top, Caller
  <2>2. Top.last \in Ptr
    BY <2>1 DEF Frames
  <2>3. stack' \in Seq(Frames)
    BY <1>17, <2>1 DEF FreeReturn
  <2> QED
    BY <1>17, <2>2, <2>3, FreeLastTypes DEF FreeReturn, FreeRowEnd, Freeing
<1>18. CASE TreeClosed \/ MallocFails \/ Crash
  <2>1. Gone
    BY <1>18 DEF TreeClosed, MallocFails, Crash
  <2> QED
    BY <2>1, EmptySeq DEF Gone, NoLocals, NoLink
<1> QED
  BY <1>1, <1>2, <1>3, <1>4, <1>5, <1>6, <1>7, <1>8, <1>9, <1>10, <1>11, <1>12, <1>13,
     <1>14, <1>15, <1>16, <1>17, <1>18 DEF Next, Open, Free

(* Type correctness. *)
THEOREM TypeCorrect == Spec => []TypeOK
<1>1. Spec => []TInv
  BY TypeInit, TypeNext, PTL DEF Spec
<1>2. TInv => TypeOK
  BY DEF TInv
<1> QED
  BY <1>1, <1>2, PTL
-----------------------------------------------------------------------------
(* The shape of the trie while it is in use, without reference to pc. *)
Shape ==
  /\ head \in alloc /\ FNode[head] = NULL
  /\ \A a \in alloc \ {head} :
       /\ FNode[a] \in alloc
       /\ RNode[FNode[a]] = a <=> LNode[FNode[a]] # a
  /\ \A a \in alloc : \A b \in {RNode[a], LNode[a]} \ {NULL} :
       b \in alloc \ {head} /\ FNode[b] = a

(* The inductive invariant: the shape, and the loader's pointers on it.  A   *)
(* process not yet started has no links left from the one before.            *)
SInv ==
  /\ TInv
  /\ pc = "off" => RNode = NoLink /\ LNode = NoLink /\ FNode = NoLink
  /\ pc \notin {"off", "free"} => Shape
  /\ pc \in Opening \ {"sibling"} => node \in alloc
  /\ pc = "sibling" => lastNode \in alloc /\ node \in alloc \union {NULL}

(* A link of the trie leads to a node of the trie. *)
LEMMA LinkLeadsOn ==
  ASSUME TInv, Shape, NEW a \in alloc
  PROVE  /\ RNode[a] # NULL => RNode[a] \in alloc
         /\ LNode[a] # NULL => LNode[a] \in alloc
  BY DEF Shape

(* A new node behind an empty link keeps the shape. *)
LEMMA NewNodeShape ==
  ASSUME TInv, Shape, node \in alloc, NEW a \in Addr, NewNode(a),
         \/ /\ RNode[node] = NULL
            /\ RNode' = [RNode EXCEPT ![node] = a, ![a] = NULL]
            /\ LNode' = [LNode EXCEPT ![a] = NULL]
         \/ /\ LNode[node] = NULL
            /\ LNode' = [LNode EXCEPT ![node] = a, ![a] = NULL]
            /\ RNode' = [RNode EXCEPT ![a] = NULL]
  PROVE  Shape' /\ node' \in alloc'
<1> USE NamesAssumption DEF TInv, TypeOK, Ptr
<1>1. /\ a \notin alloc /\ alloc' = alloc \union {a} /\ head' = head /\ node' = a
      /\ FNode' = [FNode EXCEPT ![a] = node]
  BY DEF NewNode, LinkBack
<1>2. /\ RNode'[a] = NULL /\ LNode'[a] = NULL
      /\ \A b \in alloc \ {node} : RNode'[b] = RNode[b] /\ LNode'[b] = LNode[b]
      /\ \/ RNode[node] = NULL /\ RNode'[node] = a /\ LNode'[node] = LNode[node]
         \/ LNode[node] = NULL /\ LNode'[node] = a /\ RNode'[node] = RNode[node]
  BY <1>1
<1>3. FNode'[a] = node /\ \A b \in alloc : FNode'[b] = FNode[b]
  BY <1>1
<1>4. RNode[node] # a /\ LNode[node] # a
  BY <1>1 DEF Shape
<1>5. ASSUME NEW b \in alloc' \ {head}
      PROVE  FNode'[b] \in alloc' /\ (RNode'[FNode'[b]] = b <=> LNode'[FNode'[b]] # b)
  <2>1. CASE b = a
    BY <2>1, <1>1, <1>2, <1>3, <1>4
  <2>2. CASE b # a
    <3>1. /\ b \in alloc \ {head} /\ FNode'[b] = FNode[b] /\ FNode[b] \in alloc
          /\ RNode[FNode[b]] = b <=> LNode[FNode[b]] # b
      BY <2>2, <1>1, <1>3, <1>5 DEF Shape
    <3>2. b # NULL
      BY <3>1
    <3>3. RNode'[FNode[b]] = b <=> RNode[FNode[b]] = b
      BY <3>1, <3>2, <2>2, <1>2
    <3>4. LNode'[FNode[b]] = b <=> LNode[FNode[b]] = b
      BY <3>1, <3>2, <2>2, <1>2
    <3> QED
      BY <3>1, <3>3, <3>4, <1>1
  <2> QED
    BY <2>1, <2>2
<1>6. ASSUME NEW x \in alloc', NEW b \in {RNode'[x], LNode'[x]} \ {NULL}
      PROVE  b \in alloc' \ {head} /\ FNode'[b] = x
  <2>1. x # a /\ x \in alloc
    BY <1>1, <1>2, <1>6
  <2>2. CASE b = a
    BY <2>1, <2>2, <1>1, <1>2, <1>3, <1>6 DEF Shape
  <2>3. CASE b # a
    <3>1. b \in {RNode[x], LNode[x]} \ {NULL}
      BY <2>1, <2>3, <1>2, <1>6
    <3> QED
      BY <3>1, <2>1, <1>1, <1>3 DEF Shape
  <2> QED
    BY <2>2, <2>3
<1> QED
  BY <1>1, <1>3, <1>5, <1>6 DEF Shape

(* Freeing a leaf and clearing the link to it keeps the shape. *)
LEMMA PruneShape ==
  ASSUME TInv, Shape, node \in alloc, PruneNode
  PROVE  Shape' /\ node' \in alloc'
<1> USE NamesAssumption DEF TInv, TypeOK, Ptr
<1> DEFINE f == FNode[node]
<1>1. /\ f # NULL /\ LNode[node] = NULL /\ RNode[node] = NULL
      /\ alloc' = alloc \ {node} /\ head' = head /\ node' = f
      /\ FNode' = [FNode EXCEPT ![node] = NULL]
  BY DEF PruneNode, Prunable, FreeCell
<1>2. node # head /\ node # NULL /\ f \in alloc
  BY <1>1 DEF Shape
<1>3. RNode[f] = node <=> LNode[f] # node
  BY <1>2 DEF Shape
<1>4. f # node
  BY <1>1, <1>2, <1>3
<1>5. \/ /\ LNode[f] = node /\ RNode[f] # node /\ RNode' = RNode
         /\ LNode' = [LNode EXCEPT ![f] = NULL]
      \/ /\ RNode[f] = node /\ LNode[f] # node /\ LNode' = LNode
         /\ RNode' = [RNode EXCEPT ![f] = NULL]
  BY <1>3 DEF PruneNode, Unlink
<1>6. ASSUME NEW b \in alloc' \ {head}
      PROVE  FNode'[b] \in alloc' /\ (RNode'[FNode'[b]] = b <=> LNode'[FNode'[b]] # b)
  <2>1. b # node /\ b # NULL /\ b \in alloc \ {head} /\ FNode'[b] = FNode[b]
    BY <1>1
  <2>2. FNode[b] \in alloc /\ (RNode[FNode[b]] = b <=> LNode[FNode[b]] # b)
    BY <2>1 DEF Shape
  <2>3. FNode[b] # node
    BY <2>1, <2>2, <1>1
  <2>4. RNode'[FNode[b]] = b <=> RNode[FNode[b]] = b
    BY <2>1, <2>2, <1>2, <1>5
  <2>5. LNode'[FNode[b]] = b <=> LNode[FNode[b]] = b
    BY <2>1, <2>2, <1>2, <1>5
  <2> QED
    BY <2>1, <2>2, <2>3, <2>4, <2>5, <1>1
<1>7. ASSUME NEW x \in alloc', NEW b \in {RNode'[x], LNode'[x]} \ {NULL}
      PROVE  b \in alloc' \ {head} /\ FNode'[b] = x
  <2>1. x \in alloc /\ x # node
    BY <1>1
  <2>2. b \in {RNode[x], LNode[x]} \ {NULL}
    BY <2>1, <1>2, <1>5, <1>7
  <2>3. b \in alloc \ {head} /\ FNode[b] = x
    BY <2>1, <2>2 DEF Shape
  <2>4. b # node
    BY <2>1, <2>3, <1>2, <1>5, <1>7
  <2> QED
    BY <2>3, <2>4, <1>1
<1> QED
  BY <1>1, <1>2, <1>4, <1>6, <1>7 DEF Shape

(* Before the first process there is no trie. *)
LEMMA ShapeInit == Init => SInv
  BY TypeInit DEF Init, SInv, Opening

(* Every step keeps the shape; only a new node and a pruned one touch it.    *)
LEMMA ShapeNext == SInv /\ [Next]_vars => SInv'
<1> SUFFICES ASSUME SInv, [Next]_vars PROVE SInv'
  OBVIOUS
<1>0. TInv /\ TInv'
  BY TypeNext DEF SInv
<1> USE NamesAssumption DEF Opening
<1>1. CASE UNCHANGED vars
  BY <1>0, <1>1 DEF vars, SInv, Shape
<1>2. CASE Start
  BY <1>0, <1>2 DEF Start, fields, SInv, Shape, NoLink, TInv, TypeOK
<1>3. ASSUME NEW n \in Names, OpenPlugin(n) PROVE SInv'
  BY <1>0, <1>3 DEF OpenPlugin, heap, fields, SInv, Shape
<1>4. CASE FindRight \/ NoRightNode \/ FoundBare \/ SiblingMatches \/ SiblingDiffers
           \/ NoSibling \/ ToSiblings \/ NextSibling
  <2>1. /\ pc \in Opening /\ pc' \in Opening /\ Shape
        /\ UNCHANGED <<head, alloc, RNode, LNode, FNode>>
    BY <1>4 DEF SInv, FindRight, NoRightNode, FoundBare, SiblingMatches, SiblingDiffers,
                NoSibling, ToSiblings, NextSibling, Searching, heap, fields
  <2>2. Shape'
    BY <2>1 DEF Shape
  <2>3. \A a \in alloc : /\ RNode[a] # NULL => RNode[a] \in alloc
                         /\ LNode[a] # NULL => LNode[a] \in alloc
    BY <2>1, <1>0, LinkLeadsOn
  <2>4. /\ pc' # "sibling" => node' \in alloc'
        /\ pc' = "sibling" => lastNode' \in alloc' /\ node' \in alloc' \union {NULL}
    BY <1>4, <2>1, <2>3 DEF SInv, FindRight, NoRightNode, FoundBare, SiblingMatches,
         SiblingDiffers, NoSibling, ToSiblings, NextSibling, Searching, NextLeft, FallBack
  <2> QED
    BY <1>0, <2>1, <2>2, <2>4 DEF SInv
<1>5. CASE AddRight
  <2>1. PICK a \in Addr : /\ NewNode(a)
                          /\ RNode' = [RNode EXCEPT ![node] = a, ![a] = NULL]
                          /\ LNode' = [LNode EXCEPT ![a] = NULL]
    BY <1>5 DEF AddRight
  <2>2. Shape /\ node \in alloc /\ RNode[node] = NULL
    BY <1>5 DEF AddRight, SInv
  <2> QED
    BY <1>0, <2>1, <2>2, NewNodeShape DEF SInv, NewNode
<1>6. CASE AddLeft
  <2>1. PICK a \in Addr : /\ NewNode(a)
                          /\ LNode' = [LNode EXCEPT ![node] = a, ![a] = NULL]
                          /\ RNode' = [RNode EXCEPT ![a] = NULL]
    BY <1>6 DEF AddLeft
  <2>2. Shape /\ node \in alloc /\ LNode[node] = NULL
    BY <1>6 DEF AddLeft, SInv
  <2> QED
    BY <1>0, <2>1, <2>2, NewNodeShape DEF SInv, NewNode
<1>7. ASSUME Found \/ PruneDone \/ \E k \in {"so", "py"} : Load(k) PROVE SInv'
  BY <1>0, <1>7 DEF Found, PruneDone, Load, Returns, heap, fields, SInv, Shape
<1>8. CASE NoSuchPlugin
  BY <1>0, <1>8 DEF NoSuchPlugin, SInv, Shape
<1>9. CASE PruneNode
  <2>1. Shape /\ node \in alloc /\ pc = "prune" /\ pc' = "prune"
    BY <1>9 DEF PruneNode, SInv
  <2> QED
    BY <1>0, <1>9, <2>1, PruneShape DEF SInv
<1>10. CASE CloseTree
  BY <1>0, <1>10 DEF CloseTree, SInv
<1>11. CASE FreeVisit \/ FreeNext \/ FreeReturn
  BY <1>0, <1>11 DEF FreeVisit, FreeNext, FreeReturn, Freeing, SInv
<1>12. CASE TreeClosed \/ MallocFails \/ Crash
  BY <1>0, <1>12 DEF TreeClosed, MallocFails, Crash, Gone, SInv
<1> QED
  BY <1>1, <1>2, <1>3, <1>4, <1>5, <1>6, <1>7, <1>8, <1>9, <1>10, <1>11, <1>12
  DEF Next, Open, Free

(* Every node hangs on exactly one link and its FNode says which, through    *)
(* every sequence of insertions and prunes.                                  *)
THEOREM StaysATree == Spec => []TreeLinks
<1>1. Spec => []SInv
  BY ShapeInit, ShapeNext, PTL DEF Spec
<1>2. SInv => TreeLinks
  BY DEF SInv, Shape, TreeLinks
<1> QED
  BY <1>1, <1>2, PTL
-----------------------------------------------------------------------------
(* What of the name the loader has matched or inserted. *)
Prefix == SubSeq(name, 1, i - 1)

(* Where the loader stands in the name. *)
Standing ==
  /\ pc \in {"find", "insert"} => i <= Len(name) + 1 /\ spell[node] = Prefix
  /\ pc = "sibling" =>
       /\ spell[lastNode] = Prefix
       /\ node # NULL => spell[node] = Append(Prefix, data[node])
  /\ pc = "lastsib" => spell[node] = Append(Prefix, data[node])

(* LinksSpell without reference to pc. *)
Spelt ==
  /\ spell[head] = <<>>
  /\ \A a \in alloc :
       /\ RNode[a] # NULL => spell[RNode[a]] = Append(spell[a], data[RNode[a]])
       /\ LNode[a] # NULL =>
            /\ spell[a] # <<>>
            /\ spell[LNode[a]] = Append(SubSeq(spell[a], 1, Len(spell[a]) - 1), data[LNode[a]])

(* The inductive invariant: the links spell, the loader stands on the node   *)
(* of what it has matched, and a node to be allocated holds no plugin yet.   *)
NInv ==
  /\ SInv
  /\ PluginAtItsName
  /\ pc = "off" => alloc = {} /\ spell = [a \in Addr |-> <<>>]
  /\ pc \notin {"off", "free"} => Spelt
  /\ pc # "free" => \A a \in Addr \ alloc : plug[a] = Missing
  /\ Standing

(* One character more of a name. *)
LEMMA OneMore ==
  ASSUME NEW n \in Seq(Chars), NEW j \in Nat \ {0}, j <= Len(n)
  PROVE  SubSeq(n, 1, j) = Append(SubSeq(n, 1, j - 1), n[j])
  BY SubSeqProperties, LenProperties, ElementOfSeq, AppendProperties

(* All of a name, and none of it. *)
LEMMA AllAndNone ==
  ASSUME NEW n \in Seq(Chars)
  PROVE  SubSeq(n, 1, Len(n)) = n /\ SubSeq(n, 1, 1 - 1) = <<>>
  OBVIOUS

(* Taking off the character that was added. *)
LEMMA OneLess ==
  ASSUME NEW p \in Seq(Chars), NEW c \in Chars \union {Root}
  PROVE  /\ Append(p, c) # <<>>
         /\ SubSeq(Append(p, c), 1, Len(Append(p, c)) - 1) = p
  OBVIOUS

(* Before the first process nothing is spelt. *)
LEMMA SpeltInit == Init => NInv
  BY ShapeInit DEF Init, NInv, PluginAtItsName, HasPlugin, Standing

(* A new node spells the next character of the name, whichever link it got.  *)
LEMMA NewNodeSpelt ==
  ASSUME NInv, Shape, Spelt, node \in alloc, NEW a \in Addr, NewNode(a), i <= Len(name),
         \/ /\ pc = "insert" /\ RNode[node] = NULL
            /\ RNode' = [RNode EXCEPT ![node] = a, ![a] = NULL]
            /\ LNode' = [LNode EXCEPT ![a] = NULL]
         \/ /\ pc = "lastsib" /\ LNode[node] = NULL
            /\ LNode' = [LNode EXCEPT ![node] = a, ![a] = NULL]
            /\ RNode' = [RNode EXCEPT ![a] = NULL]
  PROVE  Spelt' /\ PluginAtItsName' /\ Standing' /\ (\A b \in Addr \ alloc' : plug'[b] = Missing)
<1> USE NamesAssumption
<1>1. /\ name \in Seq(Chars) /\ i \in Nat \ {0} /\ Prefix \in Seq(Chars) /\ name[i] \in Chars
      /\ SubSeq(name, 1, i) = Append(Prefix, name[i])
  <2>1. name \in Seq(Chars) /\ i \in Nat \ {0}
    BY DEF NInv, SInv, TInv, TypeOK, Places, Opening
  <2>2. name[i] \in Chars /\ SubSeq(name, 1, i) = Append(Prefix, name[i])
    BY <2>1, CharOfName, OneMore DEF Prefix
  <2>3. \A k \in 1..(i - 1) : name[k] \in Chars
    BY <2>1, ElementOfSeq, LenProperties
  <2>4. Prefix \in Seq(Chars)
    BY <2>1, <2>3, SubSeqProperties DEF Prefix
  <2> QED
    BY <2>1, <2>2, <2>4
<1>2. /\ a \notin alloc /\ alloc' = alloc \union {a} /\ head' = head /\ node' = a
      /\ plug' = plug /\ name' = name /\ i' = i + 1 /\ pc' = "insert"
      /\ spell' = [spell EXCEPT ![a] = SubSeq(name, 1, i)]
      /\ data' = [data EXCEPT ![a] = name[i]]
  BY DEF NewNode
<1>3. /\ spell'[a] = SubSeq(name, 1, i) /\ data'[a] = name[i]
      /\ \A b \in alloc : spell'[b] = spell[b] /\ data'[b] = data[b]
  BY <1>2 DEF NInv, SInv, TInv, TypeOK
<1>4. /\ RNode'[a] = NULL /\ LNode'[a] = NULL
      /\ \A b \in alloc \ {node} : RNode'[b] = RNode[b] /\ LNode'[b] = LNode[b]
      /\ \/ pc = "insert" /\ RNode'[node] = a /\ LNode'[node] = LNode[node]
         \/ pc = "lastsib" /\ LNode'[node] = a /\ RNode'[node] = RNode[node]
  BY <1>2 DEF NInv, SInv, TInv, TypeOK
<1>5. head \in alloc /\ \A b \in alloc : /\ RNode[b] # NULL => RNode[b] \in alloc
                                         /\ LNode[b] # NULL => LNode[b] \in alloc
  BY LinkLeadsOn DEF Shape, NInv, SInv
<1>6. spell[node] = IF pc = "insert" THEN Prefix ELSE Append(Prefix, data[node])
  BY DEF NInv, Standing
<1>7. data[node] \in Chars \union {Root} /\ NULL \notin Addr
  BY DEF NInv, SInv, TInv, TypeOK
<1>8. ASSUME NEW b \in alloc', RNode'[b] # NULL
      PROVE  spell'[RNode'[b]] = Append(spell'[b], data'[RNode'[b]])
  <2>1. b \in alloc
    BY <1>2, <1>4, <1>8
  <2>2. CASE b = node /\ pc = "insert"
    BY <2>1, <2>2, <1>1, <1>3, <1>4, <1>6
  <2>3. CASE ~(b = node /\ pc = "insert")
    <3>1. RNode'[b] = RNode[b] /\ RNode[b] \in alloc
      BY <2>1, <2>3, <1>4, <1>5, <1>8
    <3>2. spell[RNode[b]] = Append(spell[b], data[RNode[b]])
      BY <3>1, <2>1, <1>8 DEF Spelt
    <3>3. spell'[b] = spell[b] /\ spell'[RNode[b]] = spell[RNode[b]]
          /\ data'[RNode[b]] = data[RNode[b]]
      BY <3>1, <2>1, <1>3
    <3> QED
      BY <3>1, <3>2, <3>3, Zenon
  <2> QED
    BY <2>2, <2>3
<1>9. ASSUME NEW b \in alloc', LNode'[b] # NULL
      PROVE  /\ spell'[b] # <<>>
             /\ spell'[LNode'[b]] =
                  Append(SubSeq(spell'[b], 1, Len(spell'[b]) - 1), data'[LNode'[b]])
  <2>1. b \in alloc
    BY <1>2, <1>4, <1>9
  <2>2. CASE b = node /\ pc = "lastsib"
    <3>1. spell[node] = Append(Prefix, data[node])
      BY <2>2, <1>6
    <3>2. spell[node] # <<>> /\ SubSeq(spell[node], 1, Len(spell[node]) - 1) = Prefix
      BY <3>1, <1>1, <1>7, OneLess
    <3>3. LNode'[b] = a /\ spell'[b] = spell[node]
      BY <2>1, <2>2, <1>3, <1>4
    <3> QED
      BY <3>2, <3>3, <1>1, <1>3
  <2>3. CASE ~(b = node /\ pc = "lastsib")
    <3>1. LNode'[b] = LNode[b] /\ LNode[b] \in alloc
      BY <2>1, <2>3, <1>4, <1>5, <1>9
    <3>2. /\ spell[b] # <<>>
          /\ spell[LNode[b]] = Append(SubSeq(spell[b], 1, Len(spell[b]) - 1), data[LNode[b]])
      BY <3>1, <2>1, <1>9 DEF Spelt
    <3>3. spell'[b] = spell[b] /\ spell'[LNode[b]] = spell[LNode[b]]
          /\ data'[LNode[b]] = data[LNode[b]]
      BY <3>1, <2>1, <1>3
    <3> QED
      BY <3>1, <3>2, <3>3, Zenon
  <2> QED
    BY <2>2, <2>3
<1>10. Spelt'
  BY <1>2, <1>3, <1>5, <1>8, <1>9 DEF Spelt
<1>11. plug[a] = Missing
  BY <1>2 DEF NInv
<1>12. PluginAtItsName'
  BY <1>2, <1>3, <1>11 DEF PluginAtItsName, HasPlugin, NInv
<1>13. Standing'
  <2>1. Prefix' = SubSeq(name, 1, (i + 1) - 1) /\ (i + 1) - 1 = i
    BY <1>1, <1>2 DEF Prefix
  <2>2. i' <= Len(name') + 1
    BY <1>1, <1>2, LenProperties
  <2> QED
    BY <2>1, <2>2, <1>2, <1>3 DEF Standing
<1>14. \A b \in Addr \ alloc' : plug'[b] = Missing
  BY <1>2 DEF NInv
<1> QED
  BY <1>10, <1>12, <1>13, <1>14

(* A leaf that is freed takes no other node's string with it. *)
LEMMA PruneSpelt ==
  ASSUME NInv, Shape, Spelt, node \in alloc, PruneNode
  PROVE  Spelt' /\ PluginAtItsName' /\ (\A b \in Addr \ alloc' : plug'[b] = Missing)
<1> USE DEF NInv, SInv, TInv, TypeOK, Ptr
<1>1. /\ alloc' = alloc \ {node} /\ head' = head /\ plug' = plug /\ plug[node] = Missing
      /\ \A b \in alloc' : spell'[b] = spell[b] /\ data'[b] = data[b]
  BY DEF PruneNode, Prunable, FreeCell
<1>2. Shape'
  BY PruneShape DEF PruneNode
<1>3. head \in alloc' /\ \A b \in alloc' : /\ RNode'[b] # NULL => RNode'[b] \in alloc'
                                           /\ LNode'[b] # NULL => LNode'[b] \in alloc'
  BY <1>1, <1>2 DEF Shape
<1>4. \A b \in alloc' : /\ RNode'[b] # NULL => RNode'[b] = RNode[b]
                        /\ LNode'[b] # NULL => LNode'[b] = LNode[b]
  BY NamesAssumption, <1>1 DEF PruneNode, Unlink, Prunable
<1>5. ASSUME NEW b \in alloc', RNode'[b] # NULL
      PROVE  spell'[RNode'[b]] = Append(spell'[b], data'[RNode'[b]])
  <2>1. b \in alloc /\ RNode'[b] = RNode[b] /\ RNode[b] \in alloc' /\ RNode[b] # NULL
    BY <1>1, <1>3, <1>4, <1>5
  <2>2. spell[RNode[b]] = Append(spell[b], data[RNode[b]])
    BY <2>1 DEF Spelt
  <2> QED
    BY <2>1, <2>2, <1>1, Zenon
<1>6. ASSUME NEW b \in alloc', LNode'[b] # NULL
      PROVE  /\ spell'[b] # <<>>
             /\ spell'[LNode'[b]] =
                  Append(SubSeq(spell'[b], 1, Len(spell'[b]) - 1), data'[LNode'[b]])
  <2>1. b \in alloc /\ LNode'[b] = LNode[b] /\ LNode[b] \in alloc' /\ LNode[b] # NULL
    BY <1>1, <1>3, <1>4, <1>6
  <2>2. /\ spell[b] # <<>>
        /\ spell[LNode[b]] = Append(SubSeq(spell[b], 1, Len(spell[b]) - 1), data[LNode[b]])
    BY <2>1 DEF Spelt
  <2> QED
    BY <2>1, <2>2, <1>1, Zenon
<1>7. Spelt'
  BY <1>1, <1>3, <1>5, <1>6 DEF Spelt
<1>8. PluginAtItsName'
  BY <1>1 DEF PluginAtItsName, HasPlugin
<1>9. \A b \in Addr \ alloc' : plug'[b] = Missing
  BY <1>1 DEF PruneNode
<1> QED
  BY <1>7, <1>8, <1>9

(* Every step keeps the loader on the node of what it has matched.           *)
LEMMA SpeltNext == NInv /\ [Next]_vars => NInv'
<1> SUFFICES ASSUME NInv, [Next]_vars PROVE NInv'
  OBVIOUS
<1>0. SInv /\ SInv' /\ TInv
  BY ShapeNext DEF NInv, SInv
<1> USE NamesAssumption DEF Opening
<1> DEFINE Same == UNCHANGED <<alloc, data, plug, RNode, LNode, head, spell>>
<1>1. ASSUME Same, pc \notin {"off", "free"}, pc' \notin {"off", "free"}
      PROVE  Spelt' /\ PluginAtItsName' /\ (\A b \in Addr \ alloc' : plug'[b] = Missing)
  BY <1>1 DEF NInv, Spelt, PluginAtItsName, HasPlugin
<1>2. CASE UNCHANGED vars
  BY <1>0, <1>2 DEF vars, NInv, Spelt, PluginAtItsName, HasPlugin, Standing, Prefix
<1>3. CASE Start
  <2>1. /\ pc = "off" /\ pc' = "idle" /\ UNCHANGED <<data, plug, RNode, LNode, spell>>
        /\ \E a \in Addr : alloc' = {a} /\ head' = a
    BY <1>3 DEF Start, fields
  <2>2. PICK a \in Addr : alloc' = {a} /\ head' = a
    BY <2>1
  <2>3. /\ RNode'[a] = NULL /\ LNode'[a] = NULL /\ spell'[a] = <<>>
        /\ \A b \in Addr : plug'[b] = Missing
    BY <2>1, <2>2 DEF NInv, SInv, NoLink
  <2>4. Spelt' /\ PluginAtItsName' /\ (\A b \in Addr \ alloc' : plug'[b] = Missing)
    BY <2>2, <2>3 DEF Spelt, PluginAtItsName, HasPlugin
  <2> QED
    BY <1>0, <2>1, <2>4 DEF NInv, Standing
<1>4. ASSUME NEW n \in Names, OpenPlugin(n) PROVE NInv'
  <2>1. Same /\ pc = "idle" /\ pc' = "find"
    BY <1>4 DEF OpenPlugin, heap, fields
  <2>2. Prefix' = <<>> /\ 1 <= Len(n) + 1
    BY <1>4, AllAndNone, LenProperties DEF OpenPlugin, Prefix
  <2>3. spell'[node'] = <<>>
    BY <1>4, <2>1 DEF OpenPlugin, NInv, Spelt
  <2>4. Standing'
    BY <1>4, <2>1, <2>2, <2>3 DEF OpenPlugin, Standing
  <2> QED
    BY <1>0, <1>1, <2>1, <2>4 DEF NInv
<1>5. ASSUME Found \/ (\E k \in {"so", "py"} : Load(k)) \/ NoSuchPlugin \/ PruneDone PROVE NInv'
  <2>1. CASE Found \/ PruneDone
    BY <1>0, <1>1, <2>1 DEF Found, PruneDone, Returns, heap, fields, NInv, Standing
  <2>2. ASSUME NEW k \in {"so", "py"}, Load(k) PROVE NInv'
    <3>1. name \in Seq(Chars) /\ i = Len(name) + 1 /\ node \in alloc /\ pc = "insert"
      BY <2>2, <1>0, LenProperties DEF Load, AtEnd, NInv, Standing, SInv, TInv, TypeOK, Places
    <3>2. spell[node] = name
      BY <3>1, AllAndNone, LenProperties DEF NInv, Standing, Prefix
    <3>3. PluginAtItsName'
      BY <2>2, <3>1, <3>2, <1>0 DEF Load, PluginAtItsName, HasPlugin, NInv, TInv, TypeOK
    <3>4. Spelt' /\ \A b \in Addr \ alloc' : plug'[b] = Missing
      BY <2>2, <3>1, <1>0 DEF Load, Returns, Spelt, NInv, TInv, TypeOK
    <3> QED
      BY <2>2, <3>3, <3>4, <1>0 DEF Load, Returns, NInv, Standing
  <2>3. CASE NoSuchPlugin
    <3>1. PluginAtItsName' /\ \A b \in Addr \ alloc' : plug'[b] = Missing
      BY <2>3, <1>0 DEF NoSuchPlugin, ClearModule, PluginAtItsName, HasPlugin, NInv, TInv, TypeOK
    <3>2. Spelt'
      BY <2>3 DEF NoSuchPlugin, Spelt, NInv
    <3> QED
      BY <2>3, <3>1, <3>2, <1>0 DEF NoSuchPlugin, NInv, Standing
  <2> QED
    BY <1>5, <2>1, <2>2, <2>3
<1>6. CASE FindRight
  <2>1. Same /\ pc = "find" /\ pc' = "sibling" /\ Shape /\ node \in alloc
    BY <1>6, <1>0 DEF FindRight, Searching, heap, fields, SInv
  <2>2. spell[RNode[node]] = Append(Prefix, data[RNode[node]])
    BY <1>6, <2>1 DEF FindRight, NInv, Spelt, Standing
  <2>3. Standing'
    BY <1>6, <2>1, <2>2 DEF FindRight, Searching, NInv, Standing, Prefix
  <2> QED
    BY <1>0, <1>1, <2>1, <2>3 DEF NInv
<1>7. CASE NoRightNode \/ FoundBare
  <2>1. Same /\ pc = "find" /\ pc' = "insert" /\ UNCHANGED <<name, i, node>>
    BY <1>7 DEF NoRightNode, FoundBare, Searching, heap, fields
  <2>2. Standing'
    BY <2>1 DEF NInv, Standing, Prefix
  <2> QED
    BY <1>0, <1>1, <2>1, <2>2 DEF NInv
<1>8. CASE NoSibling
  <2>1. Same /\ pc = "sibling" /\ pc' = "insert" /\ UNCHANGED <<name, i>> /\ node' = lastNode
    BY <1>8 DEF NoSibling, FallBack, Searching, heap, fields
  <2>2. i <= Len(name) /\ i \in Nat /\ Len(name) \in Nat
    BY <2>1, <1>0, LenProperties DEF TInv, TypeOK, Places
  <2>3. Standing'
    BY <2>1, <2>2 DEF NInv, Standing, Prefix
  <2> QED
    BY <1>0, <1>1, <2>1, <2>3 DEF NInv
<1>9. CASE SiblingMatches
  <2>1. /\ Same /\ pc = "sibling" /\ pc' = "find" /\ name' = name /\ i' = i + 1 /\ node' = node
        /\ node # NULL /\ data[node] = name[i]
    BY <1>9 DEF SiblingMatches, Matches, Searching, heap, fields
  <2>2. name \in Seq(Chars) /\ i \in Nat \ {0} /\ i <= Len(name) /\ Len(name) \in Nat
    BY <2>1, <1>0, LenProperties DEF TInv, TypeOK, Places
  <2>3. Prefix' = SubSeq(name, 1, i) /\ i' <= Len(name') + 1
    BY <2>1, <2>2 DEF Prefix
  <2>4. spell[node] = SubSeq(name, 1, i)
    BY <2>1, <2>2, OneMore DEF NInv, Standing, Prefix
  <2>5. Standing'
    BY <2>1, <2>3, <2>4 DEF Standing
  <2> QED
    BY <1>0, <1>1, <2>1, <2>5 DEF NInv
<1>10. CASE SiblingDiffers \/ NextSibling
  <2>1. /\ Same /\ pc \in {"sibling", "lastsib"} /\ pc' = pc
        /\ UNCHANGED <<name, i, lastNode>> /\ node' = LNode[node] /\ node \in Addr
        /\ pc = "lastsib" => LNode[node] # NULL
    BY <1>10, <1>0 DEF SiblingDiffers, NextSibling, NextLeft, Searching, heap, fields,
                       SInv, TInv, TypeOK, Places, Ptr
  <2>2. node \in alloc /\ data[node] \in Chars \union {Root} /\ Prefix \in Seq(Chars)
    <3>1. name \in Seq(Chars) /\ i \in Nat \ {0} /\ i <= Len(name)
      BY <2>1, <1>0 DEF TInv, TypeOK, Places
    <3>2. \A k \in 1..(i - 1) : name[k] \in Chars
      BY <3>1, ElementOfSeq, LenProperties
    <3>3. Prefix \in Seq(Chars)
      BY <3>1, <3>2, SubSeqProperties DEF Prefix
    <3> QED
      BY <2>1, <1>0, <3>3 DEF SInv, TInv, TypeOK
  <2>3. spell[node] = Append(Prefix, data[node])
    BY <2>1, <2>2 DEF NInv, Standing
  <2>4. LNode[node] # NULL => spell[LNode[node]] = Append(Prefix, data[LNode[node]])
    BY <2>1, <2>2, <2>3, OneLess DEF NInv, Spelt
  <2>5. Standing'
    BY <2>1, <2>4 DEF NInv, Standing, Prefix
  <2> QED
    BY <1>0, <1>1, <2>1, <2>5 DEF NInv
<1>11. CASE ToSiblings
  <2>1. /\ Same /\ pc = "insert" /\ pc' = "lastsib" /\ UNCHANGED <<name, i>>
        /\ node' = RNode[node] /\ RNode[node] # NULL /\ node \in alloc
    BY <1>11, <1>0 DEF ToSiblings, Searching, heap, fields, SInv
  <2>2. spell[RNode[node]] = Append(Prefix, data[RNode[node]])
    BY <2>1 DEF NInv, Spelt, Standing
  <2>3. Standing'
    BY <2>1, <2>2 DEF Standing, Prefix
  <2> QED
    BY <1>0, <1>1, <2>1, <2>3 DEF NInv
<1>12. CASE AddRight \/ AddLeft
  <2>1. Shape /\ Spelt /\ node \in alloc /\ pc \in {"insert", "lastsib"} /\ i <= Len(name)
    BY <1>12, <1>0, LenProperties DEF AddRight, AddLeft, AtEnd, NInv, SInv, TInv, TypeOK, Places
  <2>2. PICK a \in Addr :
          /\ NewNode(a)
          /\ \/ /\ pc = "insert" /\ RNode[node] = NULL
                /\ RNode' = [RNode EXCEPT ![node] = a, ![a] = NULL]
                /\ LNode' = [LNode EXCEPT ![a] = NULL]
             \/ /\ pc = "lastsib" /\ LNode[node] = NULL
                /\ LNode' = [LNode EXCEPT ![node] = a, ![a] = NULL]
                /\ RNode' = [RNode EXCEPT ![a] = NULL]
    BY <1>12 DEF AddRight, AddLeft
  <2>3. pc' = "insert"
    BY <2>2 DEF NewNode
  <2> QED
    BY <1>0, <2>1, <2>2, <2>3, NewNodeSpelt DEF NInv
<1>13. CASE PruneNode
  <2>1. Shape /\ Spelt /\ node \in alloc /\ pc = "prune" /\ pc' = "prune"
    BY <1>13, <1>0 DEF PruneNode, NInv, SInv
  <2> QED
    BY <1>0, <1>13, <2>1, PruneSpelt DEF NInv, Standing
<1>14. CASE CloseTree
  BY <1>0, <1>14 DEF CloseTree, heap, fields, NInv, PluginAtItsName, HasPlugin, Standing
<1>15. CASE FreeVisit \/ FreeNext \/ FreeReturn
  <2>1. /\ pc = "free" /\ pc' = "free" /\ alloc' \subseteq alloc
        /\ \A a \in alloc' : spell'[a] = spell[a] /\ plug'[a] \in {plug[a], Missing, Stale}
    BY <1>15, <1>0 DEF FreeVisit, FreeNext, FreeReturn, FreeRowEnd, Freeing, FreeLast, FreeCell,
                       heap, fields, TInv, TypeOK
  <2>2. PluginAtItsName'
    BY <2>1 DEF PluginAtItsName, HasPlugin, NInv
  <2> QED
    BY <1>0, <2>1, <2>2 DEF NInv, Standing
<1>16. CASE TreeClosed \/ MallocFails \/ Crash
  <2>1. Gone
    BY <1>16 DEF TreeClosed, MallocFails, Crash
  <2> QED
    BY <1>0, <2>1 DEF Gone, NInv, PluginAtItsName, HasPlugin, Standing
<1> QED
  BY <1>2, <1>3, <1>4, <1>5, <1>6, <1>7, <1>8, <1>9, <1>10, <1>11, <1>12, <1>13, <1>14,
     <1>15, <1>16 DEF Next, Open, Free

(* The links spell the strings the nodes were made for.                      *)
THEOREM NamesAreSpelt == Spec => []LinksSpell
<1>1. Spec => []NInv
  BY SpeltInit, SpeltNext, PTL DEF Spec
<1>2. NInv => LinksSpell
  BY DEF NInv, Spelt, LinksSpell
<1> QED
  BY <1>1, <1>2, PTL

(* A plugin is loaded into the node of its own name and stays there: it      *)
(* answers no message with another name.                                     *)
THEOREM PluginsStayAtTheirNames == Spec => []PluginAtItsName
<1>1. Spec => []NInv
  BY SpeltInit, SpeltNext, PTL DEF Spec
<1>2. NInv => PluginAtItsName
  BY DEF NInv
<1> QED
  BY <1>1, <1>2, PTL
=============================================================================
