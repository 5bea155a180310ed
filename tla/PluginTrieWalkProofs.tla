----------------------- MODULE PluginTrieWalkProofs -----------------------
(* What the loader leaves behind: a name that names no plugin leaves no node *)
(* in the trie, and free_so_file_node follows no node that is freed and      *)
(* leaves none.  No string has two nodes, and so the trie implements         *)
(* PluginTable.  None of its loops runs for ever.  All of it for every set   *)
(* of cells and of names.                                                    *)
EXTENDS PluginTrieProofs, WellFoundedInduction, FiniteSetTheorems

(* Every node but the root and those of S has a plugin or leads on to a node *)
(* that is not of S.                                                         *)
Alive(S) == \A a \in alloc \ (S \union {head}) : plug[a] # Missing \/ RNode[a] \in alloc \ S

(* S: the nodes open_plugin has added.  They follow one another on the right *)
(* down to the one it is at.                                                 *)
Fresh(S) ==
  /\ head \notin S
  /\ \A a \in S :
       /\ a \in alloc /\ plug[a] = Missing /\ LNode[a] = NULL
       /\ RNode[a] \in S \/ (a = node /\ RNode[a] = NULL)

Living ==
  /\ pc \in {"idle", "find", "sibling", "lastsib"} => Alive({})
  /\ pc \in {"insert", "prune"} /\ newNode = NULL => Alive({})
  /\ pc \in {"insert", "prune"} /\ newNode # NULL =>
       \E S \in SUBSET Addr : Fresh(S) /\ Alive(S) /\ (pc = "insert" => node \in S)
  /\ pc = "insert" /\ newNode # NULL => RNode[node] = NULL
  /\ pc = "insert" /\ newNode = NULL /\ AtEnd => plug[node] = Missing
  /\ pc \in {"find", "sibling", "lastsib"} => newNode = NULL

LInv == NInv /\ Living
-----------------------------------------------------------------------------
(* Before the first process the trie has no nodes. *)
LEMMA LivingInit == Init => LInv
  BY SpeltInit DEF Init, LInv, Living

(* A node added behind a node with a plugin, behind the last one added or to *)
(* the left of a row is the only new one that leads nowhere.                 *)
LEMMA NewNodeLiving ==
  ASSUME LInv, Shape, node \in alloc, NEW a \in Addr, NewNode(a),
         \/ /\ pc = "insert" /\ RNode[node] = NULL
            /\ RNode' = [RNode EXCEPT ![node] = a, ![a] = NULL]
            /\ LNode' = [LNode EXCEPT ![a] = NULL]
         \/ /\ pc = "lastsib" /\ LNode[node] = NULL
            /\ LNode' = [LNode EXCEPT ![node] = a, ![a] = NULL]
            /\ RNode' = [RNode EXCEPT ![a] = NULL]
  PROVE  Living'
<1> USE NamesAssumption
<1>0. TInv /\ TypeOK
  BY DEF LInv, NInv, SInv, TInv
<1>1. /\ a \notin alloc /\ alloc' = alloc \union {a} /\ head' = head /\ node' = a
      /\ plug' = plug /\ pc' = "insert" /\ newNode' # NULL
      /\ newNode' = IF newNode = NULL THEN a ELSE newNode
  BY DEF NewNode
<1>2. /\ RNode'[a] = NULL /\ LNode'[a] = NULL /\ plug[a] = Missing /\ head # a
      /\ \A b \in alloc \ {node} : RNode'[b] = RNode[b] /\ LNode'[b] = LNode[b]
      /\ pc = "insert" => RNode'[node] = a /\ LNode'[node] = LNode[node]
      /\ pc = "lastsib" => RNode'[node] = RNode[node]
  BY <1>0, <1>1 DEF TypeOK, LInv, NInv, Shape
<1>3. alloc \subseteq Addr /\ a # NULL
  BY <1>0 DEF TypeOK
<1>4. CASE newNode = NULL
  <2>1. Alive({})
    BY <1>4 DEF LInv, Living
  <2>2. Alive({a})'
    BY <1>1, <1>2, <1>3, <2>1 DEF Alive
  <2>3. Fresh({a})'
    BY <1>1, <1>2 DEF Fresh
  <2> QED
    BY <1>1, <1>2, <2>2, <2>3 DEF Living
<1>5. CASE newNode # NULL
  <2>1. pc = "insert"
    BY <1>5 DEF LInv, Living
  <2>2. PICK S \in SUBSET Addr : Fresh(S) /\ Alive(S) /\ node \in S
    BY <1>5, <2>1 DEF LInv, Living
  <2>3. Alive(S \union {a})'
    BY <1>1, <1>2, <1>3, <2>2 DEF Alive
  <2>4. Fresh(S \union {a})'
    BY <1>1, <1>2, <2>1, <2>2 DEF Fresh
  <2>5. S \union {a} \in SUBSET Addr /\ node' \in S \union {a}
    BY <1>1
  <2> QED
    BY <1>1, <1>2, <2>3, <2>4, <2>5 DEF Living
<1> QED
  BY <1>4, <1>5

(* The node that is pruned is the last one added that is left. *)
LEMMA PruneLiving ==
  ASSUME LInv, Shape, node \in alloc, PruneNode
  PROVE  Living'
<1> USE NamesAssumption
<1>0. TypeOK /\ alloc \subseteq Addr
  BY DEF LInv, NInv, SInv, TInv, TypeOK
<1> DEFINE f == FNode[node]
<1>1. /\ f # NULL /\ LNode[node] = NULL /\ RNode[node] = NULL /\ plug[node] = Missing
      /\ alloc' = alloc \ {node} /\ head' = head /\ node' = f /\ plug' = plug
      /\ newNode # NULL /\ newNode' = newNode /\ pc = "prune" /\ pc' = "prune"
  BY DEF PruneNode, Prunable, FreeCell, Added
<1>2. node # head /\ f \in alloc /\ (RNode[f] = node <=> LNode[f] # node)
  BY <1>1 DEF Shape
<1>3. \/ /\ LNode[f] = node /\ RNode[f] # node /\ RNode' = RNode
         /\ LNode' = [LNode EXCEPT ![f] = NULL]
      \/ /\ RNode[f] = node /\ LNode[f] # node /\ LNode' = LNode
         /\ RNode' = [RNode EXCEPT ![f] = NULL]
  BY <1>2 DEF PruneNode, Unlink
<1>4. PICK S \in SUBSET Addr : Fresh(S) /\ Alive(S)
  BY <1>1 DEF LInv, Living
<1>5. node \in S
  BY <1>0, <1>1, <1>2, <1>4 DEF Alive
<1>6. PICK T \in SUBSET Addr : T = S \ {node}
  OBVIOUS
<1>7. Fresh(T)'
  <2> SUFFICES ASSUME NEW b \in T
               PROVE  /\ b \in alloc' /\ plug'[b] = Missing /\ LNode'[b] = NULL
                      /\ RNode'[b] \in T \/ (b = node' /\ RNode'[b] = NULL)
    BY <1>1, <1>4, <1>6 DEF Fresh
  <2>1. b \in alloc /\ plug[b] = Missing /\ LNode[b] = NULL
        /\ RNode[b] \in S
    BY <1>4, <1>6, <1>1 DEF Fresh
  <2>2. LNode'[b] = NULL
    BY <1>0, <1>3, <2>1 DEF TypeOK
  <2>3. CASE RNode[b] = node
    <3>1. b = f /\ LNode[f] # node
      BY <1>0, <1>2, <2>1, <2>3 DEF Shape
    <3>2. RNode'[f] = NULL
      BY <1>0, <1>2, <1>3, <3>1 DEF TypeOK
    <3> QED
      BY <1>1, <1>6, <2>1, <2>2, <3>1, <3>2
  <2>4. CASE RNode[b] # node
    <3>1. RNode'[b] = RNode[b]
      BY <1>0, <1>3, <2>1, <2>4 DEF TypeOK
    <3> QED
      BY <1>1, <1>6, <2>1, <2>2, <2>4, <3>1
  <2> QED
    BY <2>3, <2>4
<1>8. Alive(T)'
  <2> SUFFICES ASSUME NEW b \in alloc \ (S \union {head}), plug[b] = Missing
               PROVE  RNode'[b] \in alloc' \ T
    BY <1>1, <1>5, <1>6 DEF Alive
  <2>1. RNode[b] \in alloc \ S
    BY <1>4 DEF Alive
  <2>2. RNode[b] # node
    BY <1>5, <2>1
  <2>3. RNode'[b] = RNode[b]
    BY <1>0, <1>3, <2>2 DEF TypeOK
  <2> QED
    BY <1>1, <1>6, <2>1, <2>2, <2>3
<1> QED
  BY <1>1, <1>7, <1>8 DEF Living

(* Every step keeps the branches alive. *)
LEMMA LivingNext == LInv /\ [Next]_vars => LInv'
<1> SUFFICES ASSUME LInv, [Next]_vars PROVE Living'
  BY SpeltNext DEF LInv
<1>0. NInv /\ SInv /\ TInv /\ TypeOK
  BY DEF LInv, NInv, SInv, TInv
<1> USE NamesAssumption DEF Opening
<1>1. CASE UNCHANGED vars
  BY <1>1 DEF vars, LInv, Living, Alive, Fresh, AtEnd
<1>2. CASE Start
  BY <1>2 DEF Start, Living, Alive
<1>3. ASSUME NEW n \in Names, OpenPlugin(n) PROVE Living'
  BY <1>3 DEF OpenPlugin, heap, fields, LInv, Living, Alive
<1>4. CASE FindRight \/ NoRightNode \/ FoundBare \/ SiblingMatches \/ SiblingDiffers
           \/ NoSibling \/ ToSiblings \/ NextSibling
  <2>1. /\ pc \in {"find", "sibling", "insert", "lastsib"}
        /\ UNCHANGED <<head, alloc, plug, RNode, newNode>>
        /\ newNode = NULL /\ pc' \in {"find", "sibling", "insert", "lastsib"}
    BY <1>4 DEF LInv, Living, FindRight, NoRightNode, FoundBare, SiblingMatches, SiblingDiffers,
                NoSibling, ToSiblings, NextSibling, Searching, heap, fields
  <2>2. Alive({})'
    BY <2>1 DEF LInv, Living, Alive
  <2>3. pc' = "insert" /\ AtEnd' => plug'[node'] = Missing
    <3>1. CASE FoundBare
      BY <3>1 DEF FoundBare, Bare, Searching, heap, fields
    <3>2. CASE NoRightNode
      BY <3>2 DEF NoRightNode, Searching, AtEnd
    <3>3. CASE NoSibling
      <4>1. i \in Nat /\ Len(name) \in Nat /\ i <= Len(name)
        BY <1>0, <3>3, LenProperties DEF NoSibling, Searching, TypeOK, TInv, Places
      <4>2. i' = i /\ name' = name
        BY <3>3 DEF NoSibling, Searching
      <4> QED
        BY <4>1, <4>2 DEF AtEnd
    <3> QED
      BY <1>4, <3>1, <3>2, <3>3 DEF FindRight, SiblingMatches, SiblingDiffers, ToSiblings,
                                    NextSibling, Searching
  <2> QED
    BY <2>1, <2>2, <2>3 DEF Living
<1>5. CASE AddRight \/ AddLeft
  <2>1. Shape /\ node \in alloc
    BY <1>0, <1>5 DEF AddRight, AddLeft, SInv
  <2>2. PICK a \in Addr :
          /\ NewNode(a)
          /\ \/ /\ pc = "insert" /\ RNode[node] = NULL
                /\ RNode' = [RNode EXCEPT ![node] = a, ![a] = NULL]
                /\ LNode' = [LNode EXCEPT ![a] = NULL]
             \/ /\ pc = "lastsib" /\ LNode[node] = NULL
                /\ LNode' = [LNode EXCEPT ![node] = a, ![a] = NULL]
                /\ RNode' = [RNode EXCEPT ![a] = NULL]
    BY <1>5 DEF AddRight, AddLeft
  <2> QED
    BY <2>1, <2>2, NewNodeLiving
<1>6. CASE Found
  BY <1>6 DEF Found, Returns, NoLocals, heap, fields, LInv, Living, Alive
<1>7. ASSUME NEW k \in {"so", "py"}, Load(k) PROVE Living'
  <2>1. /\ pc' = "idle" /\ alloc' = alloc /\ RNode' = RNode /\ head' = head
        /\ plug' = [plug EXCEPT ![node] = [kind |-> k, name |-> name]]
        /\ [kind |-> k, name |-> name] # Missing /\ node \in alloc /\ pc = "insert"
    BY <1>0, <1>7 DEF Load, Returns, SInv, TInv, Places
  <2>2. \A b \in alloc : plug'[b] # Missing <=> plug[b] # Missing \/ b = node
    BY <1>0, <2>1 DEF TypeOK
  <2>3. Alive({})'
    <3>1. CASE newNode = NULL
      BY <3>1, <2>1, <2>2 DEF LInv, Living, Alive
    <3>2. CASE newNode # NULL
      <4>1. PICK S \in SUBSET Addr : Fresh(S) /\ Alive(S)
        BY <2>1, <3>2 DEF LInv, Living
      <4> QED
        BY <2>1, <2>2, <4>1 DEF Fresh, Alive
    <3> QED
      BY <3>1, <3>2
  <2> QED
    BY <2>1, <2>3 DEF Living
<1>8. CASE NoSuchPlugin
  <2>1. plug[node] = Missing
    BY <1>8 DEF NoSuchPlugin, LInv, Living, Fresh
  <2>2. plug' = plug
    BY <1>0, <1>8, <2>1 DEF NoSuchPlugin, ClearModule, TypeOK
  <2>3. /\ pc = "insert" /\ pc' = "prune"
        /\ UNCHANGED <<alloc, RNode, LNode, head, node, newNode>>
    BY <1>8 DEF NoSuchPlugin
  <2> QED
    BY <2>2, <2>3 DEF LInv, Living, Alive, Fresh
<1>9. CASE PruneNode
  <2>1. Shape /\ node \in alloc
    BY <1>0, <1>9 DEF PruneNode, SInv
  <2> QED
    BY <1>9, <2>1, PruneLiving
<1>10. CASE PruneDone
  <2>1. /\ pc = "prune" /\ pc' = "idle" /\ ~Prunable
        /\ UNCHANGED <<alloc, RNode, plug, head>> /\ Shape /\ node \in alloc
    BY <1>0, <1>10 DEF PruneDone, Returns, heap, fields, SInv
  <2>2. Alive({})
    <3>1. CASE newNode = NULL
      BY <3>1, <2>1 DEF LInv, Living
    <3>2. CASE newNode # NULL
      <4>1. PICK S \in SUBSET Addr : Fresh(S) /\ Alive(S)
        BY <2>1, <3>2 DEF LInv, Living
      <4>2. \A a \in S : RNode[a] \in S
        <5> SUFFICES ASSUME NEW a \in S, RNode[a] \notin S PROVE FALSE
          OBVIOUS
        <5>1. a = node /\ RNode[node] = NULL /\ LNode[node] = NULL /\ plug[node] = Missing
              /\ node # head
          BY <4>1 DEF Fresh
        <5>2. FNode[node] \in Addr
          BY <1>0, <2>1, <5>1 DEF Shape, TypeOK
        <5> QED
          BY <2>1, <3>2, <5>1, <5>2 DEF Prunable, Added
      <4> QED
        BY <4>1, <4>2 DEF Fresh, Alive
    <3> QED
      BY <3>1, <3>2
  <2> QED
    BY <2>1, <2>2 DEF Living, Alive
<1>11. CASE CloseTree \/ FreeVisit \/ FreeNext \/ FreeReturn
  BY <1>11 DEF CloseTree, FreeVisit, FreeNext, FreeReturn, Freeing, Living
<1>12. CASE TreeClosed \/ MallocFails \/ Crash
  BY <1>12 DEF TreeClosed, MallocFails, Crash, Gone, Living
<1> QED
  BY <1>1, <1>2, <1>3, <1>4, <1>5, <1>6, <1>7, <1>8, <1>9, <1>10, <1>11, <1>12
  DEF Next, Open, Free

(* An unknown name leaves no node behind: between messages every branch ends *)
(* in a plugin.                                                              *)
THEOREM NoBranchStaysDead == Spec => []NoDeadBranches
<1>1. Spec => []LInv
  BY LivingInit, LivingNext, PTL DEF Spec
<1>2. LInv => NoDeadBranches
  BY NamesAssumption DEF LInv, NInv, SInv, TInv, TypeOK, Living, Alive, NoDeadBranches
<1> QED
  BY <1>1, <1>2, PTL
-----------------------------------------------------------------------------
Apart == \A a \in alloc : FNode[a] # a
Depth(a) == Len(spell[a])

(* The first node of a frame's row that is not freed. *)
First(f) == IF ~f.inside /\ f.last # NULL THEN f.last ELSE f.l

(* Frame k of the stack is at depth k - 1. *)
FrameOK(k) ==
  LET f == stack[k] IN
    /\ k < Len(stack) => f.inside
    /\ f.l \in alloc \union {NULL} /\ (f.inside => f.l \in alloc)
    /\ f.l # NULL => Depth(f.l) = k - 1
    /\ ~f.inside /\ f.last # NULL =>
         f.last \in alloc /\ Depth(f.last) = k - 1 /\ LNode[f.last] = f.l /\ f.l # f.last
    /\ First(f) # NULL =>
         FNode[First(f)] \notin alloc \/ (k > 1 /\ FNode[First(f)] = stack[k - 1].l)

Passed(a) ==
  \E k \in 1..Len(stack) : a = IF stack[k].inside THEN stack[k].l ELSE stack[k].last

Links ==
  \A a \in alloc :
    /\ FNode[a] # a
    /\ LNode[a] # NULL => LNode[a] \in alloc /\ FNode[LNode[a]] = a /\ Depth(LNode[a]) = Depth(a)
    /\ RNode[a] # NULL /\ RNode[a] \in alloc => FNode[RNode[a]] = a /\ Depth(RNode[a]) = Depth(a) + 1
    /\ RNode[a] # NULL => RNode[a] \in alloc \/ Passed(a)

WInv ==
  /\ NInv
  /\ pc \notin {"off", "free"} => Apart
  /\ pc # "free" => stack = <<>>
  /\ pc = "free" => Links /\ \A k \in 1..Len(stack) : FrameOK(k)

(* Under the top frame the stack is what it was. *)
LEMMA CallerKept ==
  ASSUME NEW s \in Seq(Frames), s # <<>>, NEW e \in Frames, NEW d \in Frames
  PROVE  LET n == Len(s)
             c == SubSeq(s, 1, n - 1)
         IN  /\ n \in Nat \ {0} /\ c \in Seq(Frames)
             /\ Len(c) = n - 1 /\ \A k \in 1..(n - 1) : c[k] = s[k]
             /\ Len(Append(c, e)) = n /\ Append(c, e)[n] = e
             /\ \A k \in 1..(n - 1) : Append(c, e)[k] = s[k]
             /\ Len(Append(Append(c, e), d)) = n + 1 /\ Append(Append(c, e), d)[n + 1] = d
             /\ Append(Append(c, e), d)[n] = e
             /\ \A k \in 1..(n - 1) : Append(Append(c, e), d)[k] = s[k]
<1> DEFINE n == Len(s)
           c == SubSeq(s, 1, n - 1)
<1>1. n \in Nat \ {0}
  BY EmptySeq, LenProperties
<1>2. c \in Seq(Frames)
  BY StackParts
<1>3. Len(c) = n - 1 /\ \A k \in 1..(n - 1) : c[k] = s[k]
  <2>1. \A k \in 1..(n - 1) : s[k] \in Frames
    BY <1>1, ElementOfSeq
  <2>2. 1 \in Int /\ n - 1 \in Int /\ n \in Nat \ {0}
    BY <1>1
  <2>3. /\ Len(c) = IF 1 <= n - 1 THEN (n - 1) - 1 + 1 ELSE 0
        /\ \A k \in 1..((n - 1) - 1 + 1) : c[k] = s[1 + k - 1]
    <3> HIDE DEF n
    <3> QED
      BY <2>1, <2>2, SubSeqProperties
  <2> HIDE DEF n, c
  <2> QED
    BY <2>2, <2>3
<1> HIDE DEF n, c
<1>4. /\ Append(c, e) \in Seq(Frames) /\ Len(Append(c, e)) = n /\ Append(c, e)[n] = e
      /\ \A k \in 1..(n - 1) : Append(c, e)[k] = s[k]
  BY <1>1, <1>2, <1>3, AppendProperties
<1>5. /\ Len(Append(Append(c, e), d)) = n + 1 /\ Append(Append(c, e), d)[n + 1] = d
      /\ \A k \in 1..n : Append(Append(c, e), d)[k] = Append(c, e)[k]
  BY <1>1, <1>4, AppendProperties
<1> QED
  BY <1>1, <1>2, <1>3, <1>4, <1>5 DEF n, c

(* A character replaced keeps the length of a string; one added makes it one *)
(* longer.                                                                   *)
LEMMA LengthKept ==
  ASSUME NEW p \in Seq(Chars), NEW c \in Chars \union {Root}
  PROVE  /\ Len(Append(p, c)) = Len(p) + 1
         /\ p # <<>> => Len(Append(SubSeq(p, 1, Len(p) - 1), c)) = Len(p)
<1>1. p \in Seq(Chars \union {Root})
  OBVIOUS
<1>2. p # <<>> => Len(p) \in Nat \ {0}
  BY EmptySeq, LenProperties
<1>3. Len(Append(p, c)) = Len(p) + 1
  BY <1>1, AppendProperties
<1>4. ASSUME p # <<>> PROVE Len(Append(SubSeq(p, 1, Len(p) - 1), c)) = Len(p)
  <2> DEFINE m == Len(p) - 1
             q == SubSeq(p, 1, m)
  <2>1. \A k \in 1..m : p[k] \in Chars \union {Root}
    BY <1>1, <1>2, <1>4, ElementOfSeq
  <2>2. m \in Nat /\ 1 \in Int /\ m \in Int /\ Len(p) = m + 1
    BY <1>2, <1>4
  <2> HIDE DEF m
  <2>3. q \in Seq(Chars \union {Root}) /\ Len(q) = IF 1 <= m THEN m - 1 + 1 ELSE 0
    BY <2>1, <2>2, SubSeqProperties
  <2> HIDE DEF q
  <2>4. Len(Append(q, c)) = m + 1
    BY <2>2, <2>3, AppendProperties
  <2> QED
    BY <2>2, <2>4 DEF q, m
<1> QED
  BY <1>3, <1>4

(* A frame under the top one stays as it is while its node is there. *)
LEMMA LowerFrame ==
  ASSUME TypeOK, NEW k \in 1..(Len(stack) - 1), FrameOK(k), Len(stack) \in Nat, Len(stack') \in Nat,
         alloc' \subseteq alloc,
         \A a \in alloc' : Depth(a)' = Depth(a) /\ FNode'[a] = FNode[a],
         \A j \in 1..(Len(stack) - 1) : stack[j].l \in alloc' /\ stack'[j] = stack[j]
  PROVE  FrameOK(k)'
<1> USE NamesAssumption
<1>1. k < Len(stack) /\ (k > 1 => k - 1 \in 1..(Len(stack) - 1))
  OBVIOUS
<1>2. /\ stack'[k] = stack[k] /\ stack[k].inside /\ stack[k].l \in alloc'
      /\ stack[k].l # NULL /\ Depth(stack[k].l) = k - 1
      /\ FNode[stack[k].l] \notin alloc \/ (k > 1 /\ FNode[stack[k].l] = stack[k - 1].l)
  <2>1. stack'[k] = stack[k] /\ stack[k].l \in alloc' /\ stack[k].l # NULL
    BY DEF TypeOK
  <2>2. stack[k].inside /\ Depth(stack[k].l) = k - 1
    BY <1>1, <2>1 DEF FrameOK
  <2> QED
    BY <2>1, <2>2 DEF FrameOK, First
<1>3. k > 1 => stack'[k - 1] = stack[k - 1]
  BY <1>1
<1>4. Depth(stack[k].l)' = k - 1 /\ FNode'[stack[k].l] = FNode[stack[k].l]
  BY <1>2
<1> QED
  BY <1>2, <1>3, <1>4 DEF FrameOK, First

(* Before the first process there is nothing to walk. *)
LEMMA WalkInit == Init => WInv
  BY SpeltInit DEF Init, WInv

(* What freeing the last node of the top frame leaves: the frames under it,  *)
(* the node the frame is at, and the links of every node that is left.       *)
LEMMA FreeTop ==
  ASSUME WInv, pc = "free", stack # <<>>, ~Top.inside, FreeLast(Top.last)
  PROVE  LET n == Len(stack) IN
         /\ alloc' \subseteq alloc
         /\ \A a \in alloc' : Depth(a)' = Depth(a) /\ FNode'[a] = FNode[a]
         /\ \A k \in 1..(n - 1) : stack[k].l \in alloc'
         /\ Top.l # NULL =>
              /\ Top.l \in alloc' /\ Depth(Top.l) = n - 1
              /\ FNode[Top.l] \notin alloc' \/ (n > 1 /\ FNode[Top.l] = stack[n - 1].l)
              /\ RNode[Top.l] # NULL =>
                   RNode[Top.l] \in alloc' /\ FNode[RNode[Top.l]] = Top.l
                   /\ Depth(RNode[Top.l]) = n
         /\ \A a \in alloc' :
              /\ FNode'[a] # a
              /\ LNode'[a] # NULL =>
                   LNode'[a] \in alloc' /\ FNode[LNode'[a]] = a /\ Depth(LNode'[a]) = Depth(a)
              /\ RNode'[a] # NULL /\ RNode'[a] \in alloc' =>
                   FNode[RNode'[a]] = a /\ Depth(RNode'[a]) = Depth(a) + 1
              /\ RNode'[a] # NULL => RNode'[a] \in alloc' \/ \E k \in 1..(n - 1) : a = stack[k].l
<1> USE NamesAssumption
<1> DEFINE n == Len(stack)
           x == Top.last
<1>1. /\ TypeOK /\ n \in Nat \ {0} /\ Top = stack[n] /\ Top \in Frames /\ alloc \subseteq Addr
      /\ Links /\ \A k \in 1..n : FrameOK(k)
  BY StackParts, EmptySeq, LenProperties DEF WInv, NInv, SInv, TInv, TypeOK, Top
<1>2. \A a \in Addr : Depth(a) \in Nat
  BY <1>1, LenProperties DEF TypeOK, Depth
<1>3. \A k \in 1..(n - 1) :
        /\ stack[k].inside /\ stack[k].l \in alloc /\ Depth(stack[k].l) = k - 1
        /\ FNode[stack[k].l] \notin alloc \/ (k > 1 /\ FNode[stack[k].l] = stack[k - 1].l)
  <2> SUFFICES ASSUME NEW k \in 1..(n - 1)
               PROVE  /\ stack[k].inside /\ stack[k].l \in alloc /\ Depth(stack[k].l) = k - 1
                      /\ \/ FNode[stack[k].l] \notin alloc
                         \/ k > 1 /\ FNode[stack[k].l] = stack[k - 1].l
    OBVIOUS
  <2>1. k < Len(stack) /\ FrameOK(k)
    BY <1>1
  <2>2. stack[k].inside /\ stack[k].l \in alloc
    BY <2>1 DEF FrameOK
  <2>3. stack[k].l # NULL
    BY <1>1, <2>2
  <2> QED
    BY <2>1, <2>2, <2>3 DEF FrameOK, First
<1>4. /\ Top.l \in alloc \union {NULL} /\ (Top.l # NULL => Depth(Top.l) = n - 1)
      /\ x # NULL => x \in alloc /\ Depth(x) = n - 1 /\ LNode[x] = Top.l /\ Top.l # x
                     /\ (FNode[x] \notin alloc \/ (n > 1 /\ FNode[x] = stack[n - 1].l))
      /\ x = NULL /\ Top.l # NULL =>
           FNode[Top.l] \notin alloc \/ (n > 1 /\ FNode[Top.l] = stack[n - 1].l)
  BY <1>1 DEF FrameOK, First
<1> HIDE DEF n, x
<1>5. /\ alloc' = alloc \ {x}
      /\ \A a \in alloc' : /\ Depth(a)' = Depth(a) /\ FNode'[a] = FNode[a]
                           /\ RNode'[a] = RNode[a] /\ LNode'[a] = LNode[a]
  <2>1. CASE x = NULL
    BY <1>1, <2>1 DEF FreeLast, Depth, x
  <2>2. CASE x # NULL
    BY <1>1, <1>4, <2>2 DEF FreeLast, FreeCell, TypeOK, Depth, x
  <2> QED
    BY <2>1, <2>2
<1>6. \A k \in 1..(n - 1) : stack[k].l \in alloc'
  <2> SUFFICES ASSUME NEW k \in 1..(n - 1), stack[k].l = x PROVE FALSE
    BY <1>3, <1>5
  <2>1. x # NULL /\ Depth(x) = k - 1
    BY <1>1, <1>3
  <2> QED
    BY <1>1, <1>4, <2>1
<1>7. \A k \in 1..n : \A a \in alloc' :
        a = (IF stack[k].inside THEN stack[k].l ELSE stack[k].last) => k < n /\ a = stack[k].l
  <2> SUFFICES ASSUME NEW k \in 1..n, NEW a \in alloc',
                      a = IF stack[k].inside THEN stack[k].l ELSE stack[k].last
               PROVE  k < n /\ a = stack[k].l
    OBVIOUS
  <2>1. CASE k = n
    BY <1>1, <1>5, <2>1 DEF x
  <2>2. CASE k # n
    <3>1. k \in 1..(n - 1)
      BY <1>1, <2>2
    <3> QED
      BY <1>1, <1>3, <3>1
  <2> QED
    BY <2>1, <2>2
<1>8. ASSUME NEW a \in alloc'
      PROVE  /\ FNode'[a] # a
             /\ LNode'[a] # NULL =>
                  LNode'[a] \in alloc' /\ FNode[LNode'[a]] = a /\ Depth(LNode'[a]) = Depth(a)
             /\ RNode'[a] # NULL /\ RNode'[a] \in alloc' =>
                  FNode[RNode'[a]] = a /\ Depth(RNode'[a]) = Depth(a) + 1
             /\ RNode'[a] # NULL => RNode'[a] \in alloc' \/ \E k \in 1..(n - 1) : a = stack[k].l
  <2>1. /\ a \in alloc /\ FNode'[a] = FNode[a] /\ RNode'[a] = RNode[a] /\ LNode'[a] = LNode[a]
    BY <1>5
  <2>2. FNode'[a] # a
    BY <1>1, <2>1 DEF Links
  <2>3. LNode[a] # NULL => LNode[a] \in alloc' /\ FNode[LNode[a]] = a /\ Depth(LNode[a]) = Depth(a)
    <3> SUFFICES ASSUME LNode[a] # NULL
                 PROVE  LNode[a] \in alloc' /\ FNode[LNode[a]] = a /\ Depth(LNode[a]) = Depth(a)
      OBVIOUS
    <3>1. LNode[a] \in alloc /\ FNode[LNode[a]] = a /\ Depth(LNode[a]) = Depth(a)
      BY <1>1, <2>1 DEF Links
    <3>2. ASSUME LNode[a] = x PROVE FALSE
      <4>1. x # NULL /\ FNode[x] = a /\ Depth(a) = n - 1
        BY <1>4, <3>1, <3>2
      <4>2. n > 1 /\ a = stack[n - 1].l
        BY <1>4, <2>1, <4>1
      <4>3. Depth(a) = (n - 1) - 1
        BY <1>1, <1>3, <4>2
      <4> QED
        BY <1>1, <4>1, <4>3
    <3> QED
      BY <1>5, <3>1, <3>2
  <2>4. RNode[a] # NULL /\ RNode[a] \in alloc' =>
          FNode[RNode[a]] = a /\ Depth(RNode[a]) = Depth(a) + 1
    BY <1>1, <1>5, <2>1 DEF Links
  <2>5. ASSUME RNode[a] # NULL, RNode[a] \notin alloc'
        PROVE  \E k \in 1..(n - 1) : a = stack[k].l
    <3>1. CASE RNode[a] \notin alloc
      <4>1. Passed(a)
        BY <1>1, <2>1, <2>5, <3>1 DEF Links
      <4>2. PICK k \in 1..n : a = IF stack[k].inside THEN stack[k].l ELSE stack[k].last
        BY <4>1 DEF Passed, n
      <4>3. k < n /\ a = stack[k].l
        BY <1>7, <4>2
      <4> QED
        BY <1>1, <4>3
    <3>2. CASE RNode[a] \in alloc
      <4>1. RNode[a] = x /\ x # NULL /\ FNode[x] = a
        BY <1>1, <1>5, <2>1, <2>5, <3>2 DEF Links
      <4>2. n > 1 /\ a = stack[n - 1].l
        BY <1>4, <2>1, <4>1
      <4> QED
        BY <1>1, <4>2
    <3> QED
      BY <3>1, <3>2
  <2> QED
    BY <2>1, <2>2, <2>3, <2>4, <2>5
<1>9. ASSUME Top.l # NULL
      PROVE  /\ Top.l \in alloc' /\ Depth(Top.l) = n - 1
             /\ FNode[Top.l] \notin alloc' \/ (n > 1 /\ FNode[Top.l] = stack[n - 1].l)
             /\ RNode[Top.l] # NULL =>
                  RNode[Top.l] \in alloc' /\ FNode[RNode[Top.l]] = Top.l
                  /\ Depth(RNode[Top.l]) = n
  <2>1. Top.l \in alloc' /\ Depth(Top.l) = n - 1
    BY <1>1, <1>4, <1>5, <1>9
  <2>2. FNode[Top.l] \notin alloc' \/ (n > 1 /\ FNode[Top.l] = stack[n - 1].l)
    <3>1. x # NULL => FNode[Top.l] = x
      BY <1>1, <1>4, <1>9 DEF Links
    <3> QED
      BY <1>4, <1>5, <1>9, <3>1
  <2>3. ASSUME RNode[Top.l] # NULL
        PROVE  RNode[Top.l] \in alloc' /\ FNode[RNode[Top.l]] = Top.l /\ Depth(RNode[Top.l]) = n
    <3>1. RNode'[Top.l] = RNode[Top.l]
      BY <1>5, <2>1
    <3>2. ~ \E k \in 1..(n - 1) : Top.l = stack[k].l
      <4> SUFFICES ASSUME NEW k \in 1..(n - 1), Top.l = stack[k].l PROVE FALSE
        OBVIOUS
      <4>1. Depth(Top.l) = k - 1
        BY <1>3
      <4> QED
        BY <1>1, <2>1, <4>1
    <3>3. /\ RNode[Top.l] \in alloc' /\ FNode[RNode[Top.l]] = Top.l
          /\ Depth(RNode[Top.l]) = Depth(Top.l) + 1
      BY <1>8, <2>1, <2>3, <3>1, <3>2
    <3> QED
      BY <1>1, <2>1, <3>3
  <2> QED
    BY <2>1, <2>2, <2>3
<1> QED
  BY <1>5, <1>6, <1>8, <1>9 DEF n

(* Every step keeps the walk on nodes that are there. *)
LEMMA WalkNext == WInv /\ [Next]_vars => WInv'
<1> SUFFICES ASSUME WInv, [Next]_vars PROVE WInv'
  OBVIOUS
<1>0. /\ NInv /\ NInv' /\ SInv /\ TypeOK /\ TypeOK' /\ TInv
  BY SpeltNext DEF WInv, NInv, SInv, TInv
<1> USE NamesAssumption DEF Opening
<1>1. CASE UNCHANGED vars
  <2>1. Links => Links'
    BY <1>1 DEF vars, Links, Depth, Passed
  <2>2. \A k \in 1..Len(stack) : FrameOK(k) => FrameOK(k)'
    BY <1>1 DEF vars, FrameOK, Depth, First
  <2> QED
    BY <1>0, <1>1, <2>1, <2>2 DEF vars, WInv, Apart
<1>2. CASE Start
  BY <1>0, <1>2 DEF Start, fields, WInv, Apart, SInv, NoLink
<1>3. ASSUME \/ \E n \in Names : OpenPlugin(n)
             \/ FindRight \/ NoRightNode \/ FoundBare \/ SiblingMatches \/ SiblingDiffers
             \/ NoSibling \/ ToSiblings \/ NextSibling
             \/ Found \/ PruneDone \/ NoSuchPlugin \/ \E k \in {"so", "py"} : Load(k)
      PROVE  WInv'
  <2>1. /\ UNCHANGED <<alloc, FNode, stack>>
        /\ pc \notin {"off", "free"} /\ pc' \notin {"off", "free"}
    BY <1>3 DEF OpenPlugin, FindRight, NoRightNode, FoundBare, SiblingMatches, SiblingDiffers,
                NoSibling, ToSiblings, NextSibling, Searching, Found, PruneDone, NoSuchPlugin,
                Load, Returns, heap, fields
  <2> QED
    BY <1>0, <2>1 DEF WInv, Apart
<1>4. CASE AddRight \/ AddLeft
  <2>1. node \in alloc /\ pc \in {"insert", "lastsib"}
    BY <1>0, <1>4 DEF AddRight, AddLeft, SInv
  <2>2. PICK a \in Addr : NewNode(a)
    BY <1>4 DEF AddRight, AddLeft
  <2>3. /\ a \notin alloc /\ alloc' = alloc \union {a} /\ FNode' = [FNode EXCEPT ![a] = node]
        /\ pc' = "insert" /\ stack' = stack
    BY <2>2 DEF NewNode, LinkBack
  <2>4. Apart'
    BY <1>0, <2>1, <2>3 DEF WInv, Apart, TypeOK
  <2> QED
    BY <1>0, <2>1, <2>3, <2>4 DEF WInv
<1>5. CASE PruneNode
  <2>1. /\ alloc' = alloc \ {node} /\ FNode' = [FNode EXCEPT ![node] = NULL]
        /\ pc = "prune" /\ pc' = "prune" /\ stack' = stack
    BY <1>5 DEF PruneNode, FreeCell
  <2> QED
    BY <1>0, <2>1 DEF WInv, Apart, TypeOK
<1>6. CASE CloseTree
  <2>1. /\ pc = "idle" /\ pc' = "free" /\ Shape /\ Spelt /\ Apart
        /\ UNCHANGED <<alloc, data, RNode, LNode, FNode, spell>>
    BY <1>6, <1>0 DEF CloseTree, heap, fields, WInv, NInv, SInv
  <2>2. stack' = <<[l |-> head, last |-> NULL, inside |-> FALSE]>>
    BY <1>6 DEF CloseTree, Frame
  <2>3. \A a \in alloc : spell[a] \in Seq(Chars) /\ data[a] \in Chars \union {Root}
    BY <1>0 DEF TypeOK
  <2>4. ASSUME NEW a \in alloc
        PROVE  /\ FNode[a] # a
               /\ LNode[a] # NULL =>
                    LNode[a] \in alloc /\ FNode[LNode[a]] = a /\ Depth(LNode[a]) = Depth(a)
               /\ RNode[a] # NULL =>
                    RNode[a] \in alloc /\ FNode[RNode[a]] = a /\ Depth(RNode[a]) = Depth(a) + 1
    <3>1. FNode[a] # a
      BY <2>1 DEF Apart
    <3>2. ASSUME LNode[a] # NULL
          PROVE  LNode[a] \in alloc /\ FNode[LNode[a]] = a /\ Depth(LNode[a]) = Depth(a)
      <4>1. LNode[a] \in alloc /\ FNode[LNode[a]] = a
        BY <2>1, <3>2 DEF Shape
      <4>2. /\ spell[a] # <<>>
            /\ spell[LNode[a]] = Append(SubSeq(spell[a], 1, Len(spell[a]) - 1), data[LNode[a]])
        BY <2>1, <3>2 DEF Spelt
      <4>3. Len(Append(SubSeq(spell[a], 1, Len(spell[a]) - 1), data[LNode[a]])) = Len(spell[a])
        BY <2>3, <4>1, <4>2, LengthKept
      <4> QED
        BY <4>1, <4>2, <4>3 DEF Depth
    <3>3. ASSUME RNode[a] # NULL
          PROVE  RNode[a] \in alloc /\ FNode[RNode[a]] = a /\ Depth(RNode[a]) = Depth(a) + 1
      <4>1. RNode[a] \in alloc /\ FNode[RNode[a]] = a
        BY <2>1, <3>3 DEF Shape
      <4>2. spell[RNode[a]] = Append(spell[a], data[RNode[a]])
        BY <2>1, <3>3 DEF Spelt
      <4>3. Len(Append(spell[a], data[RNode[a]])) = Len(spell[a]) + 1
        BY <2>3, <4>1, LengthKept
      <4> QED
        BY <4>1, <4>2, <4>3 DEF Depth
    <3> QED
      BY <3>1, <3>2, <3>3
  <2>5. Links'
    BY <2>1, <2>4 DEF Links, Depth
  <2>6. head' = head /\ head \in alloc /\ FNode[head] = NULL /\ Depth(head) = 0
        /\ head \in Addr /\ alloc \subseteq Addr
    BY <1>0, <1>6, <2>1 DEF CloseTree, Shape, Spelt, Depth, TypeOK
  <2>7. FrameOK(1)'
    BY <2>1, <2>2, <2>6 DEF FrameOK, First, Depth
  <2> QED
    BY <1>0, <2>1, <2>2, <2>5, <2>7 DEF WInv
<1>7. CASE FreeVisit
  <2>0. PICK n : n = Len(stack)
    OBVIOUS
  <2> DEFINE e == [Top EXCEPT !.inside = TRUE]
             d == Frame(RNode[Top.l])
             more == RNode[Top.l] # NULL
  <2>1. /\ pc = "free" /\ pc' = "free" /\ stack # <<>> /\ Top.l # NULL /\ ~Top.inside
        /\ FreeLast(Top.last)
        /\ stack' = IF more THEN Append(Append(Caller, e), d) ELSE Append(Caller, e)
    BY <1>7 DEF FreeVisit, Freeing
  <2>2. Top \in Frames /\ e \in Frames /\ d \in Frames /\ stack \in Seq(Frames)
    <3>1. Top \in Frames /\ stack \in Seq(Frames)
      BY <1>0, <2>1, StackParts DEF TypeOK, Top
    <3> QED
      BY <1>0, <2>1, <3>1 DEF Frame, Frames, TypeOK, Ptr
  <2>3. /\ n \in Nat \ {0} /\ stack'[n] = e /\ \A k \in 1..(n - 1) : stack'[k] = stack[k]
        /\ more => Len(stack') = n + 1 /\ stack'[n + 1] = d
        /\ ~more => Len(stack') = n
    BY <2>0, <2>1, <2>2, CallerKept DEF Caller
  <2>4. /\ e.l = Top.l /\ e.inside /\ d.l = RNode[Top.l] /\ d.last = NULL /\ ~d.inside
    BY <2>2 DEF Frames, Frame
  <2>5. \A k \in 1..(n - 1) : FrameOK(k)
    BY <2>0, <2>1, <2>3 DEF WInv
  <2>6. /\ alloc' \subseteq alloc /\ alloc \subseteq Addr
        /\ \A a \in alloc' : Depth(a)' = Depth(a) /\ FNode'[a] = FNode[a]
        /\ \A k \in 1..(n - 1) : stack[k].l \in alloc'
        /\ Top.l \in alloc' /\ Depth(Top.l) = n - 1
        /\ FNode[Top.l] \notin alloc' \/ (n > 1 /\ FNode[Top.l] = stack[n - 1].l)
        /\ more => RNode[Top.l] \in alloc' /\ FNode[RNode[Top.l]] = Top.l
                   /\ Depth(RNode[Top.l]) = n
    BY <1>0, <2>0, <2>1, FreeTop DEF TypeOK
  <2> HIDE DEF e, d, more
  <2>7. ASSUME NEW k \in 1..(n - 1) PROVE FrameOK(k)'
    BY <1>0, <2>0, <2>3, <2>5, <2>6, <2>7, LowerFrame
  <2>8. FrameOK(n)'
    BY <2>3, <2>4, <2>6 DEF FrameOK, First
  <2>9. more => FrameOK(n + 1)'
    <3> SUFFICES ASSUME more PROVE FrameOK(n + 1)'
      OBVIOUS
    <3>0. PICK g : g = RNode[Top.l]
      OBVIOUS
    <3>1. /\ stack'[n + 1].l = g /\ stack'[n + 1].last = NULL /\ ~stack'[n + 1].inside
          /\ Len(stack') = n + 1 /\ g \in alloc' /\ g # NULL
      BY <2>3, <2>4, <2>6, <3>0 DEF more
    <3>2. Depth(g)' = (n + 1) - 1
      BY <2>3, <2>6, <3>0, <3>1
    <3>3. FNode'[g] = stack'[(n + 1) - 1].l
      BY <2>3, <2>4, <2>6, <3>0, <3>1
    <3> QED
      BY <2>3, <3>1, <3>2, <3>3 DEF FrameOK, First
  <2>10. \A k \in 1..Len(stack') : FrameOK(k)'
    <3> SUFFICES ASSUME NEW k \in 1..Len(stack') PROVE FrameOK(k)'
      OBVIOUS
    <3>1. k \in 1..(n - 1) \/ k = n \/ (more /\ k = n + 1)
      BY <2>3
    <3> QED
      BY <2>7, <2>8, <2>9, <3>1
  <2>11. Links'
    <3>1. \A k \in 1..(n - 1) : k \in 1..Len(stack') /\ stack'[k].inside /\ stack'[k].l = stack[k].l
      BY <2>0, <2>3, <2>5 DEF FrameOK
    <3>2. \A a : (\E k \in 1..(n - 1) : a = stack[k].l) => Passed(a)'
      BY <3>1 DEF Passed
    <3> QED
      BY <2>0, <2>1, <2>6, <3>2, FreeTop DEF Links
  <2> QED
    BY <1>0, <2>1, <2>10, <2>11 DEF WInv
<1>8. CASE FreeNext
  <2>0. PICK n : n = Len(stack)
    OBVIOUS
  <2> DEFINE e == [l |-> LNode[Top.l], last |-> Top.l, inside |-> FALSE]
  <2>1. /\ pc = "free" /\ pc' = "free" /\ stack # <<>> /\ Top.l # NULL /\ Top.inside
        /\ stack' = Append(Caller, e) /\ UNCHANGED <<alloc, RNode, LNode, FNode, spell>>
    BY <1>8 DEF FreeNext, Freeing, heap, fields
  <2>2. Top \in Frames /\ e \in Frames /\ stack \in Seq(Frames)
    <3>1. Top \in Frames /\ stack \in Seq(Frames)
      BY <1>0, <2>1, StackParts DEF TypeOK, Top
    <3> QED
      BY <1>0, <2>1, <3>1 DEF Frames, TypeOK, Ptr
  <2>3. /\ n \in Nat \ {0} /\ Top = stack[n] /\ stack'[n] = e
        /\ \A k \in 1..(n - 1) : stack'[k] = stack[k]
    BY <2>0, <2>1, <2>2, CallerKept DEF Caller, Top
  <2>3a. Len(stack') = n
    BY <2>0, <2>1, <2>2, CallerKept DEF Caller, Top
  <2>4. /\ Links /\ FrameOK(n) /\ \A k \in 1..(n - 1) : FrameOK(k)
    BY <2>0, <2>1, <2>3 DEF WInv
  <2>5. /\ Top.l \in alloc /\ Depth(Top.l) = n - 1
        /\ FNode[Top.l] \notin alloc \/ (n > 1 /\ FNode[Top.l] = stack[n - 1].l)
    BY <2>1, <2>3, <2>4 DEF FrameOK, First
  <2>6. LNode[Top.l] # NULL => /\ LNode[Top.l] \in alloc /\ FNode[LNode[Top.l]] = Top.l
                               /\ Depth(LNode[Top.l]) = n - 1 /\ LNode[Top.l] # Top.l
    BY <2>4, <2>5 DEF Links
  <2>7. alloc \subseteq Addr
    BY <1>0 DEF TypeOK
  <2>8. e.l = LNode[Top.l] /\ e.last = Top.l /\ ~e.inside
    OBVIOUS
  <2> HIDE DEF e
  <2>9. FrameOK(n)'
    <3>1. \A a : Depth(a)' = Depth(a)
      BY <2>1 DEF Depth
    <3> QED
      BY <2>1, <2>3, <2>3a, <2>5, <2>6, <2>7, <2>8, <3>1 DEF FrameOK, First
  <2>10. ASSUME NEW k \in 1..(n - 1) PROVE FrameOK(k)'
    <3>1. \A a \in alloc' : Depth(a)' = Depth(a) /\ FNode'[a] = FNode[a]
      BY <2>1 DEF Depth
    <3>2. \A j \in 1..(n - 1) : stack[j].l \in alloc' /\ stack'[j] = stack[j]
      BY <2>0, <2>1, <2>3, <2>3a, <2>4 DEF FrameOK
    <3> QED
      BY <2>1, <2>3, <2>3a, <2>4, <3>1, <3>2, <2>10, <1>0, <2>0, LowerFrame
  <2>11. \A k \in 1..Len(stack') : FrameOK(k)'
    <3> SUFFICES ASSUME NEW k \in 1..Len(stack') PROVE FrameOK(k)'
      OBVIOUS
    <3>1. k \in 1..(n - 1) \/ k = n
      BY <2>3, <2>3a
    <3> QED
      BY <2>9, <2>10, <3>1
  <2>12. \A a : Passed(a) => Passed(a)'
    <3> SUFFICES ASSUME NEW a, Passed(a) PROVE Passed(a)'
      OBVIOUS
    <3>1. PICK k \in 1..n : a = IF stack[k].inside THEN stack[k].l ELSE stack[k].last
      BY <2>0 DEF Passed
    <3>2. a = IF stack'[k].inside THEN stack'[k].l ELSE stack'[k].last
      <4>1. CASE k = n
        BY <2>1, <2>3, <2>8, <3>1, <4>1
      <4>2. CASE k # n
        <5>1. k \in 1..(n - 1)
          BY <2>3, <4>2
        <5> QED
          BY <2>3, <3>1, <5>1
      <4> QED
        BY <4>1, <4>2
    <3> QED
      BY <2>3a, <3>2 DEF Passed
  <2>13. Links'
    BY <2>1, <2>4, <2>12 DEF Links, Depth
  <2> QED
    BY <1>0, <2>1, <2>11, <2>13 DEF WInv
<1>9. CASE FreeReturn
  <2>0. PICK n : n = Len(stack)
    OBVIOUS
  <2>1. /\ pc = "free" /\ pc' = "free" /\ stack # <<>> /\ Top.l = NULL
        /\ FreeLast(Top.last) /\ stack' = Caller
    BY <1>9 DEF FreeReturn, Freeing, FreeRowEnd
  <2>2. Top \in Frames /\ stack \in Seq(Frames)
    BY <1>0, <2>1, StackParts DEF TypeOK, Top
  <2>3. /\ n \in Nat \ {0} /\ Top = stack[n]
        /\ Len(stack') = n - 1 /\ \A k \in 1..(n - 1) : stack'[k] = stack[k]
    BY <2>0, <2>1, <2>2, CallerKept DEF Caller, Top
  <2>4. FrameOK(n) /\ \A k \in 1..(n - 1) : FrameOK(k)
    BY <2>0, <2>1, <2>3 DEF WInv
  <2>5. alloc \subseteq Addr
    BY <1>0 DEF TypeOK
  <2>6. ~Top.inside
    BY <2>1, <2>3, <2>4, <2>5 DEF FrameOK
  <2>7. /\ alloc' \subseteq alloc
        /\ \A a \in alloc' : Depth(a)' = Depth(a) /\ FNode'[a] = FNode[a]
        /\ \A k \in 1..(n - 1) : stack[k].l \in alloc'
    BY <2>0, <2>1, <2>6, FreeTop
  <2>8. \A k \in 1..Len(stack') : FrameOK(k)'
    <3> SUFFICES ASSUME NEW k \in 1..(n - 1) PROVE FrameOK(k)'
      BY <2>3
    <3>1. Len(stack) \in Nat /\ Len(stack') \in Nat /\ k \in 1..(Len(stack) - 1)
      BY <2>0, <2>3
    <3>2. \A j \in 1..(Len(stack) - 1) : stack[j].l \in alloc' /\ stack'[j] = stack[j]
      BY <2>0, <2>3, <2>7
    <3> QED
      BY <1>0, <2>4, <2>7, <3>1, <3>2, LowerFrame
  <2>9. Links'
    <3>1. \A k \in 1..(n - 1) : k \in 1..Len(stack') /\ stack'[k].inside /\ stack'[k].l = stack[k].l
      BY <2>0, <2>3, <2>4 DEF FrameOK
    <3>2. \A a : (\E k \in 1..(n - 1) : a = stack[k].l) => Passed(a)'
      BY <3>1 DEF Passed
    <3> QED
      BY <2>0, <2>1, <2>6, <2>7, <3>2, FreeTop DEF Links
  <2> QED
    BY <1>0, <2>1, <2>8, <2>9 DEF WInv
<1>10. CASE TreeClosed \/ MallocFails \/ Crash
  BY <1>0, <1>10 DEF TreeClosed, MallocFails, Crash, Gone, WInv
<1> QED
  BY <1>1, <1>2, <1>3, <1>4, <1>5, <1>6, <1>7, <1>8, <1>9, <1>10 DEF Next, Open, Free

(* The nodes the walk has not come to. *)
Unseen == {a \in alloc : ~Passed(a)}

(* A node the walk comes to is one it had not come to. *)
LEMMA UnseenTop ==
  ASSUME WInv, Freeing, Top.l # NULL, ~Top.inside PROVE Top.l \in Unseen
<1> DEFINE n == Len(stack)
<1>0. /\ pc = "free" /\ stack # <<>> /\ TypeOK /\ NULL \notin Addr /\ \A k \in 1..n : FrameOK(k)
  BY NamesAssumption DEF Freeing, WInv, NInv, SInv, TInv
<1>1. n \in Nat \ {0} /\ Top = stack[n] /\ n \in 1..n
  BY <1>0, EmptySeq, LenProperties DEF TypeOK, Top
<1>2. Top.l \in alloc /\ Top.last # Top.l /\ Depth(Top.l) = n - 1
  BY <1>0, <1>1 DEF FrameOK, TypeOK
<1>3. ASSUME NEW k \in 1..(n - 1) PROVE stack[k].inside /\ stack[k].l # Top.l
  <2>1. k \in 1..n /\ k < n
    BY <1>1
  <2>2. stack[k].inside /\ stack[k].l \in alloc
    BY <1>0, <2>1 DEF FrameOK
  <2>3. Depth(stack[k].l) = k - 1
    BY <1>0, <2>1, <2>2 DEF FrameOK, TypeOK
  <2> QED
    BY <1>1, <1>2, <2>2, <2>3
<1>4. ASSUME NEW k \in 1..n, Top.l = IF stack[k].inside THEN stack[k].l ELSE stack[k].last
      PROVE  FALSE
  <2>1. k \in 1..(n - 1) \/ k = n
    BY <1>1
  <2> QED
    BY <1>1, <1>2, <1>3, <1>4, <2>1
<1> QED
  BY <1>2, <1>4 DEF Unseen, Passed

(* A node it has come to stays so until it is freed. *)
LEMMA UnseenSteps ==
  ASSUME WInv, FreeVisit \/ FreeNext \/ FreeReturn
  PROVE  Unseen' \subseteq Unseen /\ (FreeVisit => Unseen' \subseteq Unseen \ {Top.l})
<1> DEFINE n == Len(stack)
<1>0. /\ pc = "free" /\ stack # <<>> /\ TypeOK /\ NULL \notin Addr /\ \A k \in 1..n : FrameOK(k)
  BY NamesAssumption DEF FreeVisit, FreeNext, FreeReturn, Freeing, WInv, NInv, SInv, TInv
<1>1. /\ n \in Nat \ {0} /\ Top = stack[n] /\ Top \in Frames /\ n \in 1..n
      /\ Caller = SubSeq(stack, 1, n - 1) /\ Caller \in Seq(Frames) /\ Len(Caller) = n - 1
      /\ \A k \in 1..(n - 1) : Caller[k] = stack[k]
  BY <1>0, StackParts, CallerKept, EmptySeq, LenProperties DEF TypeOK, Top, Caller
<1> HIDE DEF n
<1>5. CASE FreeVisit
  <2> DEFINE e == [Top EXCEPT !.inside = TRUE]
             d == Frame(RNode[Top.l])
  <2>1. /\ Top.l # NULL /\ ~Top.inside /\ FreeLast(Top.last) /\ TRUE
        /\ stack' = IF RNode[Top.l] # NULL THEN Append(Append(Caller, e), d) ELSE Append(Caller, e)
    BY <1>5 DEF FreeVisit
  <2>2. e \in Frames /\ e.inside = TRUE /\ e.l = Top.l /\ d \in Frames /\ d.inside = FALSE
    BY <1>0, <1>1, <2>1 DEF Frames, Frame, TypeOK, Ptr
  <2>3. alloc' \subseteq alloc /\ (Top.last # NULL => Top.last \notin alloc')
    BY <2>1 DEF FreeLast, FreeCell
  <2> HIDE DEF e, d
  <2>6. /\ Len(stack') \in {n, n + 1} /\ stack'[n] = e /\ \A k \in 1..(n - 1) : stack'[k] = stack[k]
        /\ Len(stack') = n + 1 => ~stack'[n + 1].inside
    BY <1>0, <1>1, <2>1, <2>2, CallerKept DEF TypeOK, n
  <2>8. Unseen' \subseteq Unseen \ {Top.l}
    <3> SUFFICES ASSUME NEW a \in alloc', ~Passed(a)' PROVE a \in alloc /\ ~Passed(a) /\ a # Top.l
      BY DEF Unseen
    <3>1. n \in 1..Len(stack') /\ \A k \in 1..n : k \in 1..Len(stack')
      BY <1>1, <2>6
    <3>2. a # Top.l
      BY <2>2, <2>6, <3>1 DEF Passed
    <3>3. ASSUME NEW k \in 1..n, a = IF stack[k].inside THEN stack[k].l ELSE stack[k].last PROVE FALSE
      <4>1. CASE k = n
        BY <1>0, <1>1, <2>1, <2>3, <3>3, <4>1 DEF TypeOK
      <4>2. CASE k # n
        <5>0. k \in 1..(n - 1)
          BY <1>1, <4>2
        <5>1. k \in 1..(n - 1) /\ k \in 1..Len(stack') /\ stack'[k] = stack[k]
          BY <2>6, <3>1, <5>0
        <5> QED
          BY <3>3, <5>1 DEF Passed
      <4> QED
        BY <4>1, <4>2
    <3> QED
      BY <2>3, <3>2, <3>3 DEF Passed, n
  <2> QED
    BY <2>8
<1>6. CASE FreeNext
  <2> DEFINE e == [l |-> LNode[Top.l], last |-> Top.l, inside |-> FALSE]
  <2>1. Top.l # NULL /\ Top.inside /\ stack' = Append(Caller, e) /\ alloc' = alloc
    BY <1>6 DEF FreeNext, heap
  <2>2. e \in Frames /\ e.inside = FALSE /\ e.last = Top.l
    BY <1>0, <1>1, <2>1 DEF Frames, TypeOK, Ptr
  <2> HIDE DEF e
  <2>3. Len(stack') = n /\ stack'[n] = e /\ \A k \in 1..(n - 1) : stack'[k] = stack[k]
    BY <1>0, <1>1, <2>1, <2>2, CallerKept DEF TypeOK, n
  <2>4. Unseen' \subseteq Unseen
    <3> SUFFICES ASSUME NEW a \in alloc, ~Passed(a)' PROVE ~Passed(a)
      BY <2>1 DEF Unseen
    <3>1. ASSUME NEW k \in 1..n, a = IF stack[k].inside THEN stack[k].l ELSE stack[k].last PROVE FALSE
      <4>1. CASE k = n
        <5>1. a = Top.l /\ n \in 1..Len(stack')
          BY <1>1, <2>1, <2>3, <3>1, <4>1
        <5> QED
          BY <2>2, <2>3, <5>1 DEF Passed
      <4>2. CASE k # n
        <5>1. k \in 1..(n - 1) /\ k \in 1..Len(stack') /\ stack'[k] = stack[k]
          BY <1>1, <2>3, <4>2
        <5> QED
          BY <3>1, <5>1 DEF Passed
      <4> QED
        BY <4>1, <4>2
    <3> QED
      BY <3>1 DEF Passed, n
  <2> QED
    BY <1>6, <2>1, <2>4 DEF FreeVisit
<1>7. CASE FreeReturn
  <2>1. Top.l = NULL /\ stack' = Caller /\ FreeLast(Top.last)
    BY <1>7 DEF FreeReturn, FreeRowEnd
  <2>2. ~Top.inside
    BY <1>0, <1>1, <2>1 DEF FrameOK, n, TypeOK
  <2>3. alloc' \subseteq alloc /\ (Top.last # NULL => Top.last \notin alloc')
    BY <2>1 DEF FreeLast, FreeCell
  <2>4. Len(stack') = n - 1 /\ \A k \in 1..(n - 1) : stack'[k] = stack[k]
    BY <1>1, <2>1
  <2>5. Unseen' \subseteq Unseen
    <3> SUFFICES ASSUME NEW a \in alloc', ~Passed(a)' PROVE a \in alloc /\ ~Passed(a)
      BY DEF Unseen
    <3>1. ASSUME NEW k \in 1..n, a = IF stack[k].inside THEN stack[k].l ELSE stack[k].last PROVE FALSE
      <4>1. CASE k = n
        BY <1>0, <1>1, <2>2, <2>3, <3>1, <4>1 DEF TypeOK
      <4>2. CASE k # n
        <5>1. k \in 1..(n - 1) /\ k \in 1..Len(stack') /\ stack'[k] = stack[k]
          BY <1>1, <2>4, <4>2
        <5> QED
          BY <3>1, <5>1 DEF Passed
      <4> QED
        BY <4>1, <4>2
    <3> QED
      BY <2>3, <3>1 DEF Passed, n
  <2> QED
    BY <2>1, <2>5 DEF FreeVisit
<1> QED
  BY <1>5, <1>6, <1>7

(* A plugin that was closed and freed is one of a node the walk has passed. *)
ClosedInv == pc = "free" => \A a \in alloc : plug[a] = Stale => a \notin Unseen

LEMMA ClosedNext == WInv /\ ClosedInv /\ [Next]_vars => ClosedInv'
<1> SUFFICES ASSUME WInv, ClosedInv, [Next]_vars, pc' = "free" PROVE ClosedInv'
  BY DEF ClosedInv
<1> USE NamesAssumption
<1>0. TypeOK /\ (pc # "free" => NoneStale)
  BY DEF WInv, NInv, SInv, TInv
<1>1. CASE UNCHANGED vars
  BY <1>1 DEF vars, ClosedInv, Unseen, Passed
<1>2. CASE CloseTree
  <2>1. pc = "idle" /\ plug' = plug /\ alloc' = alloc
    BY <1>2 DEF CloseTree, heap, fields
  <2> QED
    BY <1>0, <2>1 DEF ClosedInv, NoneStale, TypeOK
<1>3. CASE FreeVisit \/ FreeNext \/ FreeReturn
  <2>1. /\ pc = "free" /\ alloc' \subseteq alloc /\ alloc' \subseteq Addr
        /\ \/ FreeVisit /\ \A a \in Addr \ {Top.l} : plug'[a] = plug[a]
           \/ plug' = plug
    BY <1>0, <1>3 DEF FreeVisit, FreeNext, FreeReturn, FreeRowEnd, Freeing, FreeLast, FreeCell, heap,
                      fields, TypeOK
  <2>2. Unseen' \subseteq Unseen /\ (FreeVisit => Unseen' \subseteq Unseen \ {Top.l})
    BY <1>3, UnseenSteps
  <2> QED
    BY <2>1, <2>2 DEF ClosedInv
<1>4. UNCHANGED vars \/ CloseTree \/ FreeVisit \/ FreeNext \/ FreeReturn
  BY DEF Next, Open, Free, Start, OpenPlugin, FindRight, NoRightNode, SiblingMatches, SiblingDiffers,
         NoSibling, FoundBare, Found, AddRight, AddLeft, NewNode, ToSiblings, NextSibling, Load,
         NoSuchPlugin, PruneNode, PruneDone, MallocFails, TreeClosed, Crash, Gone, Returns, Searching
<1> QED
  BY <1>1, <1>2, <1>3, <1>4

(* open_plugin and free_so_file_node follow, and free, only nodes that are   *)
(* there, and close a plugin once.                                           *)
THEOREM NothingDangles == Spec => []NoDangling
<1>1. Spec => []WInv
  BY WalkInit, WalkNext, PTL DEF Spec
<1>3. Init => ClosedInv
  BY DEF Init, ClosedInv
<1>4. Spec => []ClosedInv
  BY <1>1, <1>3, ClosedNext, PTL DEF Spec
<1>2. WInv /\ ClosedInv => NoDangling
  <2> SUFFICES ASSUME WInv, ClosedInv PROVE NoDangling
    OBVIOUS
  <2>1. ASSUME pc = "free", NEW f \in 1..Len(stack)
        PROVE  /\ stack[f].l \in alloc \union {NULL}
               /\ ~stack[f].inside => stack[f].last \in alloc \union {NULL}
    BY <2>1 DEF WInv, FrameOK
  <2>2. pc # "free" => Len(stack) = 0
    BY DEF WInv
  <2>3. NInv /\ SInv /\ (pc \notin {"off", "free"} => Shape)
    BY DEF WInv, NInv, SInv
  <2>4. /\ pc \notin {"off", "free"} => head \in alloc
        /\ pc \in Opening => node \in alloc \union (IF pc = "sibling" THEN {NULL} ELSE {})
        /\ pc = "sibling" => lastNode \in alloc
    BY <2>3 DEF SInv, Shape, Opening
  <2>5. ASSUME NEW f \in 1..Len(stack)
        PROVE  /\ stack[f].l \in alloc \union {NULL}
               /\ ~stack[f].inside => stack[f].last \in alloc \union {NULL}
    <3>1. pc = "free"
      BY <2>2
    <3> QED
      BY <2>1, <3>1
  <2>6. Freeing /\ Top.l # NULL /\ ~Top.inside => plug[Top.l] # Stale
    BY UnseenTop DEF ClosedInv, Freeing, Unseen
  <2> QED
    BY <2>4, <2>5, <2>6 DEF NoDangling
<1> QED
  BY <1>1, <1>2, <1>4, PTL
-----------------------------------------------------------------------------
(* No node is above itself: going back along FNode ends. *)
Ranked ==
  \E r \in [Addr -> Nat] : \A a \in alloc : FNode[a] \in alloc => r[FNode[a]] < r[a]

(* A node not yet freed hangs on one that is not freed either, or is the     *)
(* first of the row of a frame.                                              *)
Owed ==
  \A a \in alloc :
    /\ FNode[a] \in alloc => a \in {RNode[FNode[a]], LNode[FNode[a]]}
    /\ FNode[a] \in alloc \/ \E k \in 1..Len(stack) : a = First(stack[k])

(* The node frame k has passed. *)
Done(k) == IF stack[k].inside THEN stack[k].l ELSE stack[k].last

(* What is on the right of a node is freed when the walk is back at it. *)
RightGone(k) ==
  /\ k > 1 /\ RNode[stack[k - 1].l] \in alloc => RNode[stack[k - 1].l] = First(stack[k])
  /\ k = Len(stack) /\ Done(k) # NULL => RNode[Done(k)] \notin alloc

OInv ==
  /\ WInv
  /\ Ranked
  /\ pc = "free" => Owed /\ \A k \in 1..Len(stack) : RightGone(k)

(* A set of numbers that is not empty has a least one. *)
LEMMA LeastOne ==
  ASSUME NEW T \in SUBSET Nat, T # {}
  PROVE  \E m \in T : \A k \in T : ~(k < m)
<1> DEFINE R == OpToRel(<, Nat)
<1>1. IsWellFoundedOn(R, Nat)
  BY NatLessThanWellFounded
<1>2. \A k, m \in Nat : k < m => <<k, m>> \in R
  BY DEF OpToRel
<1> HIDE DEF R
<1>3. PICK m \in T : \A k \in T : <<k, m>> \notin R
  BY <1>1, WFMin
<1> QED
  BY <1>2, <1>3

(* A trie whose nodes all hang on nodes is empty. *)
LEMMA NoNodeLeft ==
  ASSUME TypeOK, Ranked, \A a \in alloc : FNode[a] \in alloc
  PROVE  alloc = {}
<1> SUFFICES ASSUME alloc # {} PROVE FALSE
  OBVIOUS
<1>1. PICK r \in [Addr -> Nat] : \A a \in alloc : r[FNode[a]] < r[a]
  BY DEF Ranked
<1> DEFINE T == {r[a] : a \in alloc}
<1>2. T \in SUBSET Nat /\ T # {}
  BY DEF TypeOK
<1>3. PICK m \in T : \A k \in T : ~(k < m)
  BY <1>2, LeastOne
<1>4. PICK a \in alloc : m = r[a]
  OBVIOUS
<1>5. r[FNode[a]] \in T
  BY <1>4
<1> QED
  BY <1>1, <1>3, <1>4, <1>5

(* Freeing nodes keeps the order of those that are left. *)
LEMMA RankKept ==
  ASSUME Ranked, alloc' \subseteq alloc, \A a \in alloc' : FNode'[a] = FNode[a]
  PROVE  Ranked'
  BY DEF Ranked

(* Before the first process no node hangs on another. *)
LEMMA OwedInit == Init => OInv
<1> SUFFICES ASSUME Init PROVE Ranked
  BY WalkInit DEF Init, OInv
<1>1. [a \in Addr |-> 0] \in [Addr -> Nat]
  OBVIOUS
<1> QED
  BY <1>1 DEF Init, Ranked

(* What hangs on the node that is freed is the next node of the row.         *)
LEMMA FreeTopOwed ==
  ASSUME OInv, pc = "free", stack # <<>>, ~Top.inside, FreeLast(Top.last)
  PROVE  LET n == Len(stack) IN
         /\ \A a \in alloc' : FNode'[a] = FNode[a] /\ RNode'[a] = RNode[a]
         /\ \A a \in alloc' :
              /\ FNode'[a] \in alloc' => a \in {RNode'[FNode'[a]], LNode'[FNode'[a]]}
              /\ FNode'[a] \in alloc' \/ a = Top.l \/ \E k \in 1..(n - 1) : a = stack[k].l
         /\ n > 1 /\ RNode[stack[n - 1].l] \in alloc' => RNode[stack[n - 1].l] = Top.l
         /\ \A k \in 1..(n - 1) : stack[k].inside /\ stack[k].l \in alloc'
<1> USE NamesAssumption
<1>0. PICK n : n = Len(stack)
  OBVIOUS
<1>1. PICK x : x = Top.last
  OBVIOUS
<1>2. /\ TypeOK /\ n \in Nat \ {0} /\ Top = stack[n] /\ alloc \subseteq Addr
      /\ Owed /\ (\A k \in 1..n : RightGone(k)) /\ (\A k \in 1..n : FrameOK(k))
  BY <1>0, EmptySeq, LenProperties DEF OInv, WInv, NInv, SInv, TInv, TypeOK, Top
<1>3. /\ alloc' = alloc \ {x}
      /\ \A a \in alloc' : FNode'[a] = FNode[a] /\ RNode'[a] = RNode[a] /\ LNode'[a] = LNode[a]
  <2>1. CASE x = NULL
    BY <1>1, <1>2, <2>1 DEF FreeLast
  <2>2. CASE x # NULL
    BY <1>1, <1>2, <2>2 DEF FreeLast, FreeCell, TypeOK
  <2> QED
    BY <2>1, <2>2
<1>4. \A k \in 1..(n - 1) : stack[k].inside /\ stack[k].l \in alloc'
  <2>1. \A k \in 1..(n - 1) : stack[k].inside
    BY <1>0, <1>2 DEF FrameOK
  <2>2. \A k \in 1..(n - 1) : stack[k].l \in alloc'
    BY <1>0, FreeTop DEF OInv
  <2> QED
    BY <2>1, <2>2
<1>5. First(stack[n]) = IF x # NULL THEN x ELSE Top.l
  BY <1>1, <1>2 DEF First
<1>6. x # NULL => LNode[x] = Top.l /\ RNode[x] \notin alloc
  <2>1. RightGone(n) /\ FrameOK(n)
    BY <1>2
  <2>2. x # NULL => LNode[x] = Top.l
    BY <1>1, <1>2, <2>1 DEF FrameOK
  <2>3. x # NULL => RNode[x] \notin alloc
    BY <1>0, <1>1, <1>2, <2>1 DEF RightGone, Done
  <2> QED
    BY <2>2, <2>3
<1>7. ASSUME NEW a \in alloc', FNode'[a] \in alloc'
      PROVE  a \in {RNode'[FNode'[a]], LNode'[FNode'[a]]}
  <2>1. a \in {RNode[FNode[a]], LNode[FNode[a]]}
    BY <1>2, <1>3, <1>7 DEF Owed
  <2> QED
    BY <1>3, <1>7, <2>1
<1>8. ASSUME NEW a \in alloc', FNode'[a] \notin alloc'
      PROVE  a = Top.l \/ \E k \in 1..(n - 1) : a = stack[k].l
  <2>1. CASE FNode[a] \in alloc
    <3>1. FNode[a] = x /\ x # NULL
      BY <1>2, <1>3, <1>8, <2>1
    <3>2. a \in {RNode[x], LNode[x]}
      BY <1>2, <1>3, <2>1, <3>1 DEF Owed
    <3> QED
      BY <1>3, <1>6, <3>1, <3>2
  <2>2. CASE FNode[a] \notin alloc
    <3>1. PICK k \in 1..n : a = First(stack[k])
      BY <1>0, <1>2, <1>3, <2>2 DEF Owed
    <3>2. CASE k = n
      BY <1>3, <1>5, <3>1, <3>2
    <3>3. CASE k # n
      <4>1. k \in 1..(n - 1)
        BY <1>2, <3>3
      <4> QED
        BY <1>4, <3>1, <4>1 DEF First
    <3> QED
      BY <3>2, <3>3
  <2> QED
    BY <2>1, <2>2
<1>9. ASSUME n > 1, RNode[stack[n - 1].l] \in alloc' PROVE RNode[stack[n - 1].l] = Top.l
  <2>1. RightGone(n)
    BY <1>2
  <2>2. RNode[stack[n - 1].l] = First(stack[n])
    BY <1>3, <1>9, <2>1 DEF RightGone
  <2> QED
    BY <1>3, <1>5, <1>9, <2>2
<1> QED
  BY <1>0, <1>3, <1>4, <1>7, <1>8, <1>9

(* Every step keeps the nodes owed to a frame. *)
LEMMA OwedNext == OInv /\ [Next]_vars => OInv'
<1> SUFFICES ASSUME OInv, [Next]_vars
             PROVE  Ranked' /\ (pc' = "free" => Owed' /\ \A k \in 1..Len(stack') : RightGone(k)')
  BY WalkNext DEF OInv
<1>0. /\ WInv /\ WInv' /\ NInv /\ SInv /\ TypeOK /\ Ranked
  BY WalkNext DEF OInv, WInv, NInv, SInv, TInv
<1> USE NamesAssumption DEF Opening
<1>1. CASE UNCHANGED vars
  <2>1. Ranked'
    BY <1>0, <1>1, RankKept DEF vars
  <2>2. Owed => Owed'
    BY <1>1 DEF vars, Owed, First
  <2>3. \A k \in 1..Len(stack) : RightGone(k) => RightGone(k)'
    BY <1>1 DEF vars, RightGone, First, Done
  <2> QED
    BY <1>1, <2>1, <2>2, <2>3 DEF vars, OInv
<1>2. CASE Start
  <2>1. PICK a \in Addr : alloc' = {a}
    BY <1>2 DEF Start
  <2>2. FNode' = NoLink /\ pc' = "idle"
    BY <1>0, <1>2 DEF Start, fields, SInv
  <2>3. [b \in Addr |-> 0] \in [Addr -> Nat]
    OBVIOUS
  <2> QED
    BY <2>1, <2>2, <2>3 DEF Ranked, NoLink
<1>3. ASSUME \/ \E n \in Names : OpenPlugin(n)
             \/ FindRight \/ NoRightNode \/ FoundBare \/ SiblingMatches \/ SiblingDiffers
             \/ NoSibling \/ ToSiblings \/ NextSibling
             \/ Found \/ PruneDone \/ NoSuchPlugin \/ \E k \in {"so", "py"} : Load(k)
      PROVE  Ranked' /\ pc' # "free"
  <2>1. UNCHANGED <<alloc, FNode>> /\ pc' # "free"
    BY <1>3 DEF OpenPlugin, FindRight, NoRightNode, FoundBare, SiblingMatches, SiblingDiffers,
                NoSibling, ToSiblings, NextSibling, Searching, Found, PruneDone, NoSuchPlugin,
                Load, Returns, heap, fields
  <2> QED
    BY <1>0, <2>1, RankKept
<1>4. CASE AddRight \/ AddLeft
  <2>1. node \in alloc /\ Shape
    BY <1>0, <1>4 DEF AddRight, AddLeft, SInv
  <2>2. PICK a \in Addr : NewNode(a)
    BY <1>4 DEF AddRight, AddLeft
  <2>3. /\ a \notin alloc /\ alloc' = alloc \union {a} /\ FNode' = [FNode EXCEPT ![a] = node]
        /\ pc' = "insert"
    BY <2>2 DEF NewNode, LinkBack
  <2>4. PICK r \in [Addr -> Nat] : \A b \in alloc : FNode[b] \in alloc => r[FNode[b]] < r[b]
    BY <1>0 DEF Ranked
  <2>5. PICK q \in [Addr -> Nat] : q = [r EXCEPT ![a] = r[node] + 1]
    <3>1. r[node] + 1 \in Nat
      BY <1>0, <2>1 DEF TypeOK
    <3> QED
      BY <3>1
  <2>6. /\ q[a] = r[node] + 1 /\ r[node] \in Nat
        /\ \A b \in alloc : q[b] = r[b] /\ r[b] \in Nat
    BY <1>0, <2>1, <2>3, <2>5 DEF TypeOK
  <2>7. /\ FNode'[a] = node /\ \A b \in alloc : FNode'[b] = FNode[b]
        /\ \A b \in alloc : FNode[b] # a
    BY <1>0, <2>1, <2>3 DEF TypeOK, Shape
  <2>8. ASSUME NEW b \in alloc', FNode'[b] \in alloc' PROVE q[FNode'[b]] < q[b]
    <3>1. CASE b = a
      BY <2>1, <2>6, <2>7, <3>1
    <3>2. CASE b # a
      <4>1. b \in alloc /\ FNode[b] \in alloc /\ FNode'[b] = FNode[b]
        BY <2>3, <2>7, <2>8, <3>2
      <4> QED
        BY <2>4, <2>6, <4>1
    <3> QED
      BY <3>1, <3>2
  <2> QED
    BY <2>3, <2>8 DEF Ranked
<1>5. CASE PruneNode
  <2>1. alloc' = alloc \ {node} /\ FNode' = [FNode EXCEPT ![node] = NULL] /\ pc' = "prune"
    BY <1>5 DEF PruneNode, FreeCell
  <2>2. alloc' \subseteq alloc /\ \A a \in alloc' : FNode'[a] = FNode[a]
    BY <1>0, <2>1 DEF TypeOK
  <2> QED
    BY <1>0, <2>1, <2>2, RankKept
<1>6. CASE CloseTree
  <2>1. /\ Shape /\ alloc \subseteq Addr /\ UNCHANGED <<alloc, RNode, LNode, FNode>>
        /\ stack' = <<[l |-> head, last |-> NULL, inside |-> FALSE]>>
    BY <1>0, <1>6 DEF CloseTree, Frame, heap, fields, SInv, TypeOK
  <2>2. Ranked'
    BY <1>0, <2>1, RankKept
  <2>3. Len(stack') = 1 /\ First(stack'[1]) = head
    BY <2>1 DEF First
  <2>4. Owed'
    <3>1. ASSUME NEW a \in alloc, a # head
          PROVE  FNode[a] \in alloc /\ a \in {RNode[FNode[a]], LNode[FNode[a]]}
      BY <2>1, <3>1 DEF Shape
    <3>2. FNode[head] \notin alloc /\ 1 \in 1..Len(stack')
      BY <2>1, <2>3 DEF Shape
    <3> QED
      BY <2>1, <2>3, <3>1, <3>2 DEF Owed
  <2>5. \A k \in 1..Len(stack') : RightGone(k)'
    BY <2>1, <2>3 DEF RightGone, Done
  <2> QED
    BY <2>2, <2>4, <2>5
<1>7. CASE FreeVisit
  <2>0. PICK n : n = Len(stack)
    OBVIOUS
  <2> DEFINE e == [Top EXCEPT !.inside = TRUE]
             d == Frame(RNode[Top.l])
             more == RNode[Top.l] # NULL
  <2>1. /\ pc = "free" /\ stack # <<>> /\ Top.l # NULL /\ ~Top.inside
        /\ FreeLast(Top.last)
        /\ stack' = IF more THEN Append(Append(Caller, e), d) ELSE Append(Caller, e)
    BY <1>7 DEF FreeVisit, Freeing
  <2>2. Top \in Frames /\ e \in Frames /\ d \in Frames /\ stack \in Seq(Frames)
    <3>1. Top \in Frames /\ stack \in Seq(Frames)
      BY <1>0, <2>1, StackParts DEF TypeOK, Top
    <3> QED
      BY <1>0, <2>1, <3>1 DEF Frame, Frames, TypeOK, Ptr
  <2>3. /\ n \in Nat \ {0} /\ stack'[n] = e /\ \A k \in 1..(n - 1) : stack'[k] = stack[k]
        /\ more => Len(stack') = n + 1 /\ stack'[n + 1] = d
        /\ ~more => Len(stack') = n
    BY <2>0, <2>1, <2>2, CallerKept DEF Caller
  <2>4. /\ e.l = Top.l /\ e.inside /\ d.l = RNode[Top.l] /\ d.last = NULL /\ ~d.inside
    BY <2>2 DEF Frames, Frame
  <2>5. /\ alloc' \subseteq alloc /\ Top.l \in alloc' /\ NULL \notin alloc
    BY <1>0, <2>1, FreeTop DEF TypeOK
  <2>6. /\ \A a \in alloc' : FNode'[a] = FNode[a] /\ RNode'[a] = RNode[a]
        /\ \A a \in alloc' :
             /\ FNode'[a] \in alloc' => a \in {RNode'[FNode'[a]], LNode'[FNode'[a]]}
             /\ FNode'[a] \in alloc' \/ a = Top.l \/ \E k \in 1..(n - 1) : a = stack[k].l
        /\ n > 1 /\ RNode[stack[n - 1].l] \in alloc' => RNode[stack[n - 1].l] = Top.l
        /\ \A k \in 1..(n - 1) : stack[k].inside /\ stack[k].l \in alloc'
    BY <2>0, <2>1, FreeTopOwed
  <2>7. \A k \in 1..(n - 1) : RightGone(k)
    BY <2>0, <2>1, <2>3 DEF OInv
  <2> HIDE DEF e, d, more
  <2>8. \A k \in 1..n : k \in 1..Len(stack')
    BY <2>3
  <2>9. First(stack'[n]) = Top.l /\ \A k \in 1..(n - 1) : First(stack'[k]) = stack[k].l
    BY <2>3, <2>4, <2>6 DEF First
  <2>10. Owed'
    BY <2>3, <2>6, <2>8, <2>9 DEF Owed
  <2>11. ASSUME NEW k \in 1..(n - 1) PROVE RightGone(k)'
    <3>1. k # Len(stack')
      BY <2>3, <2>11
    <3>2. ASSUME k > 1, RNode'[stack'[k - 1].l] \in alloc' PROVE RNode'[stack'[k - 1].l] = First(stack'[k])
      <4>1. k - 1 \in 1..(n - 1)
        BY <2>3, <2>11, <3>2
      <4>2. stack'[k - 1] = stack[k - 1] /\ RNode'[stack'[k - 1].l] = RNode[stack[k - 1].l]
        BY <2>3, <2>6, <4>1
      <4>3. First(stack'[k]) = First(stack[k])
        BY <2>3, <2>11
      <4> QED
        BY <2>5, <2>7, <2>11, <3>2, <4>2, <4>3 DEF RightGone
    <3> QED
      BY <3>1, <3>2 DEF RightGone
  <2>12. RightGone(n)'
    <3>1. ASSUME n > 1, RNode'[stack'[n - 1].l] \in alloc' PROVE RNode'[stack'[n - 1].l] = First(stack'[n])
      <4>1. n - 1 \in 1..(n - 1)
        BY <2>3, <3>1
      <4>2. RNode'[stack'[n - 1].l] = RNode[stack[n - 1].l]
        BY <2>3, <2>6, <4>1
      <4> QED
        BY <2>6, <2>9, <3>1, <4>2
    <3>2. n = Len(stack') => RNode'[Top.l] \notin alloc'
      BY <2>3, <2>5, <2>6 DEF more
    <3>3. Done(n)' = Top.l
      BY <2>3, <2>4 DEF Done
    <3> QED
      BY <3>1, <3>2, <3>3 DEF RightGone
  <2>13. more => RightGone(n + 1)'
    <3> SUFFICES ASSUME more PROVE RightGone(n + 1)'
      OBVIOUS
    <3>1. stack'[n + 1] = d /\ stack'[(n + 1) - 1] = e
      BY <2>3
    <3>2. Done(n + 1)' = NULL
      BY <2>4, <3>1 DEF Done
    <3>3. RNode'[stack'[(n + 1) - 1].l] = First(stack'[n + 1])
      BY <2>4, <2>5, <2>6, <3>1 DEF First
    <3> QED
      BY <3>2, <3>3 DEF RightGone
  <2>14. \A k \in 1..Len(stack') : RightGone(k)'
    <3> SUFFICES ASSUME NEW k \in 1..Len(stack') PROVE RightGone(k)'
      OBVIOUS
    <3>1. k \in 1..(n - 1) \/ k = n \/ (more /\ k = n + 1)
      BY <2>3
    <3> QED
      BY <2>11, <2>12, <2>13, <3>1
  <2>15. Ranked'
    BY <1>0, <2>5, <2>6, RankKept
  <2> QED
    BY <2>10, <2>14, <2>15
<1>8. CASE FreeNext
  <2>0. PICK n : n = Len(stack)
    OBVIOUS
  <2> DEFINE e == [l |-> LNode[Top.l], last |-> Top.l, inside |-> FALSE]
  <2>1. /\ pc = "free" /\ stack # <<>> /\ Top.l # NULL /\ Top.inside
        /\ stack' = Append(Caller, e) /\ UNCHANGED <<alloc, RNode, LNode, FNode>>
    BY <1>8 DEF FreeNext, Freeing, heap, fields
  <2>2. Top \in Frames /\ e \in Frames /\ stack \in Seq(Frames)
    <3>1. Top \in Frames /\ stack \in Seq(Frames)
      BY <1>0, <2>1, StackParts DEF TypeOK, Top
    <3> QED
      BY <1>0, <2>1, <3>1 DEF Frames, TypeOK, Ptr
  <2>3. /\ n \in Nat \ {0} /\ Top = stack[n] /\ stack'[n] = e /\ Len(stack') = n
        /\ \A k \in 1..(n - 1) : stack'[k] = stack[k]
    BY <2>0, <2>1, <2>2, CallerKept DEF Caller, Top
  <2>4. Owed /\ \A k \in 1..n : RightGone(k)
    BY <2>0, <2>1 DEF OInv
  <2>5. e.l = LNode[Top.l] /\ e.last = Top.l /\ ~e.inside
    OBVIOUS
  <2> HIDE DEF e
  <2>6. \A k \in 1..n : First(stack'[k]) = First(stack[k]) /\ Done(k)' = Done(k)
    <3> SUFFICES ASSUME NEW k \in 1..n
                 PROVE  First(stack'[k]) = First(stack[k]) /\ Done(k)' = Done(k)
      OBVIOUS
    <3>1. CASE k = n
      BY <2>1, <2>3, <2>5, <3>1 DEF First, Done
    <3>2. CASE k # n
      <4>1. stack'[k] = stack[k]
        BY <2>3, <3>2
      <4> QED
        BY <4>1 DEF First, Done
    <3> QED
      BY <3>1, <3>2
  <2>7. Owed'
    BY <2>0, <2>1, <2>3, <2>4, <2>6 DEF Owed
  <2>8. ASSUME NEW k \in 1..n PROVE RightGone(k)'
    <3>1. k > 1 => stack'[k - 1] = stack[k - 1]
      <4>1. k > 1 => k - 1 \in 1..(n - 1)
        BY <2>3
      <4> QED
        BY <2>3, <4>1
    <3> QED
      BY <2>0, <2>1, <2>3, <2>4, <2>6, <3>1 DEF RightGone
  <2>9. Ranked'
    BY <1>0, <2>1, RankKept
  <2> QED
    BY <2>3, <2>7, <2>8, <2>9
<1>9. CASE FreeReturn
  <2>0. PICK n : n = Len(stack)
    OBVIOUS
  <2>1. /\ pc = "free" /\ stack # <<>> /\ Top.l = NULL
        /\ FreeLast(Top.last) /\ stack' = Caller
    BY <1>9 DEF FreeReturn, Freeing, FreeRowEnd
  <2>2. Top \in Frames /\ stack \in Seq(Frames)
    BY <1>0, <2>1, StackParts DEF TypeOK, Top
  <2>3. /\ n \in Nat \ {0} /\ Top = stack[n]
        /\ Len(stack') = n - 1 /\ \A k \in 1..(n - 1) : stack'[k] = stack[k]
    BY <2>0, <2>1, <2>2, CallerKept DEF Caller, Top
  <2>4. FrameOK(n) /\ NULL \notin alloc
    BY <1>0, <2>0, <2>1, <2>3 DEF WInv, TypeOK
  <2>5. ~Top.inside
    BY <2>1, <2>3, <2>4 DEF FrameOK
  <2>6. /\ \A a \in alloc' : FNode'[a] = FNode[a] /\ RNode'[a] = RNode[a]
        /\ \A a \in alloc' :
             /\ FNode'[a] \in alloc' => a \in {RNode'[FNode'[a]], LNode'[FNode'[a]]}
             /\ FNode'[a] \in alloc' \/ a = Top.l \/ \E k \in 1..(n - 1) : a = stack[k].l
        /\ n > 1 /\ RNode[stack[n - 1].l] \in alloc' => RNode[stack[n - 1].l] = Top.l
        /\ \A k \in 1..(n - 1) : stack[k].inside /\ stack[k].l \in alloc'
    BY <2>0, <2>1, <2>5, FreeTopOwed
  <2>7. alloc' \subseteq alloc
    BY <1>0, <2>1, <2>5, FreeTop
  <2>8. Owed'
    <3>1. \A k \in 1..(n - 1) : First(stack'[k]) = stack[k].l
      BY <2>3, <2>6 DEF First
    <3> QED
      BY <2>1, <2>3, <2>4, <2>6, <2>7, <3>1 DEF Owed
  <2>9. ASSUME NEW k \in 1..(n - 1) PROVE RightGone(k)'
    <3>1. RightGone(k)
      BY <2>0, <2>1, <2>3 DEF OInv
    <3>2. ASSUME k > 1, RNode'[stack'[k - 1].l] \in alloc'
          PROVE  RNode'[stack'[k - 1].l] = First(stack'[k])
      <4>1. k - 1 \in 1..(n - 1)
        BY <2>3, <3>2
      <4>2. RNode'[stack'[k - 1].l] = RNode[stack[k - 1].l] /\ stack'[k] = stack[k]
        BY <2>3, <2>6, <4>1
      <4> QED
        BY <2>7, <3>1, <3>2, <4>2 DEF RightGone
    <3>3. ASSUME k = Len(stack') PROVE RNode'[Done(k)'] \notin alloc'
      <4>1. k = n - 1 /\ n > 1
        BY <2>3, <3>3
      <4>2. Done(k)' = stack[k].l /\ RNode'[stack[k].l] = RNode[stack[k].l]
        BY <2>3, <2>6 DEF Done
      <4> QED
        BY <2>1, <2>4, <2>6, <2>7, <4>1, <4>2
    <3> QED
      BY <3>2, <3>3 DEF RightGone
  <2>10. Ranked'
    BY <1>0, <2>6, <2>7, RankKept
  <2> QED
    BY <2>3, <2>8, <2>9, <2>10
<1>10. CASE TreeClosed \/ MallocFails \/ Crash
  <2>1. alloc' = {} /\ pc' = "off"
    BY <1>10 DEF TreeClosed, MallocFails, Crash, Gone
  <2> QED
    BY <1>0, <2>1, RankKept
<1> QED
  BY <1>1, <1>2, <1>3, <1>4, <1>5, <1>6, <1>7, <1>8, <1>9, <1>10 DEF Next, Open, Free

(* A node left over would hang on another one left over, and so on for ever. *)
LEMMA NoneOwed == OInv => AllFreed
<1> SUFFICES ASSUME OInv, pc = "free", stack = <<>> PROVE alloc = {}
  BY DEF AllFreed
<1>1. \A a \in alloc : FNode[a] \in alloc
  <2>1. Owed /\ Len(stack) = 0
    BY DEF OInv
  <2>2. 1..0 = {}
    OBVIOUS
  <2> QED
    BY <2>1, <2>2 DEF Owed
<1> QED
  BY <1>1, NoNodeLeft DEF OInv, WInv, NInv, SInv, TInv

(* When free_so_file_tree returns no node is left. *)
THEOREM EveryNodeFreed == Spec => []AllFreed
<1>1. Spec => []OInv
  BY OwedInit, OwedNext, PTL DEF Spec
<1> QED
  BY <1>1, NoneOwed, PTL
-----------------------------------------------------------------------------
(* The string of the node a row hangs on, and the string looked for. *)
Above(s) == SubSeq(s, 1, Len(s) - 1)
Target == SubSeq(name, 1, i)

(* No two nodes stand for the same string. *)
SpellsUnique == \A a, b \in alloc : spell[a] = spell[b] => a = b

Absent == \A b \in alloc : spell[b] # Target

(* S: the nodes of the row under lastNode that have been looked at. *)
Searched(S) ==
  /\ RNode[lastNode] # NULL /\ RNode[lastNode] \in S \union {node}
  /\ \A s \in S : s \in alloc /\ spell[s] # Target /\ LNode[s] \in S \union {node}

(* What the search has made sure of, in each place. *)
Seeking ==
  /\ SpellsUnique
  /\ pc = "sibling" => \E S \in SUBSET Addr : Searched(S)
  /\ pc = "lastsib" => Absent
  /\ pc = "insert" => IF AtEnd THEN plug[node] = Missing ELSE Absent
  /\ pc = "prune" => \A a \in alloc : HasPlugin(a) => plug[a].name # name
  /\ pc = "free" => \A k \in 1..Len(stack) : Done(k) # NULL => ~HasPlugin(Done(k))

UInv == OInv /\ Seeking

(* The string looked for is what is matched and one character more. *)
LEMMA TargetParts ==
  ASSUME TInv, pc \in Opening, i <= Len(name)
  PROVE  /\ Target = Append(Prefix, name[i]) /\ Target # <<>> /\ Above(Target) = Prefix
         /\ Prefix \in Seq(Chars) /\ name[i] \in Chars /\ Len(Target) = i
         /\ name \in Seq(Chars) /\ i \in Nat \ {0}
<1>1. name \in Seq(Chars) /\ i \in Nat \ {0}
  BY NamesAssumption DEF TInv, TypeOK, Places, Opening
<1>2. Target = Append(Prefix, name[i]) /\ name[i] \in Chars
  BY <1>1, CharOfName, OneMore DEF Target, Prefix
<1>3. \A k \in 1..(i - 1) : name[k] \in Chars
  BY <1>1, ElementOfSeq, LenProperties
<1>4. Prefix \in Seq(Chars)
  BY <1>1, <1>3, SubSeqProperties DEF Prefix
<1>5. Append(Prefix, name[i]) # <<>> /\ Above(Append(Prefix, name[i])) = Prefix
  BY <1>2, <1>4, OneLess DEF Above
<1>6. Len(Target) = i
  <2>1. \A k \in 1..i : name[k] \in Chars
    BY <1>1, ElementOfSeq, LenProperties
  <2> QED
    BY <1>1, <2>1, SubSeqProperties DEF Target
<1> QED
  BY <1>1, <1>2, <1>4, <1>5, <1>6

(* Going back along a row from a node outside S, where S is closed under     *)
(* going on, ends outside S at the node the row starts with.                 *)
LEMMA RowStart ==
  ASSUME TypeOK, Shape, Spelt, Ranked, NEW S, NEW b \in alloc \ (S \union {head}),
         \A s \in S : s \in alloc /\ LNode[s] \in S \union {NULL}
  PROVE  \E c \in alloc \ S : /\ FNode[c] \in alloc /\ RNode[FNode[c]] = c
                              /\ spell[FNode[c]] = Above(spell[b])
<1> USE NamesAssumption
<1>1. PICK r \in [Addr -> Nat] : \A a \in alloc : FNode[a] \in alloc => r[FNode[a]] < r[a]
  BY DEF Ranked
<1> DEFINE M == {c \in alloc \ (S \union {head}) : Above(spell[c]) = Above(spell[b])}
           T == {r[c] : c \in M}
<1>2. T \in SUBSET Nat /\ T # {}
  BY DEF TypeOK
<1>3. PICK m \in T : \A k \in T : ~(k < m)
  BY <1>2, LeastOne
<1>4. PICK c \in M : m = r[c]
  OBVIOUS
<1> DEFINE f == FNode[c]
<1>5. c \in alloc \ {head} /\ f \in alloc /\ (RNode[f] = c <=> LNode[f] # c) /\ c # NULL
  BY <1>4 DEF Shape, TypeOK
<1>6. f \notin M
  <2>1. r[f] < r[c]
    BY <1>1, <1>5
  <2>2. ASSUME f \in M PROVE FALSE
    <3>1. r[f] \in T
      BY <2>2
    <3> QED
      BY <1>3, <1>4, <2>1, <3>1
  <2> QED
    BY <2>2
<1>7. /\ \A a \in alloc : spell[a] \in Seq(Chars) /\ data[a] \in Chars \union {Root}
      /\ \A p \in Seq(Chars) : \A d \in Chars \union {Root} : Above(Append(p, d)) = p
  BY OneLess DEF TypeOK, Above
<1>8. RNode[f] = c
  <2> SUFFICES ASSUME LNode[f] = c PROVE FALSE
    BY <1>5
  <2>1. spell[f] # <<>> /\ spell[c] = Append(Above(spell[f]), data[c])
    BY <1>5 DEF Spelt, Above
  <2>2. Above(spell[f]) \in Seq(Chars)
    <3>1. spell[f] \in Seq(Chars) /\ Len(spell[f]) - 1 \in Int
      BY <1>5, <1>7, LenProperties
    <3>2. \A k \in 1..(Len(spell[f]) - 1) : spell[f][k] \in Chars
      BY <3>1, ElementOfSeq, LenProperties
    <3> QED
      BY <3>1, <3>2, SubSeqProperties DEF Above
  <2>3. Above(spell[c]) = Above(spell[f])
    BY <1>5, <1>7, <2>1, <2>2
  <2>4. f # head
    BY <2>1 DEF Spelt
  <2>5. f \in S
    BY <1>4, <1>5, <1>6, <2>3, <2>4
  <2> QED
    BY <1>4, <1>5, <2>5
<1>9. spell[c] = Append(spell[f], data[c])
  BY <1>5, <1>8 DEF Spelt
<1>10. spell[f] = Above(spell[b])
  BY <1>4, <1>5, <1>7, <1>9
<1> QED
  BY <1>4, <1>5, <1>8, <1>10

(* A node with nothing on its right: no string goes on from its own. *)
LEMMA NothingBelow ==
  ASSUME UInv, Shape, Spelt, NEW p \in alloc, RNode[p] = NULL, NEW b \in alloc \ {head},
         Above(spell[b]) = spell[p]
  PROVE  FALSE
<1>1. TypeOK /\ Ranked /\ SpellsUnique
  BY DEF UInv, OInv, WInv, NInv, SInv, TInv, Seeking
<1>2. PICK c \in alloc : /\ FNode[c] \in alloc /\ RNode[FNode[c]] = c
                         /\ spell[FNode[c]] = Above(spell[b])
  BY <1>1, RowStart, b \in alloc \ ({} \union {head}), \A s \in {} : FALSE
<1>3. FNode[c] = p
  BY <1>1, <1>2 DEF SpellsUnique
<1> QED
  BY <1>1, <1>2, <1>3, NamesAssumption DEF TypeOK

(* When the row under lastNode is at its end the string is not there. *)
LEMMA RowSearched ==
  ASSUME UInv, Shape, Spelt, pc = "sibling", node = NULL
  PROVE  Absent
<1>1. TypeOK /\ TInv /\ Ranked /\ SpellsUnique /\ lastNode \in alloc /\ spell[lastNode] = Prefix
  BY DEF UInv, OInv, WInv, NInv, SInv, TInv, Seeking, Standing
<1>2. PICK S \in SUBSET Addr : Searched(S)
  BY DEF UInv, Seeking
<1>3. /\ RNode[lastNode] \in S
      /\ \A s \in S : s \in alloc /\ spell[s] # Target /\ LNode[s] \in S \union {NULL}
  BY <1>2 DEF Searched
<1>4. Target # <<>> /\ Above(Target) = Prefix
  BY <1>1, TargetParts DEF TInv, Places, Opening
<1> SUFFICES ASSUME NEW b \in alloc, spell[b] = Target PROVE FALSE
  BY DEF Absent
<1>5. b \in alloc \ (S \union {head})
  BY <1>3, <1>4 DEF Spelt
<1>6. PICK c \in alloc \ S : /\ FNode[c] \in alloc /\ RNode[FNode[c]] = c
                             /\ spell[FNode[c]] = Above(spell[b])
  BY <1>1, <1>3, <1>5, RowStart
<1>7. FNode[c] = lastNode
  BY <1>1, <1>4, <1>6 DEF SpellsUnique
<1> QED
  BY <1>3, <1>6, <1>7

(* Before the first process there are no strings. *)
LEMMA SeekInit == Init => UInv
  BY OwedInit DEF Init, UInv, Seeking, SpellsUnique

(* A new node stands for a string that is not there yet, and for the next    *)
(* one nothing is there.                                                     *)
LEMMA NewNodeUnique ==
  ASSUME UInv, Shape, Spelt, pc \in {"insert", "lastsib"}, i <= Len(name), Absent,
         NEW a \in Addr, NewNode(a)
  PROVE  Seeking'
<1> USE NamesAssumption
<1>0. NInv /\ TInv /\ TypeOK /\ SpellsUnique /\ Ranked
  BY DEF UInv, OInv, WInv, NInv, SInv, TInv, Seeking
<1>1. /\ a \notin alloc /\ alloc' = alloc \union {a} /\ node' = a /\ plug' = plug
      /\ name' = name /\ i' = i + 1 /\ pc' = "insert"
      /\ spell' = [spell EXCEPT ![a] = Target]
  BY DEF NewNode, Target
<1>2. spell'[a] = Target /\ \A b \in alloc : spell'[b] = spell[b]
  BY <1>0, <1>1 DEF TypeOK
<1>3. SpellsUnique'
  BY <1>0, <1>1, <1>2 DEF SpellsUnique, Absent
<1>4. plug'[node'] = Missing
  BY <1>0, <1>1 DEF NInv
<1>5. ASSUME ~AtEnd' PROVE Absent'
  <2>1. i' <= Len(name') /\ Len(name) \in Nat /\ i \in Nat \ {0} /\ name \in Seq(Chars)
    <3>1. Len(name) \in Nat /\ i \in Nat \ {0} /\ name \in Seq(Chars)
      BY <1>0, TargetParts, LenProperties DEF Opening
    <3> QED
      BY <1>1, <1>5, <3>1 DEF AtEnd
  <2>2. /\ Target' = Append(Target, name[i + 1]) /\ name[i + 1] \in Chars
        /\ Target \in Seq(Chars)
    <3>1. i + 1 \in Nat \ {0} /\ i + 1 <= Len(name) /\ (i + 1) - 1 = i
      BY <1>1, <2>1
    <3>2. Target' = SubSeq(name, 1, i + 1)
      BY <1>1 DEF Target
    <3> QED
      BY <2>1, <3>1, <3>2, CharOfName, OneMore DEF Target
  <2>3. Above(Target') = Target /\ Len(Target') = Len(Target) + 1 /\ Len(Target) = i
        /\ Target' # <<>>
    <3>1. Len(Target) = i
      BY <1>0, TargetParts DEF Opening
    <3> QED
      BY <2>2, <3>1, OneLess, LengthKept DEF Above
  <2> SUFFICES ASSUME NEW b \in alloc', spell'[b] = Target' PROVE FALSE
    BY DEF Absent
  <2>4. b # a
    BY <1>2, <2>1, <2>3
  <2>5. b \in alloc /\ spell[b] = Target' /\ b # head
    BY <1>1, <1>2, <2>3, <2>4 DEF Spelt
  <2>6. PICK c \in alloc : /\ FNode[c] \in alloc /\ RNode[FNode[c]] = c
                           /\ spell[FNode[c]] = Above(spell[b])
    BY <1>0, <2>5, RowStart, b \in alloc \ ({} \union {head}), \A s \in {} : FALSE
  <2> QED
    BY <2>3, <2>5, <2>6 DEF Absent
<1> QED
  BY <1>1, <1>3, <1>4, <1>5 DEF Seeking

(* At the end of the name the loader is at the node that stands for it. *)
LEMMA WholeName ==
  ASSUME NInv, pc \in {"find", "insert"}, AtEnd
  PROVE  name \in Names /\ node \in alloc /\ spell[node] = name
<1>1. /\ name \in Names /\ name \in Seq(Chars) /\ node \in alloc
      /\ i \in Nat /\ Len(name) \in Nat /\ i <= Len(name) + 1
  BY NamesAssumption, LenProperties DEF NInv, SInv, TInv, TypeOK, Places, Opening, Standing
<1>2. i - 1 = Len(name)
  BY <1>1 DEF AtEnd
<1>3. SubSeq(name, 1, i - 1) = name
  BY <1>1, <1>2, AllAndNone
<1> QED
  BY <1>1, <1>3 DEF NInv, Standing, Prefix

(* Every step keeps the strings apart. *)
LEMMA SeekNext == UInv /\ [Next]_vars => UInv'
<1> SUFFICES ASSUME UInv, [Next]_vars PROVE Seeking'
  BY OwedNext DEF UInv
<1>0. /\ OInv /\ WInv /\ NInv /\ SInv /\ TInv /\ TypeOK /\ SpellsUnique
      /\ PluginAtItsName /\ Standing
  BY DEF UInv, OInv, WInv, NInv, SInv, TInv, Seeking
<1> USE NamesAssumption DEF Opening
<1> DEFINE Same == UNCHANGED <<alloc, spell, plug, RNode, LNode>>
<1>1. ASSUME UNCHANGED <<alloc, spell>> PROVE SpellsUnique'
  BY <1>0, <1>1 DEF SpellsUnique
<1>2. ASSUME UNCHANGED <<alloc, spell, name, i>>, Absent PROVE Absent'
  BY <1>2 DEF Absent, Target
<1>3. CASE UNCHANGED vars
  <2>0. \A a : HasPlugin(a)' <=> HasPlugin(a)
    BY <1>3 DEF vars, HasPlugin
  <2>1. SpellsUnique' /\ (Absent => Absent') /\ \A S \in SUBSET Addr : Searched(S) => Searched(S)'
    BY <1>1, <1>2, <1>3 DEF vars, Searched, Target
  <2>2. \A k \in 1..Len(stack) : Done(k)' = Done(k)
    BY <1>3 DEF vars, Done
  <2> QED
    <3>1. /\ pc' = "prune" => \A a \in alloc' : HasPlugin(a)' => plug'[a].name # name'
          /\ pc' = "free" => \A k \in 1..Len(stack') : Done(k)' # NULL => ~HasPlugin(Done(k))'
      BY <1>3, <2>0, <2>2 DEF vars, UInv, Seeking, HasPlugin
    <3> QED
      BY <1>3, <2>1, <3>1 DEF vars, UInv, Seeking, AtEnd
<1>4. CASE Start
  BY <1>4 DEF Start, Seeking, SpellsUnique
<1>5. CASE \/ \E n \in Names : OpenPlugin(n)
           \/ Found \/ PruneDone \/ SiblingMatches \/ \E k \in {"so", "py"} : Load(k)
  <2>1. UNCHANGED <<alloc, spell>> /\ pc' \in {"idle", "find"}
    BY <1>5 DEF OpenPlugin, Found, PruneDone, SiblingMatches, Searching, Load, Returns, heap, fields
  <2> QED
    BY <1>1, <2>1 DEF Seeking
<1>6. CASE FindRight
  <2>1. Same /\ pc' = "sibling" /\ lastNode' = node /\ node' = RNode[node] /\ RNode[node] # NULL
    BY <1>6 DEF FindRight, Searching, heap, fields
  <2>2. Searched({})'
    BY <2>1 DEF Searched
  <2> QED
    BY <1>1, <2>1, <2>2 DEF Seeking
<1>7. CASE SiblingDiffers
  <2>1. /\ Same /\ pc = "sibling" /\ pc' = "sibling" /\ UNCHANGED <<lastNode, name, i>>
        /\ node # NULL /\ data[node] # name[i] /\ node' = LNode[node]
    BY <1>7 DEF SiblingDiffers, Searching, Matches, NextLeft, heap, fields
  <2>2. PICK S \in SUBSET Addr : Searched(S)
    BY <2>1 DEF UInv, Seeking
  <2>3. node \in alloc /\ node \in Addr /\ spell[node] = Append(Prefix, data[node])
    BY <1>0, <2>1 DEF SInv, TypeOK, Standing
  <2>4. spell[node] # Target
    <3>1. Target = Append(Prefix, name[i]) /\ Prefix \in Seq(Chars) /\ name[i] \in Chars
      BY <1>0, <2>1, TargetParts DEF Places, TInv
    <3>2. data[node] \in Chars \union {Root}
      BY <1>0, <2>3 DEF TypeOK
    <3>3. ASSUME NEW p \in Seq(Chars), NEW c \in Chars \union {Root} PROVE Append(p, c)[Len(p) + 1] = c
      <4>1. p \in Seq(Chars \union {Root})
        OBVIOUS
      <4> QED
        BY <4>1, AppendProperties
    <3> QED
      BY <2>1, <2>3, <3>1, <3>2, <3>3
  <2>5. PICK T \in SUBSET Addr : T = S \union {node}
    BY <2>3
  <2>6. Target' = Target
    BY <2>1 DEF Target
  <2>7. Searched(T)'
    BY <2>1, <2>2, <2>3, <2>4, <2>5, <2>6 DEF Searched
  <2> QED
    BY <1>1, <2>1, <2>7 DEF Seeking
<1>8. CASE NoSibling
  <2>1. /\ Same /\ pc = "sibling" /\ pc' = "insert" /\ UNCHANGED <<name, i>> /\ node = NULL
    BY <1>8 DEF NoSibling, Searching, heap, fields
  <2>2. Absent
    BY <1>0, <2>1, RowSearched DEF NInv, SInv
  <2>3. ~AtEnd'
    <3>1. i \in Nat /\ Len(name) \in Nat /\ i <= Len(name)
      BY <1>0, <2>1, LenProperties DEF TypeOK, TInv, Places
    <3> QED
      BY <2>1, <3>1 DEF AtEnd
  <2> QED
    BY <1>1, <1>2, <2>1, <2>2, <2>3 DEF Seeking
<1>9. CASE NoRightNode
  <2>1. /\ Same /\ pc = "find" /\ pc' = "insert" /\ UNCHANGED <<name, i, node>>
        /\ RNode[node] = NULL /\ ~AtEnd /\ node \in alloc /\ spell[node] = Prefix
        /\ Shape /\ Spelt
    BY <1>0, <1>9 DEF NoRightNode, Searching, heap, fields, SInv, NInv, Standing
  <2>2. i <= Len(name)
    BY <1>0, <2>1, LenProperties DEF TypeOK, TInv, Places, AtEnd
  <2>3. Target # <<>> /\ Above(Target) = Prefix
    BY <1>0, <2>1, <2>2, TargetParts
  <2>4. ASSUME NEW b \in alloc, spell[b] = Target PROVE FALSE
    <3>1. b \in alloc \ {head} /\ Above(spell[b]) = spell[node]
      BY <2>1, <2>3, <2>4 DEF Spelt
    <3> QED
      BY <2>1, <3>1, NothingBelow
  <2>5. Absent /\ ~AtEnd'
    BY <2>1, <2>4 DEF Absent, AtEnd
  <2> QED
    BY <1>1, <1>2, <2>1, <2>5 DEF Seeking
<1>10. CASE FoundBare
  <2>1. /\ Same /\ pc' = "insert" /\ UNCHANGED <<name, i, node>> /\ AtEnd /\ plug[node] = Missing
    BY <1>10 DEF FoundBare, Bare, Searching, heap, fields
  <2> QED
    BY <1>1, <2>1 DEF Seeking, AtEnd
<1>11. CASE ToSiblings \/ NextSibling
  <2>1. Same /\ pc' = "lastsib" /\ UNCHANGED <<name, i>> /\ Absent
    BY <1>11 DEF ToSiblings, NextSibling, Searching, heap, fields, UInv, Seeking
  <2> QED
    BY <1>1, <1>2, <2>1 DEF Seeking
<1>12. CASE AddRight \/ AddLeft
  <2>1. Shape /\ Spelt /\ pc \in {"insert", "lastsib"} /\ i <= Len(name) /\ Absent
    BY <1>0, <1>12, LenProperties DEF AddRight, AddLeft, AtEnd, NInv, SInv, TInv, TypeOK, Places,
                                      UInv, Seeking
  <2>2. PICK a \in Addr : NewNode(a)
    BY <1>12 DEF AddRight, AddLeft
  <2> QED
    BY <2>1, <2>2, NewNodeUnique
<1>13. CASE NoSuchPlugin
  <2>1. /\ pc = "insert" /\ AtEnd /\ pc' = "prune" /\ UNCHANGED <<alloc, spell, name>>
        /\ plug' = [plug EXCEPT ![node] = Missing] /\ node \in alloc
    BY <1>0, <1>13 DEF NoSuchPlugin, ClearModule, SInv
  <2>2. plug[node] = Missing
    BY <2>1 DEF UInv, Seeking
  <2>3. spell[node] = name
    BY <1>0, <2>1, WholeName
  <2>4. ASSUME NEW a \in alloc, HasPlugin(a) PROVE plug[a].name # name
    BY <1>0, <2>1, <2>2, <2>3, <2>4 DEF PluginAtItsName, HasPlugin, SpellsUnique
  <2>5. \A a \in alloc' : HasPlugin(a)' => plug'[a].name # name'
    <3>1. plug' = plug
      BY <1>0, <2>1, <2>2 DEF TypeOK
    <3> QED
      BY <2>1, <2>4, <3>1 DEF HasPlugin
  <2> QED
    BY <1>1, <2>1, <2>5 DEF Seeking
<1>14. CASE PruneNode
  <2>1. /\ pc = "prune" /\ pc' = "prune" /\ UNCHANGED <<plug, name>> /\ alloc' \subseteq alloc
        /\ \A a \in alloc' : spell'[a] = spell[a]
    BY <1>0, <1>14 DEF PruneNode, FreeCell, TypeOK
  <2>2. SpellsUnique'
    BY <1>0, <2>1 DEF SpellsUnique
  <2> QED
    BY <2>1, <2>2 DEF UInv, Seeking, HasPlugin
<1>15. CASE CloseTree
  <2>1. UNCHANGED <<alloc, spell>> /\ pc' = "free" /\ stack' = <<Frame(head)>>
    BY <1>15 DEF CloseTree, heap
  <2>2. Len(stack') = 1 /\ ~stack'[1].inside /\ stack'[1].last = NULL
    BY <2>1 DEF Frame
  <2>3. \A k \in 1..Len(stack') : Done(k)' = NULL
    BY <2>2 DEF Done
  <2> QED
    BY <1>1, <2>1, <2>3 DEF Seeking
<1>16. CASE FreeVisit \/ FreeNext \/ FreeReturn
  <2>0. PICK n : n = Len(stack)
    OBVIOUS
  <2>1. /\ pc = "free" /\ pc' = "free" /\ stack # <<>> /\ alloc' \subseteq alloc
        /\ \A a \in alloc' : spell'[a] = spell[a]
        /\ \A a \in Addr : ~HasPlugin(a) => ~HasPlugin(a)'
    BY <1>0, <1>16 DEF FreeVisit, FreeNext, FreeReturn, FreeRowEnd, Freeing, FreeLast, FreeCell,
                       heap, fields, TypeOK, HasPlugin
  <2>2. SpellsUnique'
    BY <1>0, <2>1 DEF SpellsUnique
  <2>3. Top \in Frames /\ stack \in Seq(Frames) /\ \A k \in 1..Len(stack) : stack[k] \in Frames
    BY <1>0, <2>1, StackParts, ElementOfSeq DEF TypeOK, Top
  <2>4. n \in Nat \ {0} /\ Top = stack[n]
    BY <2>0, <2>1, <2>3, EmptySeq, LenProperties DEF Top
  <2>5. \A k \in 1..n : Done(k) # NULL => ~HasPlugin(Done(k)) /\ Done(k) \in Addr
    <3>1. \A k \in 1..n : Done(k) \in Ptr
      BY <2>0, <2>3 DEF Done, Frames
    <3> QED
      BY <2>0, <2>1, <3>1 DEF UInv, Seeking, Ptr
  <2>6. ASSUME NEW k \in 1..(n - 1), stack'[k] = stack[k], Done(k)' # NULL
        PROVE  ~HasPlugin(Done(k))'
    <3>1. Done(k)' = Done(k) /\ k \in 1..n
      BY <2>4, <2>6 DEF Done
    <3> QED
      BY <2>1, <2>5, <2>6, <3>1 DEF HasPlugin
  <2>7. CASE FreeVisit
    <3> DEFINE e == [Top EXCEPT !.inside = TRUE]
               d == Frame(RNode[Top.l])
               more == RNode[Top.l] # NULL
    <3>1. /\ Top.l # NULL /\ plug' = [plug EXCEPT ![Top.l] = IF @ = Missing THEN Missing ELSE Stale]
          /\ stack' = IF more THEN Append(Append(Caller, e), d) ELSE Append(Caller, e)
      BY <2>7 DEF FreeVisit
    <3>2. e \in Frames /\ d \in Frames /\ Top.l \in Addr
      BY <1>0, <2>3, <3>1 DEF Frame, Frames, TypeOK, Ptr
    <3>3. /\ stack'[n] = e /\ Len(stack') = IF more THEN n + 1 ELSE n
          /\ more => stack'[n + 1] = d
          /\ \A k \in 1..(n - 1) : stack'[k] = stack[k]
      BY <2>0, <2>1, <2>3, <3>1, <3>2, CallerKept DEF Caller
    <3>4. e.inside /\ e.l = Top.l /\ ~d.inside /\ d.last = NULL
      BY <2>3 DEF Frame, Frames
    <3>5. plug'[Top.l] \in {Missing, Stale}
      BY <1>0, <3>1, <3>2 DEF TypeOK
    <3> HIDE DEF e, d
    <3>6. Done(n)' = Top.l /\ (more => Done(n + 1)' = NULL)
      BY <3>3, <3>4 DEF Done
    <3>7. ASSUME NEW k \in 1..Len(stack'), Done(k)' # NULL PROVE ~HasPlugin(Done(k))'
      <4>1. k \in 1..(n - 1) \/ k = n \/ (more /\ k = n + 1)
        BY <2>4, <3>3
      <4> QED
        BY <2>6, <3>3, <3>5, <3>6, <3>7, <4>1 DEF HasPlugin
    <3> QED
      BY <2>1, <2>2, <3>7 DEF Seeking
  <2>8. CASE FreeNext
    <3> DEFINE e == [l |-> LNode[Top.l], last |-> Top.l, inside |-> FALSE]
    <3>1. Top.l # NULL /\ Top.inside /\ plug' = plug /\ stack' = Append(Caller, e)
      BY <2>8 DEF FreeNext, heap, fields
    <3>2. e \in Frames
      BY <1>0, <2>3, <3>1 DEF Frames, TypeOK, Ptr
    <3>3. stack'[n] = e /\ Len(stack') = n /\ \A k \in 1..(n - 1) : stack'[k] = stack[k]
      BY <2>0, <2>1, <2>3, <3>1, <3>2, CallerKept DEF Caller
    <3>4. ~e.inside /\ e.last = Top.l
      OBVIOUS
    <3> HIDE DEF e
    <3>5. Done(n)' = Top.l /\ Done(n) = Top.l
      BY <2>4, <3>1, <3>3, <3>4 DEF Done
    <3>6. ASSUME NEW k \in 1..Len(stack'), Done(k)' # NULL PROVE ~HasPlugin(Done(k))'
      <4>1. k \in 1..(n - 1) \/ k = n
        BY <2>4, <3>3
      <4>2. n \in 1..n
        BY <2>4
      <4> QED
        BY <2>5, <2>6, <3>1, <3>3, <3>5, <3>6, <4>1, <4>2 DEF HasPlugin
    <3> QED
      BY <2>1, <2>2, <3>6 DEF Seeking
  <2>9. CASE FreeReturn
    <3>1. stack' = Caller
      BY <2>9 DEF FreeReturn
    <3>2. Len(stack') = n - 1 /\ \A k \in 1..(n - 1) : stack'[k] = stack[k]
      BY <2>0, <2>1, <2>3, <3>1, CallerKept DEF Caller
    <3> QED
      BY <2>1, <2>2, <2>6, <3>2 DEF Seeking
  <2> QED
    BY <1>16, <2>7, <2>8, <2>9
<1>17. CASE TreeClosed \/ MallocFails \/ Crash
  <2>1. alloc' = {} /\ pc' = "off"
    BY <1>17 DEF TreeClosed, MallocFails, Crash, Gone
  <2> QED
    BY <2>1 DEF Seeking, SpellsUnique
<1> QED
  BY <1>3, <1>4, <1>5, <1>6, <1>7, <1>8, <1>9, <1>10, <1>11, <1>12, <1>13, <1>14, <1>15,
     <1>16, <1>17 DEF Next, Open, Free

(* No two nodes stand for the same string: open_plugin adds a node only      *)
(* after the whole row it belongs to has been looked at.                     *)
THEOREM StringsApart == Spec => []SpellsUnique
<1>1. Spec => []UInv
  BY SeekInit, SeekNext, PTL DEF Spec
<1> QED
  BY <1>1, PTL DEF UInv, Seeking
-----------------------------------------------------------------------------
(* A name is loaded in one node at most. *)
LEMMA LoadedOnce ==
  ASSUME UInv, NEW a \in alloc, HasPlugin(a)
  PROVE  /\ plug[a] \in Plugins /\ plug[a].name \in Names /\ plug[a].kind \in {"so", "py"}
         /\ Loaded(plug[a].name) = {a} /\ Held[plug[a].name] = plug[a].kind
<1>1. TypeOK /\ PluginAtItsName /\ SpellsUnique
  BY DEF UInv, OInv, WInv, NInv, SInv, TInv, Seeking
<1>2. plug[a] \in Plugins /\ plug[a].name \in Names /\ plug[a].kind \in {"so", "py"}
  BY <1>1 DEF TypeOK, Plugins, HasPlugin
<1>3. Loaded(plug[a].name) = {a}
  BY <1>1 DEF Loaded, PluginAtItsName, SpellsUnique
<1>4. (CHOOSE b \in {a} : TRUE) = a
  OBVIOUS
<1>5. Held[plug[a].name] = plug[a].kind
  BY <1>2, <1>3, <1>4 DEF Held
<1> QED
  BY <1>2, <1>3, <1>5

(* Where no node of the name gains or loses a plugin, it is held as before. *)
LEMMA HeldKept ==
  ASSUME NEW n \in Names, Loaded(n)' = Loaded(n), \A a \in Loaded(n) : plug'[a] = plug[a]
  PROVE  Held'[n] = Held[n]
<1>1. CASE Loaded(n) = {}
  BY <1>1 DEF Held
<1>2. CASE Loaded(n) # {}
  <2>1. (CHOOSE a \in Loaded(n) : TRUE) \in Loaded(n)
    BY <1>2
  <2> QED
    BY <1>2, <2>1 DEF Held
<1> QED
  BY <1>1, <1>2

(* Freeing or adding nodes without a plugin keeps what is held. *)
LEMMA HeldSame ==
  ASSUME \A a : (a \in alloc' /\ HasPlugin(a)') <=> (a \in alloc /\ HasPlugin(a)),
         \A a \in alloc : HasPlugin(a) => plug'[a] = plug[a]
  PROVE  Held' = Held
<1>1. ASSUME NEW n \in Names PROVE Held'[n] = Held[n]
  <2>1. Loaded(n)' = Loaded(n) /\ \A a \in Loaded(n) : plug'[a] = plug[a]
    BY DEF Loaded
  <2> QED
    BY <2>1, HeldKept
<1> QED
  BY <1>1 DEF Held

(* One name is held another way, the others as before. *)
LEMMA HeldBecomes ==
  ASSUME NEW n \in Names, NEW k, Held'[n] = k, \A m \in Names \ {n} : Held'[m] = Held[m]
  PROVE  Held' = [Held EXCEPT ![n] = k]
<1>1. Held = [m \in Names |-> Held[m]] /\ Held' = [m \in Names |-> Held'[m]]
  BY DEF Held
<1> QED
  BY <1>1

(* A step of the loader is a step of the table or none. *)
LEMMA TableStep == UInv /\ [Next]_vars => [Table!Next]_(Table!tvars)
<1> SUFFICES ASSUME UInv, [Next]_vars PROVE Table!Next \/ UNCHANGED Table!tvars
  OBVIOUS
<1>0. /\ OInv /\ WInv /\ NInv /\ SInv /\ TInv /\ TypeOK /\ SpellsUnique
      /\ PluginAtItsName /\ Standing
  BY DEF UInv, OInv, WInv, NInv, SInv, TInv, Seeking
<1> USE NamesAssumption DEF Opening
<1>1. ASSUME UNCHANGED <<alloc, plug>> PROVE Held' = Held
  BY <1>1, HeldSame DEF HasPlugin
<1>2. CASE UNCHANGED vars
  BY <1>1, <1>2 DEF vars, Stage, Table!tvars
<1>3. CASE Start
  <2>1. /\ pc = "off" /\ pc' = "idle" /\ alloc = {} /\ plug' = plug /\ ran' = ran
        /\ \A a \in alloc' : plug[a] = Missing
    BY <1>0, <1>3 DEF Start, fields, NInv
  <2>2. Held' = Held
    BY <2>1, HeldSame DEF HasPlugin
  <2>3. Table!Start
    BY <2>1, <2>2 DEF Table!Start, Stage
  <2> QED
    BY <2>3 DEF Table!Next
<1>4. CASE \/ \E n \in Names : OpenPlugin(n)
           \/ FindRight \/ NoRightNode \/ FoundBare \/ SiblingMatches \/ SiblingDiffers
           \/ NoSibling \/ ToSiblings \/ NextSibling
  <2>1. UNCHANGED <<alloc, plug, ran>> /\ pc \notin {"off", "free"} /\ pc' \notin {"off", "free"}
    BY <1>4 DEF OpenPlugin, FindRight, NoRightNode, FoundBare, SiblingMatches, SiblingDiffers,
                NoSibling, ToSiblings, NextSibling, Searching, heap, fields
  <2> QED
    BY <1>1, <2>1 DEF Stage, Table!tvars
<1>5. CASE AddRight \/ AddLeft
  <2>1. PICK a \in Addr : NewNode(a)
    BY <1>5 DEF AddRight, AddLeft
  <2>2. /\ alloc' = alloc \union {a} /\ UNCHANGED <<plug, ran>> /\ plug[a] = Missing
        /\ pc \in Opening /\ pc' = "insert"
    BY <1>0, <1>5, <2>1 DEF AddRight, AddLeft, NewNode, NInv
  <2>3. Held' = Held
    BY <2>2, HeldSame DEF HasPlugin
  <2> QED
    BY <2>2, <2>3 DEF Stage, Table!tvars
<1>6. CASE NoSuchPlugin
  <2>1. UNCHANGED <<alloc, ran>> /\ pc = "insert" /\ pc' = "prune" /\ plug[node] = Missing
        /\ plug' = [plug EXCEPT ![node] = Missing]
    BY <1>6 DEF NoSuchPlugin, ClearModule, UInv, Seeking
  <2>2. plug' = plug
    BY <1>0, <2>1 DEF TypeOK
  <2> QED
    BY <1>1, <2>1, <2>2 DEF Stage, Table!tvars
<1>7. CASE PruneNode
  <2>1. /\ UNCHANGED <<plug, ran>> /\ pc = "prune" /\ pc' = "prune" /\ plug[node] = Missing
        /\ alloc' = alloc \ {node}
    BY <1>7 DEF PruneNode, Prunable, FreeCell
  <2>2. Held' = Held
    BY <2>1, HeldSame DEF HasPlugin
  <2> QED
    BY <2>1, <2>2 DEF Stage, Table!tvars
<1>8. CASE PruneDone
  <2>1. /\ UNCHANGED <<alloc, plug>> /\ pc = "prune" /\ pc' = "idle" /\ ran' = Missing
        /\ name \in Names
    BY <1>0, <1>8 DEF PruneDone, Returns, heap, fields, TInv, Places
  <2>2. Loaded(name) = {}
    BY <2>1 DEF Loaded, UInv, Seeking
  <2>3. Held[name] = Missing
    BY <2>1, <2>2 DEF Held
  <2>4. Table!RunNothing(name)
    BY <1>1, <2>1, <2>3 DEF Table!RunNothing, Stage
  <2> QED
    BY <2>1, <2>4 DEF Table!Next
<1>9. CASE Found
  <2>1. /\ UNCHANGED <<alloc, plug>> /\ pc = "find" /\ AtEnd /\ pc' = "idle"
        /\ plug[node] # Missing /\ ran' = plug[node]
    BY <1>9 DEF Found, Bare, Returns, heap, fields
  <2>2. name \in Names /\ node \in alloc /\ HasPlugin(node) /\ plug[node].name = name
    <3>1. name \in Names /\ node \in alloc /\ spell[node] = name
      BY <1>0, <2>1, WholeName
    <3>2. HasPlugin(node)
      BY <1>0, <2>1, <3>1 DEF HasPlugin, TInv, NoneStale, TypeOK
    <3> QED
      BY <1>0, <3>1, <3>2 DEF PluginAtItsName
  <2>3. /\ plug[node] \in Plugins /\ plug[node].kind \in Table!Kinds
        /\ Held[name] = plug[node].kind
    BY <2>1, <2>2, LoadedOnce DEF Table!Kinds
  <2>4. ran' = [kind |-> plug[node].kind, name |-> name]
    BY <2>1, <2>2, <2>3 DEF Plugins
  <2>5. Held' = [Held EXCEPT ![name] = plug[node].kind]
    BY <1>1, <2>1, <2>2, <2>3, HeldBecomes
  <2>6. Table!Run(name, plug[node].kind)
    BY <2>1, <2>3, <2>4, <2>5 DEF Table!Run, Stage
  <2> QED
    BY <2>2, <2>3, <2>6 DEF Table!Next
<1>10. ASSUME NEW k \in {"so", "py"}, Load(k) PROVE Table!Next
  <2>0. PICK n : n = name
    OBVIOUS
  <2>1. /\ UNCHANGED alloc /\ pc = "insert" /\ AtEnd /\ pc' = "idle" /\ plug[node] = Missing
        /\ plug' = [plug EXCEPT ![node] = [kind |-> k, name |-> n]]
        /\ ran' = [kind |-> k, name |-> n]
    BY <1>10, <2>0 DEF Load, Returns, UInv, Seeking
  <2>2. n \in Names /\ node \in alloc /\ spell[node] = n /\ node \in Addr
    BY <1>0, <2>0, <2>1, WholeName DEF TypeOK
  <2>3. PICK a \in alloc : a = node
    BY <2>2
  <2>4. /\ plug'[a] = [kind |-> k, name |-> n] /\ HasPlugin(a)'
        /\ \A b \in alloc \ {a} : plug'[b] = plug[b]
    BY <1>0, <2>1, <2>2, <2>3 DEF TypeOK, HasPlugin
  <2>5. Loaded(n) = {}
    BY <1>0, <2>1, <2>2, <2>3 DEF Loaded, HasPlugin, PluginAtItsName, SpellsUnique
  <2>6. Loaded(n)' = {a}
    <3>1. plug'[a].name = n
      BY <2>4
    <3> QED
      BY <2>1, <2>4, <2>5, <3>1 DEF Loaded, HasPlugin
  <2>7. Held[n] = Missing
    BY <2>2, <2>5 DEF Held
  <2>8. Held'[n] = k
    <3>1. (CHOOSE b \in {a} : TRUE) = a
      OBVIOUS
    <3>2. Held'[n] = plug'[CHOOSE b \in {a} : TRUE].kind
      BY <2>2, <2>6 DEF Held
    <3> QED
      BY <2>4, <3>1, <3>2
  <2>9. ASSUME NEW m \in Names \ {n} PROVE Held'[m] = Held[m]
    <3>1. Loaded(m)' = Loaded(m) /\ \A b \in Loaded(m) : plug'[b] = plug[b]
      BY <2>1, <2>3, <2>4 DEF Loaded, HasPlugin
    <3> QED
      BY <3>1, HeldKept
  <2>10. Held' = [Held EXCEPT ![n] = k]
    BY <2>2, <2>8, <2>9, HeldBecomes
  <2>11. Table!Run(n, k)
    BY <2>1, <2>7, <2>10 DEF Table!Run, Stage
  <2> QED
    BY <2>2, <2>11 DEF Table!Next, Table!Kinds
<1>11. CASE CloseTree
  <2>1. UNCHANGED <<alloc, plug, ran>> /\ pc = "idle" /\ pc' = "free"
    BY <1>11 DEF CloseTree, heap, fields
  <2>2. Table!Close
    BY <1>1, <2>1 DEF Table!Close, Stage
  <2> QED
    BY <2>2 DEF Table!Next
<1>12. ASSUME Freeing, ~Top.inside, FreeLast(Top.last)
       PROVE  \A a : a \in alloc' /\ HasPlugin(a) <=> a \in alloc /\ HasPlugin(a)
  <2>1. Len(stack) \in 1..Len(stack) /\ pc = "free"
    BY <1>0, <1>12, EmptySeq, LenProperties DEF Freeing, TypeOK
  <2>2. Top.last # NULL => ~HasPlugin(Top.last)
    BY <1>12, <2>1 DEF UInv, Seeking, Done, Top
  <2>3. alloc' = IF Top.last = NULL THEN alloc ELSE alloc \ {Top.last}
    BY <1>12 DEF FreeLast, FreeCell
  <2> QED
    BY <2>2, <2>3
<1>13. CASE FreeVisit
  <2>1. /\ Freeing /\ pc = "free" /\ pc' = "free" /\ ran' = ran /\ ~Top.inside /\ Top.l # NULL
        /\ FreeLast(Top.last) /\ stack # <<>>
        /\ plug' = [plug EXCEPT ![Top.l] = IF @ = Missing THEN Missing ELSE Stale]
    BY <1>13 DEF FreeVisit, Freeing
  <2>2. PICK a : a = Top.l
    OBVIOUS
  <2>3. a \in alloc /\ a \in alloc' /\ a \in Addr
    BY <1>0, <2>1, <2>2, FreeTop DEF TypeOK
  <2>4. /\ ~HasPlugin(a)' /\ \A b : b # a => plug'[b] = plug[b]
        /\ \A b : b \in alloc' /\ HasPlugin(b) <=> b \in alloc /\ HasPlugin(b)
    BY <1>0, <1>12, <2>1, <2>2, <2>3 DEF TypeOK, HasPlugin
  <2>5. CASE ~HasPlugin(a)
    <3>1. Held' = Held
      BY <2>4, <2>5, HeldSame DEF HasPlugin
    <3> QED
      BY <2>1, <3>1 DEF Stage, Table!tvars
  <2>6. CASE HasPlugin(a)
    <3>1. PICK n \in Names : n = plug[a].name
      BY <2>3, <2>6, LoadedOnce
    <3>2. Loaded(n) = {a} /\ Held[n] \in {"so", "py"}
      BY <2>3, <2>6, <3>1, LoadedOnce
    <3>3. Loaded(n)' = {}
      BY <2>4, <3>2 DEF Loaded, HasPlugin
    <3>4. Held'[n] = Missing
      BY <3>3 DEF Held
    <3>5. ASSUME NEW m \in Names \ {n} PROVE Held'[m] = Held[m]
      <4>1. Loaded(m)' = Loaded(m) /\ \A b \in Loaded(m) : plug'[b] = plug[b]
        BY <2>4, <3>1 DEF Loaded, HasPlugin
      <4> QED
        BY <4>1, HeldKept
    <3>6. Held' = [Held EXCEPT ![n] = Missing]
      BY <3>4, <3>5, HeldBecomes
    <3>7. Table!Unload(n)
      BY <2>1, <3>2, <3>6 DEF Table!Unload, Stage
    <3> QED
      BY <3>7 DEF Table!Next
  <2> QED
    BY <2>5, <2>6
<1>14. CASE FreeNext
  <2>1. UNCHANGED <<alloc, plug, ran, pc>>
    BY <1>14 DEF FreeNext, heap, fields
  <2> QED
    BY <1>1, <2>1 DEF Stage, Table!tvars
<1>15. CASE FreeReturn
  <2>1. Freeing /\ Top.l = NULL /\ FreeLast(Top.last) /\ UNCHANGED <<plug, ran, pc>>
    BY <1>15 DEF FreeReturn, FreeRowEnd
  <2>2. ~Top.inside
    <3>1. FrameOK(Len(stack)) /\ NULL \notin alloc
      BY <1>0, <2>1, EmptySeq, LenProperties DEF Freeing, WInv, TypeOK
    <3> QED
      BY <2>1, <3>1 DEF FrameOK, Top
  <2>3. Held' = Held
    BY <1>12, <2>1, <2>2, HeldSame DEF HasPlugin
  <2> QED
    BY <2>1, <2>3 DEF Stage, Table!tvars
<1>16. ASSUME Gone PROVE Held' = Table!NothingLoaded /\ Stage' = "off" /\ ran' = Missing
  BY <1>16 DEF Gone, Held, Loaded, Stage, Table!NothingLoaded
<1>17. CASE TreeClosed
  <2>1. alloc = {} /\ pc = "free"
    BY <1>0, <1>17, NoneOwed DEF TreeClosed, AllFreed
  <2>2. Held = Table!NothingLoaded
    BY <2>1 DEF Held, Loaded, Table!NothingLoaded
  <2>3. Table!Closed
    BY <1>16, <1>17, <2>1, <2>2 DEF TreeClosed, Table!Closed, Stage
  <2> QED
    BY <2>3 DEF Table!Next
<1>18. CASE MallocFails \/ Crash
  <2>1. Gone /\ pc # "off"
    BY <1>18 DEF MallocFails, Crash
  <2>2. Stage # "off"
    BY <2>1 DEF Stage
  <2>3. Table!Die
    BY <1>16, <2>1, <2>2 DEF Table!Die
  <2> QED
    BY <2>3 DEF Table!Next
<1> QED
  BY <1>2, <1>3, <1>4, <1>5, <1>6, <1>7, <1>8, <1>9, <1>10, <1>11, <1>13, <1>14, <1>15,
     <1>17, <1>18 DEF Next, Open, Free

(* The trie implements the table: a plugin is loaded once, answers every     *)
(* later message with its name, and is unloaded once when the bot ends.      *)
THEOREM TrieLoadsOnce == Spec => LoadsOnce
<1>1. Init => Table!Init
  BY DEF Init, Table!Init, Stage, Held, Loaded, Table!NothingLoaded
<1>2. Spec => []UInv
  BY SeekInit, SeekNext, PTL DEF Spec
<1> QED
  BY <1>1, <1>2, TableStep, PTL DEF Spec, LoadsOnce, Table!Spec
-----------------------------------------------------------------------------
(* The cells of A that the links R and L lead to from a, a among them. *)
Closed(S, R, L) == \A c \in S : \A d \in {R[c], L[c]} \ {NULL} : d \in S
Reach(A, R, L, a) ==
  {b \in A : a # NULL /\ \A S \in SUBSET A : a \in S /\ Closed(S, R, L) => b \in S}

(* What open_plugin can still follow, how much of the name is left, and how  *)
(* many nodes it could still take back                                       *)
Ahead == Cardinality(Reach(alloc, RNode, LNode, node))
CharsLeft == Len(name) + 1 - i
Cells == Cardinality(alloc)

(* The nodes free_so_file_node has not come to *)
FreeLeft ==
  4 * Cardinality(Unseen) + 2 * Len(stack) + (IF stack # <<>> /\ Top.inside THEN 1 ELSE 0)

LoaderLeft ==
  CASE pc = "find" -> 6 + 2 * Cells + 2 * CharsLeft + 2 * Ahead
    [] pc = "sibling" -> 7 + 2 * Cells + 2 * CharsLeft + 2 * Ahead
    [] pc = "insert" -> IF newNode = NULL THEN 4 + Cells + 2 * CharsLeft + Ahead
                        ELSE 2 + Cells + 2 * CharsLeft
    [] pc = "lastsib" -> 2 + Cells + 2 * CharsLeft + Ahead
    [] pc = "prune" -> 1 + Cells
    [] pc = "free" -> 1 + FreeLeft
    [] pc \in {"off", "idle"} -> 0

(* Every step inside the loader brings it nearer to its return: the search   *)
(* and the walk to the end of a row never meet a node again, the insertion   *)
(* adds no more nodes than the name has characters, what is pruned is gone,  *)
(* and free_so_file_node comes to each node once (plugin.c 74-200).          *)
LoaderShrinks == [][(pc \in Opening \union {"free"}) => (LoaderLeft' < LoaderLeft)]_vars

(* What is reached is part of the trie. *)
LEMMA ReachFinite ==
  ASSUME NEW A, IsFiniteSet(A), NEW R, NEW L, NEW a
  PROVE  /\ IsFiniteSet(Reach(A, R, L, a)) /\ Cardinality(Reach(A, R, L, a)) \in Nat
         /\ Cardinality(Reach(A, R, L, a)) <= Cardinality(A) /\ Cardinality(A) \in Nat
<1>1. Reach(A, R, L, a) \in SUBSET A
  BY DEF Reach
<1> QED
  BY <1>1, FS_Subset, FS_CardinalityType

(* A link leads to where a node less can be reached: the node itself is      *)
(* below all that its link leads to.                                         *)
LEMMA ReachShrinks ==
  ASSUME NEW A \in SUBSET Addr, IsFiniteSet(A), NULL \notin A, NEW R, NEW L, NEW F,
         NEW a \in A, NEW d \in {R[a], L[a]} \ {NULL}, NEW r \in [Addr -> Nat],
         \A c \in A : \A e \in {R[c], L[c]} \ {NULL} : e \in A /\ F[e] = c,
         \A c \in A : F[c] \in A => r[F[c]] < r[c]
  PROVE  Cardinality(Reach(A, R, L, d)) < Cardinality(Reach(A, R, L, a))
<1> DEFINE X == Reach(A, R, L, a)
           Y == Reach(A, R, L, d)
           S == {c \in A : r[d] <= r[c]}
<1>1. d \in A /\ F[d] = a /\ r[a] < r[d] /\ \A c \in A : r[c] \in Nat
  OBVIOUS
<1>2. Closed(S, R, L)
  <2> SUFFICES ASSUME NEW c \in S, NEW e \in {R[c], L[c]} \ {NULL} PROVE e \in S
    BY DEF Closed
  <2>1. e \in A /\ F[e] = c /\ r[c] < r[e] /\ r[d] <= r[c] /\ r[e] \in Nat
    OBVIOUS
  <2> QED
    BY <1>1, <2>1
<1>3. d \in S /\ a \notin S /\ S \in SUBSET A
  BY <1>1
<1> HIDE DEF S
<1>4. a \notin Y
  BY <1>2, <1>3 DEF Reach
<1>5. a \in X
  BY DEF Reach
<1>6. Y \subseteq X
  <2> SUFFICES ASSUME NEW b \in Y PROVE b \in X
    OBVIOUS
  <2>1. b \in A /\ \A T \in SUBSET A : d \in T /\ Closed(T, R, L) => b \in T
    BY DEF Reach
  <2>2. ASSUME NEW T \in SUBSET A, a \in T, Closed(T, R, L) PROVE b \in T
    <3>1. d \in T
      BY <2>2 DEF Closed
    <3> QED
      BY <2>1, <2>2, <3>1
  <2> QED
    BY <2>1, <2>2 DEF Reach
<1> HIDE DEF X, Y
<1>7. IsFiniteSet(X) /\ Cardinality(X) \in Nat /\ IsFiniteSet(Y) /\ Cardinality(Y) \in Nat
  BY ReachFinite DEF X, Y
<1>8. IsFiniteSet(X \ {a}) /\ Cardinality(X \ {a}) = Cardinality(X) - 1
  BY <1>5, <1>7, FS_RemoveElement
<1>9. Y \in SUBSET (X \ {a})
  BY <1>4, <1>6
<1>10. Cardinality(Y) <= Cardinality(X \ {a})
  BY <1>8, <1>9, FS_Subset
<1> QED
  BY <1>7, <1>8, <1>10 DEF X, Y

(* The trie has finitely many nodes. *)
LEMMA FiniteNext ==
  ASSUME WInv, IsFiniteSet(alloc), [Next]_vars
  PROVE  IsFiniteSet(alloc')
<1>0. TypeOK
  BY DEF WInv, NInv, SInv, TInv
<1>1. ASSUME NEW a, alloc' \subseteq alloc \union {a} PROVE IsFiniteSet(alloc')
  <2>1. IsFiniteSet(alloc \union {a})
    BY FS_AddElement
  <2> QED
    BY <1>1, <2>1, FS_Subset
<1>2. \E a : alloc' \subseteq alloc \union {a}
  <2>1. CASE Start
    BY <2>1 DEF Start
  <2>2. CASE AddRight \/ AddLeft
    <3>1. PICK a : NewNode(a)
      BY <2>2 DEF AddRight, AddLeft
    <3> QED
      BY <3>1 DEF NewNode
  <2>3. CASE PruneNode
    BY <2>3 DEF PruneNode, FreeCell
  <2>4. CASE FreeVisit \/ FreeReturn
    BY <2>4 DEF FreeVisit, FreeReturn, FreeRowEnd, FreeLast, FreeCell
  <2>5. CASE TreeClosed \/ MallocFails \/ Crash
    BY <2>5 DEF TreeClosed, MallocFails, Crash, Gone
  <2>6. CASE \/ \E n \in Names : OpenPlugin(n)
             \/ FindRight \/ NoRightNode \/ FoundBare \/ SiblingMatches \/ SiblingDiffers
             \/ NoSibling \/ ToSiblings \/ NextSibling
             \/ Found \/ PruneDone \/ NoSuchPlugin \/ \E k \in {"so", "py"} : Load(k)
             \/ CloseTree \/ FreeNext \/ UNCHANGED vars
    BY <2>6 DEF OpenPlugin, FindRight, NoRightNode, FoundBare, SiblingMatches, SiblingDiffers,
                NoSibling, ToSiblings, NextSibling, Searching, Found, PruneDone, NoSuchPlugin,
                Load, Returns, CloseTree, FreeNext, heap, fields, vars
  <2> QED
    BY <2>1, <2>2, <2>3, <2>4, <2>5, <2>6 DEF Next, Open, Free
<1> QED
  BY <1>1, <1>2

(* The nodes ahead are fewer behind every link of the trie. *)
LEMMA AheadShrinks ==
  ASSUME OInv, IsFiniteSet(alloc), pc \notin {"off", "free"},
         NEW a \in alloc, NEW d \in {RNode[a], LNode[a]} \ {NULL}
  PROVE  Cardinality(Reach(alloc, RNode, LNode, d)) < Cardinality(Reach(alloc, RNode, LNode, a))
<1>1. TypeOK /\ Shape /\ Ranked
  BY DEF OInv, WInv, NInv, SInv, TInv
<1>2. PICK r \in [Addr -> Nat] : \A b \in alloc : FNode[b] \in alloc => r[FNode[b]] < r[b]
  BY <1>1 DEF Ranked
<1>3. alloc \in SUBSET Addr /\ NULL \notin alloc
  BY <1>1, NamesAssumption DEF TypeOK
<1>4. \A c \in alloc : \A e \in {RNode[c], LNode[c]} \ {NULL} : e \in alloc /\ FNode[e] = c
  BY <1>1 DEF Shape
<1> QED
  BY <1>2, <1>3, <1>4, ReachShrinks

(* What is left is a number, and there is something left inside the loader. *)
LEMMA LeftIsNumber ==
  ASSUME OInv, IsFiniteSet(alloc), pc \in Opening
  PROVE  /\ Cells \in Nat /\ Ahead \in Nat /\ Ahead <= Cells
         /\ pc # "prune" => CharsLeft \in Nat
         /\ pc \in {"sibling", "lastsib"} => CharsLeft >= 1
         /\ LoaderLeft \in Nat /\ LoaderLeft > 0
<1>1. Cells \in Nat /\ Ahead \in Nat /\ Ahead <= Cells
  BY ReachFinite DEF Cells, Ahead
<1>2. NInv /\ TInv
  BY DEF OInv, WInv, NInv, SInv
<1>3. Len(name) \in Nat /\ i \in Nat \ {0}
  BY <1>2, NamesAssumption, LenProperties DEF TInv, TypeOK, Places
<1>4. pc \in {"find", "insert", "sibling", "lastsib"} => i <= Len(name) + 1
  BY <1>2, <1>3 DEF NInv, Standing, TInv, Places
<1>5. pc \in {"sibling", "lastsib"} => i <= Len(name)
  BY <1>2 DEF TInv, Places
<1>6. pc # "prune" => CharsLeft \in Nat
  BY <1>3, <1>4 DEF CharsLeft, Opening
<1>7. pc \in {"sibling", "lastsib"} => CharsLeft >= 1
  BY <1>3, <1>5 DEF CharsLeft
<1>9. LoaderLeft \in Nat /\ LoaderLeft > 0
  <2> HIDE DEF Cells, Ahead, CharsLeft
  <2>1. CASE pc = "find"
    BY <1>1, <1>6, <2>1 DEF LoaderLeft
  <2>2. CASE pc = "sibling"
    BY <1>1, <1>6, <2>2 DEF LoaderLeft
  <2>3. CASE pc = "insert"
    BY <1>1, <1>6, <2>3 DEF LoaderLeft
  <2>4. CASE pc = "lastsib"
    BY <1>1, <1>6, <2>4 DEF LoaderLeft
  <2>5. CASE pc = "prune"
    BY <1>1, <2>5 DEF LoaderLeft
  <2> QED
    BY <2>1, <2>2, <2>3, <2>4, <2>5 DEF Opening
<1> QED
  BY <1>1, <1>6, <1>7, <1>9

(* The search: a link further, or the next character. *)
LEMMA SearchSteps ==
  ASSUME OInv, LInv, IsFiniteSet(alloc),
         \/ FindRight \/ NoRightNode \/ SiblingMatches \/ SiblingDiffers \/ NoSibling \/ FoundBare
         \/ ToSiblings \/ NextSibling
  PROVE  LoaderLeft' < LoaderLeft
<1> DEFINE Below(a) == Cardinality(Reach(alloc, RNode, LNode, a))
<1>1. /\ pc \in Opening /\ pc # "prune" /\ pc' \in Opening
      /\ UNCHANGED <<alloc, RNode, LNode, name, newNode>>
  BY DEF FindRight, NoRightNode, FoundBare, SiblingMatches, SiblingDiffers, NoSibling, ToSiblings,
         NextSibling, Searching, heap, fields, Opening
<1>2. /\ Cells \in Nat /\ Ahead \in Nat /\ Ahead <= Cells /\ CharsLeft \in Nat
  BY <1>1, LeftIsNumber
<1>3. Cells' = Cells /\ Ahead = Below(node) /\ Ahead' = Below(node')
  BY <1>1 DEF Cells, Ahead
<1>4. ASSUME NEW a PROVE Below(a) \in Nat /\ Below(a) <= Cells
  BY ReachFinite DEF Cells
<1>5. ASSUME NEW a \in alloc, NEW d \in {RNode[a], LNode[a]} \ {NULL} PROVE Below(d) < Below(a)
  BY <1>1, AheadShrinks DEF Opening
<1>6. /\ pc \in Opening \ {"sibling"} => node \in alloc
      /\ pc = "sibling" /\ node # NULL => node \in alloc
  BY DEF OInv, WInv, NInv, SInv
<1>7. pc \in {"find", "sibling", "lastsib"} => newNode = NULL
  BY DEF LInv, Living
<1>8. i' = i => CharsLeft' = CharsLeft
  BY <1>1 DEF CharsLeft
<1>9. CharsLeft' \in Nat /\ Ahead' \in Nat /\ Ahead' <= Cells
  <2>1. i' = i \/ i' = i + 1
    BY DEF FindRight, NoRightNode, FoundBare, SiblingMatches, SiblingDiffers, NoSibling, ToSiblings,
           NextSibling
  <2>2. i' = i + 1 => SiblingMatches
    <3>1. i \in Nat
      BY DEF OInv, WInv, NInv, SInv, TInv, TypeOK
    <3> QED
      BY <3>1 DEF FindRight, NoRightNode, FoundBare, SiblingDiffers, NoSibling, ToSiblings, NextSibling
  <2>3. SiblingMatches => CharsLeft >= 1
    BY <1>1, LeftIsNumber DEF SiblingMatches, Searching
  <2>4. Len(name) \in Nat /\ i \in Nat
    BY NamesAssumption, LenProperties DEF OInv, WInv, NInv, SInv, TInv, TypeOK, Places, Opening
  <2>5. i' = i + 1 => CharsLeft' = CharsLeft - 1
    BY <1>1, <2>4 DEF CharsLeft
  <2> QED
    BY <1>2, <1>3, <1>4, <1>8, <2>1, <2>2, <2>3, <2>5
<1> HIDE DEF Below, Cells, Ahead, CharsLeft
<1>10. CASE FindRight
  <2>1. pc = "find" /\ pc' = "sibling" /\ i' = i /\ node' = RNode[node] /\ RNode[node] # NULL
    BY <1>10 DEF FindRight, Searching
  <2>2. Ahead' < Ahead
    BY <1>3, <1>5, <1>6, <2>1 DEF Opening
  <2> QED
    BY <1>2, <1>3, <1>8, <1>9, <2>1, <2>2 DEF LoaderLeft
<1>11. CASE NoRightNode \/ FoundBare
  <2>1. pc = "find" /\ pc' = "insert" /\ i' = i /\ node' = node
    BY <1>11 DEF NoRightNode, FoundBare, Searching
  <2>2. LoaderLeft = 6 + 2 * Cells + 2 * CharsLeft + 2 * Ahead
    BY <2>1 DEF LoaderLeft
  <2>3. LoaderLeft' = 4 + Cells + 2 * CharsLeft + Ahead
    BY <1>1, <1>3, <1>7, <1>8, <2>1 DEF LoaderLeft
  <2> QED
    BY <1>2, <2>2, <2>3
<1>12. CASE SiblingMatches
  <2>1. pc = "sibling" /\ pc' = "find" /\ i' = i + 1 /\ node' = node
    BY <1>12 DEF SiblingMatches, Searching
  <2>2. CharsLeft' = CharsLeft - 1
    <3>1. Len(name) \in Nat /\ i \in Nat
      BY <1>1, NamesAssumption, LenProperties DEF OInv, WInv, NInv, SInv, TInv, TypeOK, Places, Opening
    <3> QED
      BY <1>1, <2>1, <3>1 DEF CharsLeft
  <2> QED
    BY <1>2, <1>3, <2>1, <2>2 DEF LoaderLeft
<1>13. CASE SiblingDiffers
  <2>1. pc = "sibling" /\ pc' = "sibling" /\ i' = i /\ node' = LNode[node] /\ node \in alloc
    BY <1>6, <1>13 DEF SiblingDiffers, Searching, NextLeft
  <2>2. Ahead' < Ahead
    <3>1. CASE LNode[node] # NULL
      BY <1>3, <1>5, <2>1, <3>1
    <3>2. CASE LNode[node] = NULL
      <4>1. Ahead' = 0
        <5>1. Reach(alloc, RNode, LNode, NULL) = {}
          BY DEF Reach
        <5> QED
          BY <1>3, <2>1, <3>2, <5>1, FS_EmptySet DEF Below
      <4>2. node \in Reach(alloc, RNode, LNode, node)
        BY <2>1, NamesAssumption DEF Reach, OInv, WInv, NInv, SInv, TInv, TypeOK
      <4>3. Ahead # 0
        <5>1. IsFiniteSet(Reach(alloc, RNode, LNode, node))
          BY ReachFinite
        <5> QED
          BY <4>2, <5>1, FS_EmptySet DEF Ahead
      <4> QED
        BY <1>2, <4>1, <4>3
    <3> QED
      BY <3>1, <3>2
  <2> QED
    BY <1>2, <1>3, <1>8, <1>9, <2>1, <2>2 DEF LoaderLeft
<1>14. CASE NoSibling
  <2>1. pc = "sibling" /\ pc' = "insert" /\ i' = i
    BY <1>14 DEF NoSibling, Searching
  <2>2. LoaderLeft = 7 + 2 * Cells + 2 * CharsLeft + 2 * Ahead
    BY <2>1 DEF LoaderLeft
  <2>3. LoaderLeft' = 4 + Cells + 2 * CharsLeft + Ahead'
    BY <1>1, <1>3, <1>7, <1>8, <2>1 DEF LoaderLeft
  <2>4. \A a, b, c, d \in Nat : d <= a => 4 + a + 2 * c + d < 7 + 2 * a + 2 * c + 2 * b
    OBVIOUS
  <2> QED
    BY <1>2, <1>9, <2>2, <2>3, <2>4
<1>15. CASE ToSiblings
  <2>1. pc = "insert" /\ pc' = "lastsib" /\ i' = i /\ node' = RNode[node] /\ RNode[node] # NULL
    BY <1>15 DEF ToSiblings, Searching
  <2>2. newNode = NULL
    BY <2>1 DEF LInv, Living
  <2>3. Ahead' < Ahead
    BY <1>3, <1>5, <1>6, <2>1 DEF Opening
  <2>4. LoaderLeft = 4 + Cells + 2 * CharsLeft + Ahead /\ LoaderLeft' = 2 + Cells + 2 * CharsLeft + Ahead'
    BY <1>1, <1>3, <1>8, <2>1, <2>2 DEF LoaderLeft
  <2>5. \A a, b, c, d \in Nat : d < b => 2 + a + 2 * c + d < 4 + a + 2 * c + b
    OBVIOUS
  <2> QED
    BY <1>2, <1>9, <2>3, <2>4, <2>5
<1>16. CASE NextSibling
  <2>1. pc = "lastsib" /\ pc' = "lastsib" /\ i' = i /\ node' = LNode[node] /\ LNode[node] # NULL
    BY <1>16 DEF NextSibling, Searching
  <2>2. Ahead' < Ahead
    BY <1>3, <1>5, <1>6, <2>1 DEF Opening
  <2> QED
    BY <1>2, <1>3, <1>8, <1>9, <2>1, <2>2 DEF LoaderLeft
<1> QED
  BY <1>10, <1>11, <1>12, <1>13, <1>14, <1>15, <1>16

(* A node more for each character at most, and none back twice. *)
LEMMA InsertSteps ==
  ASSUME OInv, LInv, IsFiniteSet(alloc), AddRight \/ AddLeft \/ NoSuchPlugin \/ PruneNode
  PROVE  LoaderLeft' < LoaderLeft
<1>0. /\ pc \in {"insert", "lastsib", "prune"} /\ pc \in Opening /\ TypeOK
      /\ node \in alloc /\ NULL \notin Addr
  BY NamesAssumption DEF AddRight, AddLeft, NoSuchPlugin, PruneNode, Opening, OInv, WInv, NInv, SInv, TInv
<1>1. /\ Cells \in Nat /\ Ahead \in Nat /\ (pc # "prune" => CharsLeft \in Nat)
      /\ pc = "lastsib" => CharsLeft >= 1
  BY <1>0, LeftIsNumber
<1>2. CASE AddRight \/ AddLeft
  <2>1. PICK a \in Addr \ alloc : NewNode(a)
    BY <1>2 DEF AddRight, AddLeft, NewNode
  <2>2. pc' = "insert" /\ newNode' # NULL /\ alloc' = alloc \union {a} /\ name' = name /\ i' = i + 1
    BY <1>0, <2>1 DEF NewNode, TypeOK
  <2>3. Cells' = Cells + 1
    BY <2>1, <2>2, FS_AddElement DEF Cells
  <2>4. CharsLeft' = CharsLeft - 1
    <3>1. Len(name) \in Nat /\ i \in Nat
      BY <1>0, NamesAssumption, LenProperties DEF OInv, WInv, NInv, SInv, TInv, TypeOK, Places, Opening
    <3> QED
      BY <2>2, <3>1 DEF CharsLeft
  <2>5. LoaderLeft' = 2 + (Cells + 1) + 2 * (CharsLeft - 1)
    BY <2>2, <2>3, <2>4 DEF LoaderLeft
  <2>6. LoaderLeft \in {4 + Cells + 2 * CharsLeft + Ahead, 2 + Cells + 2 * CharsLeft,
                        2 + Cells + 2 * CharsLeft + Ahead}
    BY <1>2 DEF AddRight, AddLeft, LoaderLeft
  <2>7. CharsLeft \in Nat
    BY <1>1, <1>2 DEF AddRight, AddLeft
  <2>8. \A n, c, b \in Nat : /\ 2 + (n + 1) + 2 * (c - 1) < 4 + n + 2 * c + b
                             /\ 2 + (n + 1) + 2 * (c - 1) < 2 + n + 2 * c
                             /\ 2 + (n + 1) + 2 * (c - 1) < 2 + n + 2 * c + b
    OBVIOUS
  <2> QED
    BY <1>1, <2>5, <2>6, <2>7, <2>8
<1>3. CASE NoSuchPlugin
  <2>1. pc = "insert" /\ pc' = "prune" /\ alloc' = alloc
    BY <1>3 DEF NoSuchPlugin
  <2>2. LoaderLeft' = 1 + Cells
    BY <2>1 DEF LoaderLeft, Cells
  <2>3. LoaderLeft \in {4 + Cells + 2 * CharsLeft + Ahead, 2 + Cells + 2 * CharsLeft}
    BY <2>1 DEF LoaderLeft
  <2>4. \A n, c, b \in Nat : 1 + n < 4 + n + 2 * c + b /\ 1 + n < 2 + n + 2 * c
    OBVIOUS
  <2> QED
    BY <1>1, <2>1, <2>2, <2>3, <2>4
<1>4. CASE PruneNode
  <2>1. pc = "prune" /\ pc' = "prune" /\ alloc' = alloc \ {node}
    BY <1>4 DEF PruneNode, FreeCell
  <2>2. Cells' = Cells - 1
    BY <1>0, <2>1, FS_RemoveElement DEF Cells
  <2>3. LoaderLeft = 1 + Cells /\ LoaderLeft' = 1 + Cells'
    BY <2>1 DEF LoaderLeft
  <2> QED
    BY <1>1, <2>2, <2>3
<1> QED
  BY <1>2, <1>3, <1>4

(* The walk: a node it had not come to, or a frame less or nearer its end. *)
LEMMA FreeSteps ==
  ASSUME OInv, IsFiniteSet(alloc), FreeVisit \/ FreeNext \/ FreeReturn
  PROVE  LoaderLeft' < LoaderLeft
<1> DEFINE n == Len(stack)
           u == Cardinality(Unseen)
<1>0. /\ pc = "free" /\ pc' = "free" /\ stack # <<>> /\ TypeOK /\ NULL \notin Addr
      /\ \A k \in 1..n : FrameOK(k)
  BY NamesAssumption DEF FreeVisit, FreeNext, FreeReturn, Freeing, OInv, WInv, NInv, SInv, TInv
<1>1. /\ n \in Nat \ {0} /\ Top = stack[n] /\ Top \in Frames /\ n \in 1..n
      /\ Caller = SubSeq(stack, 1, n - 1) /\ Caller \in Seq(Frames) /\ Len(Caller) = n - 1
      /\ \A k \in 1..(n - 1) : Caller[k] = stack[k]
  BY <1>0, StackParts, CallerKept, EmptySeq, LenProperties DEF TypeOK, Top, Caller
<1>2. IsFiniteSet(Unseen) /\ u \in Nat
  <2>1. Unseen \in SUBSET alloc
    BY DEF Unseen
  <2> QED
    BY <2>1, FS_Subset, FS_CardinalityType
<1>3. LoaderLeft = 1 + (4 * u + 2 * n + (IF Top.inside THEN 1 ELSE 0))
  BY <1>0 DEF LoaderLeft, FreeLeft
<1>4. LoaderLeft' = 1 + (4 * Cardinality(Unseen') + 2 * Len(stack') + (IF stack' # <<>> /\ Top'.inside THEN 1 ELSE 0))
  BY <1>0 DEF LoaderLeft, FreeLeft
<1> HIDE DEF n
<1>5. CASE FreeVisit
  <2> DEFINE e == [Top EXCEPT !.inside = TRUE]
             d == Frame(RNode[Top.l])
  <2>1. /\ Top.l # NULL /\ ~Top.inside /\ FreeLast(Top.last) /\ TRUE
        /\ stack' = IF RNode[Top.l] # NULL THEN Append(Append(Caller, e), d) ELSE Append(Caller, e)
    BY <1>5 DEF FreeVisit
  <2>2. e \in Frames /\ e.inside = TRUE /\ e.l = Top.l /\ d \in Frames /\ d.inside = FALSE
    BY <1>0, <1>1, <2>1 DEF Frames, Frame, TypeOK, Ptr
  <2>3. alloc' \subseteq alloc /\ (Top.last # NULL => Top.last \notin alloc')
    BY <2>1 DEF FreeLast, FreeCell
  <2>4. Top.l \in alloc /\ Top.last # Top.l /\ Depth(Top.l) = n - 1
    BY <1>0, <1>1, <2>1 DEF FrameOK, n
  <2> HIDE DEF e, d
  <2>6. /\ Len(stack') \in {n, n + 1} /\ stack'[n] = e /\ \A k \in 1..(n - 1) : stack'[k] = stack[k]
        /\ Len(stack') = n + 1 => ~stack'[n + 1].inside
    BY <1>0, <1>1, <2>1, <2>2, CallerKept DEF TypeOK, n
  <2>7. Top.l \in Unseen
    BY <2>1, <1>5, UnseenTop DEF FreeVisit, OInv
  <2>8. Unseen' \subseteq Unseen \ {Top.l}
    BY <1>5, UnseenSteps DEF OInv
  <2>9. Cardinality(Unseen') \in Nat /\ Cardinality(Unseen') <= u - 1
    <3>1. IsFiniteSet(Unseen \ {Top.l}) /\ Cardinality(Unseen \ {Top.l}) = u - 1
      BY <1>2, <2>7, FS_RemoveElement
    <3> QED
      BY <2>8, <3>1, FS_Subset, FS_CardinalityType
  <2>10. LoaderLeft' <= 1 + (4 * Cardinality(Unseen') + 2 * (n + 1))
    <3>1. Top' = stack'[Len(stack')]
      BY DEF Top
    <3>2. CASE Len(stack') = n + 1
      BY <1>1, <1>4, <2>6, <2>9, <3>1, <3>2
    <3>3. CASE Len(stack') = n
      <4>1. LoaderLeft' \in {1 + (4 * Cardinality(Unseen') + 2 * n + 1), 1 + (4 * Cardinality(Unseen') + 2 * n + 0)}
        BY <1>4, <3>3
      <4> QED
        BY <1>1, <2>9, <4>1
    <3> QED
      BY <2>6, <3>2, <3>3
  <2>11. LoaderLeft = 1 + (4 * u + 2 * n + 0)
    BY <1>3, <2>1
  <2>12. LoaderLeft' \in Int
    BY <1>1, <1>4, <2>6, <2>9
  <2> HIDE DEF u
  <2>13. \A p, q, m, x \in Int : p <= q - 1 /\ x <= 1 + (4 * p + 2 * (m + 1)) => x < 1 + (4 * q + 2 * m + 0)
    OBVIOUS
  <2>14. Cardinality(Unseen') \in Int /\ u \in Int /\ n \in Int
    BY <1>1, <1>2, <2>9
  <2>15. LoaderLeft' < 1 + (4 * u + 2 * n + 0)
    BY <2>9, <2>10, <2>12, <2>13, <2>14
  <2> QED
    BY <2>11, <2>15
<1>6. CASE FreeNext
  <2> DEFINE e == [l |-> LNode[Top.l], last |-> Top.l, inside |-> FALSE]
  <2>1. Top.l # NULL /\ Top.inside /\ stack' = Append(Caller, e) /\ alloc' = alloc
    BY <1>6 DEF FreeNext, heap
  <2>2. e \in Frames /\ e.inside = FALSE /\ e.last = Top.l
    BY <1>0, <1>1, <2>1 DEF Frames, TypeOK, Ptr
  <2> HIDE DEF e
  <2>3. Len(stack') = n /\ stack'[n] = e /\ \A k \in 1..(n - 1) : stack'[k] = stack[k]
    BY <1>0, <1>1, <2>1, <2>2, CallerKept DEF TypeOK, n
  <2>4. Unseen' \subseteq Unseen
    BY <1>6, UnseenSteps DEF OInv
  <2>5. Cardinality(Unseen') \in Nat /\ Cardinality(Unseen') <= u
    BY <1>2, <2>4, FS_Subset, FS_CardinalityType
  <2>6. LoaderLeft' = 1 + (4 * Cardinality(Unseen') + 2 * n + 0)
    <3>1. Top' = stack'[Len(stack')]
      BY DEF Top
    <3> QED
      BY <1>4, <2>2, <2>3, <3>1
  <2>7. LoaderLeft = 1 + (4 * u + 2 * n + 1)
    BY <1>3, <2>1
  <2> HIDE DEF u
  <2>8. \A p, q, m \in Int : p <= q => 1 + (4 * p + 2 * m + 0) < 1 + (4 * q + 2 * m + 1)
    OBVIOUS
  <2> QED
    BY <1>1, <1>2, <2>5, <2>6, <2>7, <2>8
<1>7. CASE FreeReturn
  <2>1. Top.l = NULL /\ stack' = Caller /\ FreeLast(Top.last)
    BY <1>7 DEF FreeReturn, FreeRowEnd
  <2>2. ~Top.inside
    BY <1>0, <1>1, <2>1 DEF FrameOK, n, TypeOK
  <2>3. alloc' \subseteq alloc /\ (Top.last # NULL => Top.last \notin alloc')
    BY <2>1 DEF FreeLast, FreeCell
  <2>4. Len(stack') = n - 1 /\ \A k \in 1..(n - 1) : stack'[k] = stack[k]
    BY <1>1, <2>1
  <2>5. Unseen' \subseteq Unseen
    BY <1>7, UnseenSteps DEF OInv
  <2>6. Cardinality(Unseen') \in Nat /\ Cardinality(Unseen') <= u
    BY <1>2, <2>5, FS_Subset, FS_CardinalityType
  <2>7. LoaderLeft' \in {1 + (4 * Cardinality(Unseen') + 2 * (n - 1) + 1),
                         1 + (4 * Cardinality(Unseen') + 2 * (n - 1) + 0)}
    BY <1>4, <2>4
  <2>8. LoaderLeft = 1 + (4 * u + 2 * n + 0)
    BY <1>3, <2>2
  <2> HIDE DEF u
  <2>9. \A p, q, m \in Int : p <= q =>
          /\ 1 + (4 * p + 2 * (m - 1) + 1) < 1 + (4 * q + 2 * m + 0)
          /\ 1 + (4 * p + 2 * (m - 1) + 0) < 1 + (4 * q + 2 * m + 0)
    OBVIOUS
  <2> QED
    BY <1>1, <1>2, <2>6, <2>7, <2>8, <2>9
<1> QED
  BY <1>5, <1>6, <1>7

(* What is left inside the loader is a number above zero. *)
LEMMA LoaderLeftIsNumber ==
  ASSUME OInv, IsFiniteSet(alloc), pc \in Opening \union {"free"}
  PROVE  LoaderLeft \in Nat /\ LoaderLeft > 0
<1>1. CASE pc \in Opening
  BY <1>1, LeftIsNumber
<1>2. CASE pc = "free"
  <2>1. Unseen \in SUBSET alloc
    BY DEF Unseen
  <2>2. Cardinality(Unseen) \in Nat
    BY <2>1, FS_Subset, FS_CardinalityType
  <2>3. Len(stack) \in Nat
    BY LenProperties DEF OInv, WInv, NInv, SInv, TInv, TypeOK
  <2>4. FreeLeft \in Nat
    BY <2>2, <2>3 DEF FreeLeft
  <2>5. LoaderLeft = 1 + FreeLeft
    BY <1>2 DEF LoaderLeft
  <2> QED
    BY <2>4, <2>5
<1> QED
  BY <1>1, <1>2

(* A step out of the loader leaves nothing to do. *)
LEMMA LoaderSteps ==
  ASSUME OInv, LInv, IsFiniteSet(alloc), Next, pc \in Opening \union {"free"}
  PROVE  LoaderLeft' < LoaderLeft
<1>1. ~Start /\ ~(\E n \in Names : OpenPlugin(n)) /\ ~CloseTree
  BY DEF Start, OpenPlugin, CloseTree, Opening
<1>2. LoaderLeft \in Nat /\ LoaderLeft > 0
  BY LoaderLeftIsNumber
<1>3. ASSUME pc' \in {"off", "idle"} PROVE LoaderLeft' < LoaderLeft
  <2>1. LoaderLeft' = 0
    BY <1>3 DEF LoaderLeft
  <2> QED
    BY <1>2, <2>1
<1>4. CASE Found \/ PruneDone \/ MallocFails \/ TreeClosed \/ Crash \/ \E k \in {"so", "py"} : Load(k)
  BY <1>3, <1>4 DEF Found, PruneDone, MallocFails, TreeClosed, Crash, Load, Returns, Gone
<1> QED
  BY <1>1, <1>4, SearchSteps, InsertSteps, FreeSteps DEF Next, Open, Free

(* The argument under LoaderReturns, for every set of cells and of names:    *)
(* the search, the insertion and the pruning of open_plugin and the walk of  *)
(* free_so_file_node come to their ends: what is left is a natural number    *)
(* that every step lowers.                                                   *)
THEOREM LoaderRunsDown == Spec => [](LoaderLeft \in Nat) /\ LoaderShrinks
<1>0. OInv /\ IsFiniteSet(alloc) => LoaderLeft \in Nat
  <2> SUFFICES ASSUME OInv, IsFiniteSet(alloc) PROVE LoaderLeft \in Nat
    OBVIOUS
  <2>1. pc \in {"off", "idle", "free"} \union Opening
    BY DEF OInv, WInv, NInv, SInv, TInv, TypeOK
  <2>2. CASE pc \in {"off", "idle"}
    BY <2>2 DEF LoaderLeft
  <2> QED
    BY <2>1, <2>2, LoaderLeftIsNumber
<1>1. Init => IsFiniteSet(alloc)
  BY FS_EmptySet DEF Init
<1>2. OInv /\ IsFiniteSet(alloc) /\ [Next]_vars => IsFiniteSet(alloc)'
  BY FiniteNext DEF OInv
<1>3. OInv /\ LInv /\ IsFiniteSet(alloc) /\ [Next]_vars =>
        ((pc \in Opening \union {"free"}) => (LoaderLeft' < LoaderLeft)) \/ UNCHANGED vars
  BY LoaderSteps
<1>4. Spec => []OInv
  BY OwedInit, OwedNext, PTL DEF Spec
<1>5. Spec => []LInv
  BY LivingInit, LivingNext, PTL DEF Spec
<1> QED
  BY <1>0, <1>1, <1>2, <1>3, <1>4, <1>5, PTL DEF Spec, LoaderShrinks
=============================================================================
