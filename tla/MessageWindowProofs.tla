------------------------ MODULE MessageWindowProofs ------------------------
(* Type correctness and the safety of the message list for every set of      *)
(* cells, every clock and every window: it stays well linked, its number is  *)
(* the number of nodes, no freed node is followed and none is left behind.   *)
EXTENDS MessageWindow, SequenceTheorems, WellFoundedInduction, TLAPS

(* The nodes of q hang together from n on, and none is met twice. *)
Chain(n, q) == Linked(n, q) /\ Distinct(q)

(* The inductive invariant: WellLinked, with its counterparts inside the two *)
(* loops, where the chain starts at the loop's node.                         *)
IInv ==
  /\ TypeOK
  /\ pc = "exited" => alloc = {} /\ queue = <<>>
  /\ pc \in {"idle", "prune"} =>
       /\ listHead \in Addr
       /\ alloc = {listHead} \union Nodes(queue) /\ listHead \notin Nodes(queue)
       /\ num = Len(queue)
       /\ queue # <<>> => listTail = queue[Len(queue)]
  /\ pc = "idle" => Chain(next[listHead], queue) /\ (queue = <<>> => listTail = listHead)
  /\ pc = "prune" => Chain(cur, queue)
  /\ pc = "sleep" => Chain(cur, queue) /\ alloc = Nodes(queue)
-----------------------------------------------------------------------------
(* What Tail leaves of a sequence of cells. *)
LEMMA TailOfQueue ==
  ASSUME NEW S, NEW q \in Seq(S), q # <<>>
  PROVE  /\ Tail(q) \in Seq(S) /\ Len(q) \in Nat \ {0}
         /\ Len(Tail(q)) = Len(q) - 1
         /\ \A i \in 1..Len(Tail(q)) : Tail(q)[i] = q[i + 1]
         /\ \A i \in 1..Len(q) : q[i] \in S
  OBVIOUS

(* Append keeps the old cells in place and adds the new one last. *)
LEMMA AppendToQueue ==
  ASSUME NEW S, NEW q \in Seq(S), NEW n \in S
  PROVE  /\ Append(q, n) \in Seq(S) /\ Len(q) \in Nat
         /\ Len(Append(q, n)) = Len(q) + 1
         /\ \A i \in 1..Len(q) : Append(q, n)[i] = q[i] /\ q[i] \in S
         /\ Append(q, n)[Len(q) + 1] = n
         /\ Append(q, n) # <<>>
  OBVIOUS

(* A queue with a cell put before it: every old cell is one place further. *)
LEMMA PrefixQueue ==
  ASSUME NEW S, NEW q \in Seq(S), NEW n \in S
  PROVE  /\ <<n>> \o q \in Seq(S) /\ Len(q) \in Nat
         /\ Len(<<n>> \o q) = Len(q) + 1
         /\ (<<n>> \o q)[1] = n
         /\ \A i \in 1..Len(q) : (<<n>> \o q)[i + 1] = q[i] /\ q[i] \in S
         /\ <<n>> \o q # <<>>
  OBVIOUS

(* A chain is empty or starts with the cell it is entered by. *)
LEMMA ChainStart ==
  ASSUME NEW q \in Seq(Addr), NEW n, Linked(n, q)
  PROVE  \/ q = <<>> /\ n = NULL
         \/ /\ q # <<>> /\ n = q[1] /\ n \in Addr /\ n # NULL
            /\ Len(q) \in Nat \ {0}
            /\ next[n] = IF Len(q) = 1 THEN NULL ELSE q[2]
<1>1. CASE q = <<>>
  BY <1>1 DEF Linked
<1>2. CASE q # <<>>
  <2>1. Len(q) \in Nat \ {0} /\ 1 \in 1..Len(q) /\ q[1] \in Addr
    BY <1>2
  <2>2. n = q[1] /\ next[q[1]] = IF 1 = Len(q) THEN NULL ELSE q[1 + 1]
    BY <1>2, <2>1 DEF Linked
  <2> QED
    BY <1>2, <2>1, <2>2, NullAssumption
<1> QED
  BY <1>1, <1>2
-----------------------------------------------------------------------------
(* Before the first process nothing is allocated and every field is blank. *)
LEMMA TypeInit == Init => TypeOK
  BY EmptySeq DEF Init, TypeOK

(* The strengthened invariant holds before the first process. *)
LEMMA InvInit == Init => IInv
  BY TypeInit DEF Init, IInv

(* Taking the first node off a chain and freeing it leaves the rest a chain. *)
LEMMA FreeFirst ==
  ASSUME TypeOK, queue # <<>>, Chain(cur, queue), Free(cur),
         cur' = next[cur], queue' = Tail(queue)
  PROVE  /\ Chain(cur, queue)'
         /\ cur = queue[1] /\ cur \in Addr /\ cur \in Nodes(queue)
         /\ cur' \in Addr \union {NULL}
         /\ queue' \in Seq(Addr)
         /\ Nodes(queue') = Nodes(queue) \ {cur}
         /\ queue' # <<>> => queue'[Len(queue')] = queue[Len(queue)]
<1> USE DEF TypeOK, Chain
<1>1. /\ queue' \in Seq(Addr) /\ Len(queue) \in Nat \ {0}
      /\ Len(queue') = Len(queue) - 1
      /\ \A i \in 1..Len(queue') : queue'[i] = queue[i + 1]
      /\ \A i \in 1..Len(queue) : queue[i] \in Addr
  BY TailOfQueue
<1>2. /\ cur = queue[1] /\ cur \in Addr
      /\ next[cur] = IF Len(queue) = 1 THEN NULL ELSE queue[2]
  BY ChainStart
<1>3. Distinct(queue')
  BY <1>1 DEF Distinct
<1>4. \A i \in 1..Len(queue') : queue'[i] # cur
  BY <1>1, <1>2 DEF Distinct
<1>5. \A i \in 1..Len(queue') :
        next'[queue'[i]] = IF i = Len(queue') THEN NULL ELSE queue'[i + 1]
  <2> TAKE i \in 1..Len(queue')
  <2>1. next'[queue'[i]] = next[queue[i + 1]]
    BY <1>1, <1>4 DEF Free
  <2>2. next[queue[i + 1]] = IF i + 1 = Len(queue) THEN NULL ELSE queue[(i + 1) + 1]
    <3>1. i + 1 \in 1..Len(queue)
      BY <1>1
    <3> QED
      BY <3>1 DEF Linked
  <2>3. i + 1 = Len(queue) <=> i = Len(queue')
    BY <1>1
  <2>4. CASE i # Len(queue')
    <3>1. i + 1 \in 1..Len(queue')
      <4>1. Len(queue') \in Int /\ i \in Int /\ 1 <= i /\ i <= Len(queue')
        BY <1>1
      <4> QED
        BY <4>1, <2>4
    <3>2. queue'[i + 1] = queue[(i + 1) + 1]
      BY <3>1, <1>1
    <3>3. i + 1 # Len(queue)
      BY <2>3, <2>4
    <3>4. next[queue[i + 1]] = queue[(i + 1) + 1]
      BY <2>2, <3>3, Zenon
    <3>5. next'[queue'[i]] = queue'[i + 1]
      BY <2>1, <3>2, <3>4, Zenon
    <3> QED
      BY <3>5, <2>4, Zenon
  <2>5. CASE i = Len(queue')
    <3>1. next'[queue'[i]] = NULL
      BY <2>1, <2>2, <2>3, <2>5, Zenon
    <3> QED
      BY <3>1, <2>5, Zenon
  <2> QED
    BY <2>4, <2>5
<1>6. next[cur] = IF queue' = <<>> THEN NULL ELSE queue'[1]
  <2>1. CASE Len(queue) = 1
    BY <2>1, <1>1, <1>2, EmptySeq
  <2>2. CASE Len(queue) # 1
    <3>1. Len(queue') # 0 /\ 1 \in 1..Len(queue')
      BY <2>2, <1>1
    <3>2. queue' # <<>> /\ queue'[1] = queue[1 + 1]
      BY <3>1, <1>1, EmptySeq
    <3> QED
      BY <3>2, <2>2, <1>2
  <2> QED
    BY <2>1, <2>2
<1>7. Nodes(queue') = Nodes(queue) \ {cur}
  <2>1. Nodes(queue') \subseteq Nodes(queue) \ {cur}
    BY <1>1, <1>4 DEF Nodes
  <2>2. ASSUME NEW i \in 1..Len(queue), queue[i] # cur
        PROVE  queue[i] \in Nodes(queue')
    <3>1. i # 1 /\ i - 1 \in 1..Len(queue')
      BY <2>2, <1>1, <1>2
    <3> QED
      BY <3>1, <1>1 DEF Nodes
  <2> QED
    BY <2>1, <2>2 DEF Nodes
<1>8. queue' # <<>> => queue'[Len(queue')] = queue[Len(queue)]
  BY <1>1
<1>9. cur' \in Addr \union {NULL} /\ cur \in Nodes(queue)
  BY <1>1, <1>2 DEF Nodes
<1> QED
  BY <1>1, <1>2, <1>3, <1>5, <1>6, <1>7, <1>8, <1>9 DEF Linked

(* Each action keeps the invariant; the chain is at stake where a node is    *)
(* appended, freed, or linked to the sentinel again.                         *)
LEMMA InvNext == IInv /\ [Next]_vars => IInv'
<1> SUFFICES ASSUME IInv, [Next]_vars PROVE IInv'
  OBVIOUS
<1> USE NullAssumption, TimeAssumption DEF IInv, ptrs, local
<1>1. CASE Tick
  BY <1>1 DEF Tick, TypeOK, Chain, Linked
<1>2. CASE Awake
  <2>1. TypeOK'
    BY <1>2 DEF Awake, Malloc, TypeOK
  <2>2. queue' = <<>> /\ Nodes(queue') = {}
    BY <1>2 DEF Awake, Nodes
  <2>3. Chain(NULL, queue)'
    BY <2>2 DEF Chain, Linked, Distinct
  <2> QED
    BY <1>2, <2>1, <2>2, <2>3 DEF Awake, Malloc, TypeOK
<1>3. CASE ReceiveMessage
  <2>1. PICK n \in Addr : /\ Malloc(n)
                          /\ next' = [next EXCEPT ![listTail] = n, ![n] = NULL]
                          /\ time' = [time EXCEPT ![n] = now]
                          /\ listTail' = n
                          /\ queue' = Append(queue, n)
    BY <1>3 DEF ReceiveMessage, Counted
  <2> DEFINE L == Len(queue)
  <2>2. /\ queue' \in Seq(Addr) /\ L \in Nat /\ Len(queue') = L + 1
        /\ \A i \in 1..L : queue'[i] = queue[i] /\ queue[i] \in Addr
        /\ queue'[L + 1] = n /\ queue' # <<>>
    BY <2>1, AppendToQueue DEF TypeOK
  <2>3. pc = "idle" /\ num' = num + 1 /\ UNCHANGED <<now, listHead, pc, timeNow, cur>>
    BY <1>3 DEF ReceiveMessage, Counted
  <2>4. n # listHead /\ \A i \in 1..L : queue[i] # n /\ queue[i] # listHead
    BY <2>1, <2>3 DEF Malloc, Nodes
  <2>5. Nodes(queue') = Nodes(queue) \union {n}
    BY <2>2 DEF Nodes
  <2>6. Distinct(queue')
    BY <2>2, <2>3, <2>4 DEF Distinct, Chain
  <2>7. /\ L = 0 => queue = <<>> /\ listTail = listHead
        /\ L # 0 => listTail = queue[L] /\ L \in 1..L
    BY <2>2, <2>3, EmptySeq DEF TypeOK
  <2>8. next'[listHead] = queue'[1]
    <3>1. CASE L = 0
      BY <3>1, <2>1, <2>2, <2>3, <2>4, <2>7 DEF TypeOK, Malloc
    <3>2. CASE L # 0
      BY <3>2, <2>1, <2>2, <2>3, <2>4, <2>7, EmptySeq DEF TypeOK, Chain, Linked
    <3> QED
      BY <3>1, <3>2
  <2>9. ASSUME NEW i \in 1..(L + 1)
        PROVE  next'[queue'[i]] = IF i = L + 1 THEN NULL ELSE queue'[i + 1]
    <3>1. CASE i = L + 1
      BY <3>1, <2>1, <2>2 DEF TypeOK
    <3>2. CASE i = L
      BY <3>2, <2>1, <2>2, <2>4, <2>7 DEF TypeOK
    <3>3. CASE i < L
      <4>1. i \in 1..L /\ i + 1 \in 1..L /\ L \in 1..L /\ i # L
        BY <3>3, <2>2
      <4>2. queue[i] # listTail /\ queue[i] # n
        BY <4>1, <2>3, <2>4, <2>7 DEF Chain, Distinct
      <4>3. next[queue[i]] = queue[i + 1]
        BY <4>1, <2>3 DEF Chain, Linked
      <4> QED
        BY <4>1, <4>2, <4>3, <2>1, <2>2 DEF TypeOK
    <3> QED
      BY <3>1, <3>2, <3>3, <2>2
  <2>10. Chain(next[listHead], queue)'
    BY <2>2, <2>3, <2>6, <2>8, <2>9 DEF Chain, Linked
  <2>11. TypeOK'
    BY <2>1, <2>2, <2>3 DEF Malloc, TypeOK
  <2> QED
    BY <2>1, <2>2, <2>3, <2>4, <2>5, <2>10, <2>11 DEF Malloc
<1>4. CASE HeartbeatBegin
  BY <1>4, ChainStart DEF HeartbeatBegin, ReadClock, TypeOK, Chain, Linked
<1>5. CASE PruneNode
  <2>1. queue # <<>> /\ cur # NULL
    BY <1>5, ChainStart DEF PruneNode, Uncounted, TypeOK, Chain
  <2>2. /\ Chain(cur, queue)' /\ cur \in Addr /\ cur \in Nodes(queue)
        /\ cur' \in Addr \union {NULL} /\ queue' \in Seq(Addr)
        /\ Nodes(queue') = Nodes(queue) \ {cur}
        /\ queue' # <<>> => queue'[Len(queue')] = queue[Len(queue)]
    BY <1>5, <2>1, FreeFirst DEF PruneNode, Uncounted
  <2>3. num' = Len(queue') /\ num' \in Nat
    BY <1>5, <2>1, TailOfQueue DEF PruneNode, Uncounted, TypeOK
  <2>4. alloc' = {listHead} \union Nodes(queue') /\ listHead \notin Nodes(queue')
    BY <1>5, <2>2 DEF PruneNode, Uncounted, Free
  <2>5. TypeOK'
    BY <1>5, <2>2, <2>3 DEF PruneNode, Uncounted, Free, TypeOK
  <2> QED
    BY <1>5, <2>2, <2>3, <2>4, <2>5 DEF PruneNode, Uncounted
<1>6. CASE PruneDone
  <2>1. TypeOK'
    BY <1>6 DEF PruneDone, Relink, ResetTail, TypeOK
  <2>2. \A i \in 1..Len(queue) : queue[i] # listHead
    BY <1>6 DEF PruneDone, Relink, ResetTail, Nodes
  <2>3. Linked(cur, queue) /\ Distinct(queue)
    BY <1>6 DEF PruneDone, Relink, ResetTail, Chain
  <2>4. (next[listHead])' = cur
    BY <1>6 DEF PruneDone, Relink, ResetTail, TypeOK
  <2>5. \A i \in 1..Len(queue) : next'[queue[i]] = next[queue[i]]
    BY <1>6, <2>2, TailOfQueue DEF PruneDone, Relink, ResetTail, TypeOK
  <2>6. Chain(next[listHead], queue)'
    BY <1>6, <2>3, <2>4, <2>5 DEF PruneDone, Relink, ResetTail, Chain, Linked
  <2>7. queue = <<>> <=> cur = NULL
    BY <2>3, ChainStart DEF TypeOK
  <2> QED
    BY <1>6, <2>1, <2>6, <2>7 DEF PruneDone, Relink, ResetTail
<1>7. CASE SleepBegin
  <2> DEFINE L == Len(queue)
  <2>1. pc = "idle" /\ queue' = <<listHead>> \o queue /\ cur' = listHead
        /\ UNCHANGED <<now, alloc, next, time, listHead, listTail, num, timeNow>>
        /\ pc' = "sleep"
    BY <1>7 DEF SleepBegin, FirstFreed
  <2>2. /\ queue' \in Seq(Addr) /\ L \in Nat /\ Len(queue') = L + 1 /\ queue'[1] = listHead
        /\ \A i \in 1..L : queue'[i + 1] = queue[i] /\ queue[i] \in Addr
        /\ queue' # <<>>
    BY <2>1, PrefixQueue DEF TypeOK
  <2>3. \A i \in 1..(L + 1) : i = 1 \/ (i - 1 \in 1..L /\ queue'[i] = queue[i - 1])
    <3> TAKE i \in 1..(L + 1)
    <3>1. CASE i # 1
      <4>1. i - 1 \in 1..L /\ (i - 1) + 1 = i
        BY <3>1, <2>2
      <4> QED
        BY <4>1, <2>2
    <3> QED
      BY <3>1
  <2>4. \A i \in 1..L : queue[i] # listHead
    BY <2>1 DEF Nodes
  <2>5. Nodes(queue') = {listHead} \union Nodes(queue)
    <3>1. Nodes(queue') \subseteq {listHead} \union Nodes(queue)
      BY <2>2, <2>3 DEF Nodes
    <3>2. listHead \in Nodes(queue')
      BY <2>2 DEF Nodes
    <3>3. ASSUME NEW i \in 1..L PROVE queue[i] \in Nodes(queue')
      <4>1. i + 1 \in 1..Len(queue')
        BY <2>2
      <4> QED
        BY <4>1, <2>2 DEF Nodes
    <3> QED
      BY <3>1, <3>2, <3>3 DEF Nodes
  <2>6. Distinct(queue')
    <3> SUFFICES ASSUME NEW i \in 1..(L + 1), NEW j \in 1..(L + 1), queue'[i] = queue'[j]
                 PROVE  i = j
      BY <2>2 DEF Distinct
    <3>1. CASE i = 1 \/ j = 1
      BY <3>1, <2>2, <2>3, <2>4
    <3>2. CASE i # 1 /\ j # 1
      <4>1. i - 1 = j - 1
        BY <3>2, <2>1, <2>3 DEF Chain, Distinct
      <4> QED
        BY <4>1, <2>2
    <3> QED
      BY <3>1, <3>2
  <2>7. ASSUME NEW i \in 1..(L + 1)
        PROVE  next[queue'[i]] = IF i = L + 1 THEN NULL ELSE queue'[i + 1]
    <3>0. Linked(next[listHead], queue)
      BY <2>1 DEF Chain
    <3>1. CASE i = 1
      <4>1. CASE L = 0
        BY <3>0, <3>1, <4>1, <2>2, EmptySeq DEF Linked, TypeOK
      <4>2. CASE L # 0
        <5>1. queue # <<>> /\ 1 \in 1..L
          BY <4>2, <2>2, EmptySeq
        <5> QED
          BY <3>0, <3>1, <4>2, <5>1, <2>2 DEF Linked
      <4> QED
        BY <4>1, <4>2
    <3>2. CASE i # 1
      <4>1. i - 1 \in 1..L /\ queue'[i] = queue[i - 1]
        BY <3>2, <2>3
      <4>2. next[queue[i - 1]] = IF i - 1 = L THEN NULL ELSE queue[(i - 1) + 1]
        BY <3>0, <4>1 DEF Linked
      <4>3. i # L + 1 => i \in 1..L /\ (i - 1) + 1 = i /\ queue'[i + 1] = queue[i]
        BY <2>2
      <4> QED
        BY <4>1, <4>2, <4>3, <2>2
    <3> QED
      BY <3>1, <3>2
  <2>8. Chain(cur, queue)'
    BY <2>1, <2>2, <2>6, <2>7 DEF Chain, Linked
  <2>9. TypeOK'
    BY <2>1, <2>2 DEF TypeOK
  <2> QED
    BY <2>1, <2>5, <2>8, <2>9
<1>8. CASE SleepNode
  <2>1. queue # <<>> /\ cur # NULL
    BY <1>8, ChainStart DEF SleepNode, TypeOK, Chain
  <2>2. /\ Chain(cur, queue)' /\ cur \in Addr
        /\ cur' \in Addr \union {NULL} /\ queue' \in Seq(Addr)
        /\ Nodes(queue') = Nodes(queue) \ {cur}
    BY <1>8, <2>1, FreeFirst DEF SleepNode
  <2>3. TypeOK'
    BY <1>8, <2>2 DEF SleepNode, Free, TypeOK
  <2> QED
    BY <1>8, <2>2, <2>3 DEF SleepNode, Free
<1>9. CASE SleepDone \/ Crash
  <2>1. Gone
    BY <1>9 DEF SleepDone, Crash
  <2>2. TypeOK'
    BY <2>1, EmptySeq DEF Gone, TypeOK
  <2> QED
    BY <2>1, <2>2 DEF Gone
<1>10. CASE UNCHANGED vars
  BY <1>10 DEF vars, TypeOK, Chain, Linked
<1> QED
  BY <1>1, <1>2, <1>3, <1>4, <1>5, <1>6, <1>7, <1>8, <1>9, <1>10 DEF Next, Loop

(* The strengthened invariant holds in every behaviour. *)
LEMMA Invariance == Spec => []IInv
  BY InvInit, InvNext, PTL DEF Spec

(* Type correctness; in particular the number never goes below zero. *)
THEOREM TypeCorrect == Spec => []TypeOK
<1>1. IInv => TypeOK
  BY DEF IInv
<1> QED
  BY <1>1, Invariance, PTL

(* The list is well linked between events, and its tail is its last node.    *)
THEOREM StaysWellLinked == Spec => []WellLinked
<1>1. IInv => WellLinked
  BY DEF IInv, WellLinked, Chain
<1> QED
  BY <1>1, Invariance, PTL

(* The number reported is the number of nodes on the list.                   *)
THEOREM CountIsExact == Spec => []CountsNodes
<1>1. IInv => CountsNodes
  BY DEF IInv, CountsNodes
<1> QED
  BY <1>1, Invariance, PTL

(* No pointer that is about to be followed leads to a freed node.            *)
THEOREM NothingDangles == Spec => []NoDangling
<1>1. ASSUME IInv PROVE NoDangling
  <2>1. pc \in {"idle", "prune"} => listHead \in alloc
    BY <1>1 DEF IInv
  <2>2. queue # <<>> => /\ queue[1] \in Nodes(queue) /\ queue[Len(queue)] \in Nodes(queue)
    BY <1>1, TailOfQueue DEF IInv, TypeOK, Nodes
  <2>3. pc = "idle" => listTail \in alloc
    BY <1>1, <2>1, <2>2 DEF IInv
  <2>4. pc \in {"prune", "sleep"} => cur \in alloc \union {NULL}
    BY <1>1, <2>2, ChainStart DEF IInv, Chain, TypeOK
  <2> QED
    BY <2>1, <2>3, <2>4 DEF NoDangling
<1> QED
  BY <1>1, Invariance, PTL

(* haku_sleep frees every node.                                              *)
THEOREM SleepFreesAll == Spec => []AllFreed
<1>1. IInv => AllFreed
  BY ChainStart, EmptySeq DEF IInv, AllFreed, Chain, TypeOK, Nodes
<1> QED
  BY <1>1, Invariance, PTL
-----------------------------------------------------------------------------
(* The times of a queue q whose nodes have the times tm, and what is left of *)
(* them at a heartbeat that starts at the time at: Times and Left with the   *)
(* list as a parameter.                                                      *)
TimesOf(q, tm) == [i \in 1..Len(q) |-> tm[q[i]]]
OldNode(tm, at, n) == at - tm[n] >= Window
DoomedOf(q, tm, at) == {i \in 1..Len(q) : \A j \in 1..i : OldNode(tm, at, q[j])}
CutOf(D) == IF D = {} THEN 1 ELSE 1 + CHOOSE i \in D : \A j \in D : j <= i
LeftOf(q, tm, at) == SubSeq(TimesOf(q, tm), CutOf(DoomedOf(q, tm, at)), Len(q))

(* Where the heartbeat cuts the queue: before its first node that is not too *)
(* old.                                                                      *)
CutAt(q, tm, at, k) ==
  /\ k \in 1..(Len(q) + 1)
  /\ \A j \in 1..(k - 1) : OldNode(tm, at, q[j])
  /\ k <= Len(q) => ~OldNode(tm, at, q[k])

(* A set of numbers that is not empty has a least one. *)
LEMMA LeastOne ==
  ASSUME NEW T \in SUBSET Nat, T # {}
  PROVE  \E m \in T : \A k \in T : ~(k < m)
<1> DEFINE R == OpToRel(<, Nat)
<1>1. IsWellFoundedOn(R, Nat)
  BY NatLessThanWellFounded
<1>2. \A k, m \in Nat : k < m => <<k, m>> \in R
  BY DEF OpToRel
<1> HIDE DEF R
<1>3. PICK m \in T : \A k \in T : <<k, m>> \notin R
  BY <1>1, WFMin
<1> QED
  BY <1>2, <1>3

(* There is such a place in every queue. *)
LEMMA CutExists ==
  ASSUME NEW q \in Seq(Addr), NEW tm, NEW at
  PROVE  \E k : CutAt(q, tm, at, k)
<1> DEFINE L == Len(q)
           T == {j \in 1..L : ~OldNode(tm, at, q[j])}
<1>1. L \in Nat
  BY LenProperties
<1> HIDE DEF L
<1>2. CASE T = {}
  <2>1. \A j \in 1..((L + 1) - 1) : OldNode(tm, at, q[j])
    BY <1>1, <1>2
  <2>2. L + 1 \in 1..(L + 1) /\ ~(L + 1 <= L)
    BY <1>1
  <2> QED
    BY <2>1, <2>2 DEF CutAt, L
<1>3. CASE T # {}
  <2>1. T \in SUBSET Nat
    BY <1>1
  <2>2. PICK m \in T : \A k \in T : ~(k < m)
    BY <1>3, <2>1, LeastOne
  <2>3. m \in 1..L /\ m \in 1..(L + 1) /\ ~OldNode(tm, at, q[m])
    BY <1>1
  <2>4. \A j \in 1..(m - 1) : j \in 1..L /\ j < m
    BY <1>1, <2>3
  <2>5. \A j \in 1..(m - 1) : OldNode(tm, at, q[j])
    BY <2>2, <2>4
  <2> QED
    BY <2>3, <2>5 DEF CutAt, L
<1> QED
  BY <1>2, <1>3

(* What is left behind the cut. *)
LEMMA LeftFromCut ==
  ASSUME NEW q \in Seq(Addr), NEW tm, NEW at, NEW k, CutAt(q, tm, at, k)
  PROVE  LeftOf(q, tm, at) = SubSeq(TimesOf(q, tm), k, Len(q))
<1> DEFINE L == Len(q)
           D == DoomedOf(q, tm, at)
<1>1. L \in Nat /\ k \in 1..(L + 1) /\ k - 1 \in 0..L
  BY LenProperties DEF CutAt
<1>2. \A j \in 1..(k - 1) : OldNode(tm, at, q[j])
  BY DEF CutAt
<1>3. k <= L => ~OldNode(tm, at, q[k])
  BY DEF CutAt
<1>4. D = {i \in 1..L : \A j \in 1..i : OldNode(tm, at, q[j])}
  BY DEF DoomedOf
<1> HIDE DEF D
<1> HIDE DEF L
<1>5. D = 1..(k - 1)
  <2>1. ASSUME NEW i \in D PROVE i \in 1..(k - 1)
    <3>1. i \in 1..L /\ \A j \in 1..i : OldNode(tm, at, q[j])
      BY <1>4
    <3>2. ASSUME k <= i PROVE FALSE
      <4>1. k \in 1..i /\ k <= L
        BY <1>1, <3>1, <3>2
      <4> QED
        BY <1>3, <3>1, <4>1
    <3> QED
      BY <1>1, <3>1, <3>2
  <2>2. ASSUME NEW i \in 1..(k - 1) PROVE i \in D
    <3>1. i \in 1..L /\ \A j \in 1..i : j \in 1..(k - 1)
      BY <1>1
    <3> QED
      BY <1>2, <1>4, <3>1
  <2> QED
    BY <2>1, <2>2
<1>6. CutOf(D) = k
  <2>1. CASE k = 1
    <3>1. D = {}
      BY <1>5, <2>1
    <3> QED
      BY <2>1, <3>1 DEF CutOf
  <2>2. CASE k # 1
    <3> DEFINE c == CHOOSE i \in D : \A j \in D : j <= i
    <3>1. k - 1 \in D /\ \A j \in D : j <= k - 1
      BY <1>1, <1>5, <2>2
    <3>2. c \in D /\ \A j \in D : j <= c
      BY <3>1
    <3> HIDE DEF c
    <3>3. c = k - 1
      BY <1>1, <1>5, <3>1, <3>2
    <3>4. 1 + c = k /\ D # {}
      BY <1>1, <3>1, <3>3
    <3> QED
      BY <3>4 DEF c, CutOf
  <2> QED
    BY <2>1, <2>2
<1> QED
  BY <1>6 DEF LeftOf, L, D

(* What the counter keeps, from the first message on that has not expired. *)
LEMMA UnexpiredFrom ==
  ASSUME NEW w \in Seq(Int), NEW at \in Int, NEW k \in 1..(Len(w) + 1),
         \A j \in 1..(k - 1) : Flow!Expired(w[j], at),
         k <= Len(w) => ~Flow!Expired(w[k], at)
  PROVE  Flow!Unexpired(w, at) = SubSeq(w, k, Len(w))
<1> DEFINE n == Len(w)
           keep == {i \in 1..n : ~Flow!Expired(w[i], at)}
<1>1. n \in Nat
  BY LenProperties
<1>2. Flow!Unexpired(w, at) =
        IF keep = {} THEN <<>> ELSE SubSeq(w, CHOOSE i \in keep : \A j \in keep : i <= j, n)
  BY DEF Flow!Unexpired
<1>3. \A i \in keep : i \in 1..n /\ ~(i <= k - 1)
  BY <1>1
<1>4. CASE k = n + 1
  <2>1. keep = {}
    BY <1>1, <1>3, <1>4
  <2>2. SubSeq(w, k, n) = <<>>
    <3>1. k \in Int /\ n \in Int /\ n < k
      BY <1>1, <1>4
    <3> QED
      BY <3>1, SubSeqEmpty
  <2> QED
    BY <1>2, <2>1, <2>2
<1>5. CASE k # n + 1
  <2>1. k \in 1..n
    BY <1>1, <1>5
  <2>2. k \in keep
    BY <2>1
  <2> DEFINE c == CHOOSE i \in keep : \A j \in keep : i <= j
  <2>3. \A j \in keep : k <= j
    BY <1>1, <1>3, <2>1
  <2> HIDE DEF keep
  <2>4. c \in keep /\ \A j \in keep : c <= j
    BY <2>2, <2>3
  <2> HIDE DEF c
  <2>5. c <= k /\ k <= c /\ c \in 1..n
    BY <1>3, <2>2, <2>3, <2>4
  <2>6. c = k
    BY <1>1, <2>1, <2>5
  <2> QED
    BY <1>2, <2>2, <2>6 DEF c
<1> QED
  BY <1>4, <1>5

(* The values the counter shows, in each place. *)
LEMMA Shown ==
  /\ pc = "idle" => Counting = Times /\ Reported = num
  /\ pc = "prune" => Counting = Left /\ Reported = num - (Len(queue) - Len(Left))
  /\ pc \notin {"idle", "prune"} => Counting = <<>> /\ Reported = 0
  BY DEF Counting, Reported

(* Times and Left are those of the list. *)
LEMMA OfTheList ==
  /\ Times = TimesOf(queue, time) /\ Left = LeftOf(queue, time, timeNow)
  /\ Times' = TimesOf(queue', time') /\ Left' = LeftOf(queue', time', timeNow')
<1>1. Times = TimesOf(queue, time) /\ Times' = TimesOf(queue', time')
  BY DEF Times, TimesOf
<1>2. /\ Doomed = DoomedOf(queue, time, timeNow)
      /\ Doomed' = DoomedOf(queue', time', timeNow')
  BY DEF Doomed, DoomedOf, TooOld, OldNode
<1> QED
  BY <1>1, <1>2 DEF Left, LeftOf, CutOf

(* The times of a queue are a sequence as long as it. *)
LEMMA TimesOfQueue ==
  ASSUME NEW q \in Seq(Addr), NEW tm \in [Addr -> Int]
  PROVE  /\ TimesOf(q, tm) \in Seq(Int) /\ Len(TimesOf(q, tm)) = Len(q) /\ Len(q) \in Nat
         /\ \A i \in 1..Len(q) : TimesOf(q, tm)[i] = tm[q[i]] /\ tm[q[i]] \in Int
                                  /\ q[i] \in Addr
<1>1. Len(q) \in Nat /\ \A i \in 1..Len(q) : q[i] \in Addr
  BY ElementOfSeq, LenProperties
<1> QED
  BY <1>1 DEF TimesOf

(* A suffix of a suffix, one place later. *)
LEMMA SameSuffix ==
  ASSUME NEW s \in Seq(Int), NEW t \in Seq(Int), NEW k \in Nat, k >= 2, k <= Len(s) + 1,
         Len(t) = Len(s) - 1, \A i \in 1..Len(t) : t[i] = s[i + 1]
  PROVE  SubSeq(t, k - 1, Len(t)) = SubSeq(s, k, Len(s))
<1> DEFINE m == Len(s)
           u == SubSeq(s, k, m)
           v == SubSeq(t, k - 1, m - 1)
<1>1. /\ m \in Nat /\ Len(t) = m - 1
      /\ (\A i \in 1..m : s[i] \in Int) /\ \A i \in 1..(m - 1) : t[i] \in Int
  BY ElementOfSeq, LenProperties
<1> HIDE DEF m
<1>2. \A i \in k..m : s[i] \in Int
  BY <1>1
<1>3. \A i \in (k - 1)..(m - 1) : t[i] \in Int
  BY <1>1
<1>4. /\ u \in Seq(Int) /\ Len(u) = IF k <= m THEN m - k + 1 ELSE 0
      /\ \A i \in 1..(m - k + 1) : u[i] = s[k + i - 1]
  BY <1>1, <1>2, SubSeqProperties
<1>5. /\ v \in Seq(Int)
      /\ Len(v) = IF k - 1 <= m - 1 THEN (m - 1) - (k - 1) + 1 ELSE 0
      /\ \A i \in 1..((m - 1) - (k - 1) + 1) : v[i] = t[(k - 1) + i - 1]
  <2>1. k - 1 \in Int /\ m - 1 \in Int
    BY <1>1
  <2> QED
    BY <1>3, <2>1, SubSeqProperties, SMTT(30)
<1> HIDE DEF u, v
<1>6. Len(u) = Len(v)
  BY <1>1, <1>4, <1>5
<1>7. ASSUME NEW i \in 1..Len(u) PROVE u[i] = v[i]
  <2>1. /\ i \in 1..(m - k + 1) /\ i \in 1..((m - 1) - (k - 1) + 1)
        /\ (k - 1) + i - 1 \in 1..(m - 1) /\ ((k - 1) + i - 1) + 1 = k + i - 1
    BY <1>1, <1>4
  <2>2. t[(k - 1) + i - 1] = s[((k - 1) + i - 1) + 1]
    BY <1>1, <2>1
  <2> QED
    BY <1>4, <1>5, <2>1, <2>2
<1>8. u = v
  BY <1>4, <1>5, <1>6, <1>7, SeqEqual
<1> QED
  BY <1>1, <1>8 DEF u, v, m

(* What the invariant says of the list and of its times. *)
LEMMA ListFacts ==
  ASSUME IInv
  PROVE  /\ queue \in Seq(Addr) /\ time \in [Addr -> Int] /\ Len(queue) \in Nat
         /\ Len(Times) = Len(queue) /\ Times \in Seq(Int)
         /\ \A i \in 1..Len(queue) : queue[i] \in Addr /\ Times[i] = time[queue[i]]
         /\ now \in Int /\ timeNow \in Int /\ num \in Nat
<1>1. queue \in Seq(Addr) /\ time \in [Addr -> Int] /\ now \in Int /\ timeNow \in Int /\ num \in Nat
  <2>1. \A t \in Time \union {0} : t \in Int
    BY TimeAssumption
  <2>2. TypeOK
    BY DEF IInv
  <2>3. \A a \in Addr : time[a] \in Int
    BY <2>1, <2>2 DEF TypeOK
  <2>4. time \in [Addr -> Int]
    BY <2>2, <2>3 DEF TypeOK
  <2> QED
    BY <2>1, <2>2, <2>4 DEF TypeOK
<1> QED
  BY <1>1, TimesOfQueue, OfTheList

(* A message is counted behind the others. *)
LEMMA MessageCounts ==
  ASSUME IInv, ReceiveMessage
  PROVE  Flow!Message
<1>1. PICK n \in Addr : /\ Malloc(n)
                        /\ time' = [time EXCEPT ![n] = now]
                        /\ queue' = Append(queue, n)
  BY DEF ReceiveMessage, Counted
<1>2. pc = "idle" /\ pc' = "idle" /\ num' = num + 1 /\ now' = now /\ num = Len(queue)
  BY DEF ReceiveMessage, Counted, IInv, local
<1> DEFINE L == Len(queue)
<1>3. /\ queue' \in Seq(Addr) /\ L \in Nat /\ Len(queue') = L + 1
      /\ \A i \in 1..L : queue'[i] = queue[i] /\ queue[i] \in Addr
      /\ queue'[L + 1] = n
  BY <1>1, AppendToQueue, ListFacts
<1>4. \A i \in 1..L : queue[i] # n
  BY <1>1, <1>2 DEF IInv, Malloc, Nodes
<1>5. time' \in [Addr -> Int] /\ time'[n] = now /\ \A i \in 1..L : time'[queue[i]] = time[queue[i]]
  BY <1>1, <1>3, <1>4, ListFacts
<1>6. /\ Times' \in Seq(Int) /\ Len(Times') = L + 1
      /\ \A i \in 1..(L + 1) : Times'[i] = time'[queue'[i]]
  BY <1>3, <1>5, TimesOfQueue, OfTheList
<1>7. /\ Append(Times, now) \in Seq(Int) /\ Len(Append(Times, now)) = L + 1
      /\ \A i \in 1..L : Append(Times, now)[i] = Times[i]
      /\ Append(Times, now)[L + 1] = now
  BY ListFacts, AppendProperties
<1>8. Times' = Append(Times, now)
  <2>1. ASSUME NEW i \in 1..(L + 1) PROVE Times'[i] = Append(Times, now)[i]
    <3>1. CASE i = L + 1
      BY <1>3, <1>5, <1>6, <1>7, <3>1
    <3>2. CASE i # L + 1
      <4>1. i \in 1..L
        BY <1>3, <3>2
      <4>2. Times'[i] = time[queue[i]]
        BY <1>3, <1>5, <1>6, <4>1
      <4>3. Append(Times, now)[i] = time[queue[i]]
        BY <1>7, <4>1, ListFacts
      <4> QED
        BY <4>2, <4>3
    <3> QED
      BY <3>1, <3>2
  <2> QED
    BY <1>6, <1>7, <2>1, SeqEqual
<1>9. Counting = Times /\ Counting' = Times' /\ Reported' = num' /\ Up /\ Up'
  BY <1>2 DEF Counting, Reported, Up
<1> QED
  BY <1>2, <1>7, <1>8, <1>9 DEF Flow!Message, Flow!WindowBecomes

(* A heartbeat drops what has expired, as soon as it starts. *)
LEMMA HeartbeatDrops ==
  ASSUME IInv, HeartbeatBegin
  PROVE  Flow!Heartbeat
<1>1. /\ pc = "idle" /\ pc' = "prune" /\ timeNow' = now /\ num = Len(queue)
      /\ UNCHANGED <<now, time, num, queue>>
  BY DEF HeartbeatBegin, ReadClock, IInv
<1>2. PICK k : CutAt(queue, time, now, k)
  BY ListFacts, CutExists
<1>3. Left' = SubSeq(Times, k, Len(queue))
  BY <1>1, <1>2, ListFacts, LeftFromCut, OfTheList
<1>4. Flow!Unexpired(Times, now) = SubSeq(Times, k, Len(Times))
  <2>1. /\ k \in 1..(Len(Times) + 1)
        /\ \A j \in 1..(k - 1) : OldNode(time, now, queue[j])
        /\ k <= Len(Times) => ~OldNode(time, now, queue[k])
    BY <1>2, ListFacts DEF CutAt
  <2>2. \A j \in 1..Len(queue) : Flow!Expired(Times[j], now) <=> OldNode(time, now, queue[j])
    BY ListFacts DEF Flow!Expired, OldNode
  <2>3. \A j \in 1..(k - 1) : Flow!Expired(Times[j], now)
    BY <2>1, <2>2, ListFacts
  <2>4. k <= Len(Times) => ~Flow!Expired(Times[k], now)
    BY <2>1, <2>2, ListFacts
  <2> QED
    BY <2>1, <2>3, <2>4, ListFacts, UnexpiredFrom
<1>5. Len(Left') \in Nat
  <2>1. \A i \in k..Len(queue) : Times[i] \in Int
    BY <1>2, ListFacts, ElementOfSeq DEF CutAt
  <2>2. k \in Int /\ Len(queue) \in Int
    BY <1>2, ListFacts DEF CutAt
  <2>3. SubSeq(Times, k, Len(queue)) \in Seq(Int)
    BY <2>1, <2>2, SubSeqProperties
  <2> QED
    BY <1>3, <2>3, LenProperties
<1>6. /\ Counting = Times /\ Counting' = Left' /\ Up /\ Up'
      /\ Reported' = num' - (Len(queue') - Len(Left'))
  BY <1>1 DEF Counting, Reported, Up
<1>7. Reported' = Len(Left')
  BY <1>1, <1>5, <1>6, ListFacts
<1> QED
  BY <1>1, <1>3, <1>4, <1>6, <1>7, ListFacts DEF Flow!Heartbeat, Flow!WindowBecomes

(* Freeing an old node drops nothing that was still counted. *)
LEMMA PruneDropsNothing ==
  ASSUME IInv, PruneNode
  PROVE  UNCHANGED Flow!cvars
<1>1. /\ pc = "prune" /\ pc' = "prune" /\ cur # NULL /\ TooOld(cur) /\ Free(cur)
      /\ num' = num - 1 /\ queue' = Tail(queue) /\ Chain(cur, queue)
      /\ UNCHANGED <<now, timeNow>>
  BY DEF PruneNode, Uncounted, IInv
<1> DEFINE L == Len(queue)
<1>2. queue # <<>> /\ cur = queue[1] /\ cur \in Addr /\ L \in Nat \ {0}
  BY <1>1, ChainStart, ListFacts DEF Chain
<1>3. /\ queue' \in Seq(Addr) /\ Len(queue') = L - 1
      /\ \A i \in 1..(L - 1) : queue'[i] = queue[i + 1]
      /\ \A i \in 1..L : queue[i] \in Addr
  BY <1>1, <1>2, TailOfQueue, ListFacts
<1>4. \A i \in 1..(L - 1) : i + 1 \in 1..L /\ queue[i + 1] # cur
  BY <1>1, <1>2 DEF Chain, Distinct
<1>5. /\ time' \in [Addr -> Int]
      /\ \A i \in 1..(L - 1) : time'[queue'[i]] = time[queue[i + 1]]
  BY <1>1, <1>2, <1>3, <1>4, ListFacts DEF Free
<1>6. PICK k : CutAt(queue, time, timeNow, k)
  BY ListFacts, CutExists
<1>7. k \in 2..(L + 1) /\ (\A j \in 1..(k - 1) : OldNode(time, timeNow, queue[j]))
      /\ (k <= L => ~OldNode(time, timeNow, queue[k]))
  <2>1. OldNode(time, timeNow, queue[1])
    BY <1>1, <1>2 DEF TooOld, OldNode
  <2> QED
    BY <1>2, <1>6, <2>1 DEF CutAt
<1>8. CutAt(queue', time', timeNow', k - 1)
  <2>1. \A i \in 1..(L - 1) :
          OldNode(time', timeNow', queue'[i]) <=> OldNode(time, timeNow, queue[i + 1])
    BY <1>1, <1>5 DEF OldNode
  <2>2. k - 1 \in 1..(Len(queue') + 1)
    BY <1>2, <1>3, <1>7
  <2>3. ASSUME NEW j \in 1..((k - 1) - 1) PROVE OldNode(time', timeNow', queue'[j])
    <3>1. j \in 1..(L - 1) /\ j + 1 \in 1..(k - 1)
      BY <1>2, <1>7
    <3> QED
      BY <1>7, <2>1, <3>1
  <2>4. ASSUME k - 1 <= Len(queue') PROVE ~OldNode(time', timeNow', queue'[k - 1])
    <3>1. k - 1 \in 1..(L - 1) /\ (k - 1) + 1 = k /\ k <= L
      BY <1>2, <1>3, <1>7, <2>4
    <3> QED
      BY <1>7, <2>1, <3>1
  <2> QED
    BY <2>2, <2>3, <2>4 DEF CutAt
<1>9. Left = SubSeq(Times, k, L) /\ Left' = SubSeq(Times', k - 1, L - 1)
  BY <1>3, <1>6, <1>8, ListFacts, LeftFromCut, OfTheList
<1>10. /\ Times' \in Seq(Int) /\ Len(Times') = L - 1
       /\ \A i \in 1..(L - 1) : Times'[i] = Times[i + 1]
  <2>1. /\ Times' \in Seq(Int) /\ Len(Times') = Len(queue')
        /\ \A i \in 1..Len(queue') : Times'[i] = time'[queue'[i]]
    BY <1>3, <1>5, TimesOfQueue, OfTheList
  <2> QED
    BY <1>3, <1>4, <1>5, <2>1, ListFacts
<1>11. Left' = Left
  <2>1. k \in Nat /\ k >= 2 /\ k <= Len(Times) + 1 /\ Len(Times) = L
    BY <1>2, <1>7, ListFacts
  <2> QED
    BY <1>9, <1>10, <2>1, ListFacts, SameSuffix
<1>12. /\ Counting = Left /\ Counting' = Left' /\ Up' = Up
       /\ Reported = num - (Len(queue) - Len(Left))
       /\ Reported' = num' - (Len(queue') - Len(Left'))
  BY <1>1 DEF Counting, Reported, Up
<1>13. Len(Left) \in Nat
  <2>1. \A i \in k..L : Times[i] \in Int
    BY <1>7, ListFacts, ElementOfSeq
  <2>2. k \in Int /\ L \in Int
    BY <1>2, <1>7
  <2>3. SubSeq(Times, k, L) \in Seq(Int)
    BY <2>1, <2>2, SubSeqProperties
  <2> QED
    BY <1>9, <2>3, LenProperties
<1>14. Reported' = Reported
  <2>1. Len(queue') = Len(queue) - 1 /\ num' = num - 1 /\ num \in Nat /\ Len(queue) \in Nat
    BY <1>1, <1>3, ListFacts
  <2> QED
    BY <1>11, <1>12, <1>13, <2>1
<1> QED
  BY <1>1, <1>11, <1>12, <1>14 DEF Flow!cvars

(* When the loop ends, what is left is the list. *)
LEMMA PruneEndsOnList ==
  ASSUME IInv, PruneDone
  PROVE  UNCHANGED Flow!cvars
<1>1. /\ pc = "prune" /\ pc' = "idle" /\ ~(cur # NULL /\ TooOld(cur)) /\ Chain(cur, queue)
      /\ UNCHANGED <<now, time, num, queue>> /\ num = Len(queue)
  BY DEF PruneDone, Relink, ResetTail, IInv
<1> DEFINE L == Len(queue)
<1>2. CutAt(queue, time, timeNow, 1)
  <2>1. L \in Nat /\ (L = 0 => queue = <<>>)
    BY ListFacts, EmptySeq
  <2>2. 1 \in 1..(L + 1) /\ \A j \in 1..(1 - 1) : OldNode(time, timeNow, queue[j])
    BY <2>1
  <2>3. ASSUME 1 <= L PROVE ~OldNode(time, timeNow, queue[1])
    <3>1. queue # <<>>
      BY <2>3
    <3>2. cur = queue[1] /\ cur # NULL
      BY <1>1, <3>1, ListFacts, ChainStart DEF Chain
    <3> QED
      BY <1>1, <3>2 DEF TooOld, OldNode
  <2> QED
    BY <2>2, <2>3 DEF CutAt
<1>3. Left = SubSeq(Times, 1, L)
  BY <1>2, ListFacts, LeftFromCut, OfTheList
<1>4. Left = Times
  BY <1>3, ListFacts
<1>5. Times' = Times
  BY <1>1, OfTheList
<1>6. /\ Counting = Left /\ Counting' = Times' /\ Up' = Up
      /\ Reported = num - (Len(queue) - Len(Left)) /\ Reported' = num'
  BY <1>1 DEF Counting, Reported, Up
<1> QED
  BY <1>1, <1>4, <1>5, <1>6, ListFacts DEF Flow!cvars

(* The list implements FlowCounter: however the loops are cut into steps and *)
(* the clock moves, the number reported is the number of the messages that   *)
(* came within the window of the last heartbeat, or after it.                *)
THEOREM ListCountsFlow == Spec => CountsFlow
<1>1. Init => Flow!Init
  BY DEF Init, Flow!Init, Up, Counting, Reported
<1>2. IInv /\ [Next]_vars => [Flow!Next]_(Flow!cvars)
  <2> SUFFICES ASSUME IInv, [Next]_vars PROVE Flow!Next \/ UNCHANGED Flow!cvars
    OBVIOUS
  <2>1. CASE Tick \/ UNCHANGED vars
    <3>1. now' \in Time /\ UNCHANGED <<time, queue, num, pc, timeNow>>
      BY <2>1 DEF Tick, vars, local, IInv, TypeOK
    <3>2. Times' = Times /\ Left' = Left
      BY <3>1, OfTheList
    <3>3. Up' = Up /\ Counting' = Counting /\ Reported' = Reported
      BY <3>1, <3>2 DEF Up, Counting, Reported
    <3> QED
      BY <3>1, <3>3 DEF Flow!Next, Flow!ClockMoves
  <2>2. CASE Awake
    <3>1. pc = "exited" /\ pc' = "idle" /\ queue = <<>> /\ queue' = <<>> /\ num' = 0 /\ now' = now
      BY <2>2 DEF Awake, IInv
    <3>2. Times' = <<>>
      BY <3>1 DEF Times
    <3>3. ~Up /\ Up' /\ Counting' = <<>> /\ Reported' = Len(<<>>)
      BY <3>1, <3>2 DEF Up, Counting, Reported
    <3>4. Flow!WakeUp
      BY <3>1, <3>3 DEF Flow!WakeUp, Flow!WindowBecomes
    <3> QED
      BY <3>4 DEF Flow!Next
  <2>3. CASE ReceiveMessage
    BY <2>3, MessageCounts DEF Flow!Next
  <2>4. CASE HeartbeatBegin
    BY <2>4, HeartbeatDrops DEF Flow!Next
  <2>5. CASE PruneNode
    BY <2>5, PruneDropsNothing
  <2>6. CASE PruneDone
    BY <2>6, PruneEndsOnList
  <2>7. CASE SleepNode
    BY <2>7 DEF SleepNode, Up, Counting, Reported, Flow!cvars
  <2>8. CASE SleepBegin \/ SleepDone \/ Crash
    <3>1. pc' \in {"sleep", "exited"} /\ now' = now
      BY <2>8 DEF SleepBegin, SleepDone, Crash, Gone
    <3>2. ~Up' /\ Counting' = <<>> /\ Reported' = Len(<<>>)
      BY <3>1 DEF Up, Counting, Reported
    <3>3. CASE Up
      BY <3>1, <3>2, <3>3 DEF Flow!Next, Flow!GoDown, Flow!WindowBecomes
    <3>4. CASE ~Up
      BY <3>1, <3>2, <3>4 DEF Up, Counting, Reported, Flow!cvars
    <3> QED
      BY <3>3, <3>4
  <2> QED
    BY <2>1, <2>2, <2>3, <2>4, <2>5, <2>6, <2>7, <2>8 DEF Next, Loop
<1> QED
  BY Invariance, <1>1, <1>2, PTL DEF Spec, CountsFlow, Flow!Spec
-----------------------------------------------------------------------------
(* What a heartbeat leaves when the clock never steps back: every message    *)
(* still counted is younger than the window, also behind the one the loop    *)
(* stopped at (hakuMind.c 630-642).                                          *)
HeartbeatLeavesRecent ==
  [][PruneDone /\ ~ClockStepsBack =>
       \A i \in 1..Len(queue) : timeNow - time[queue[i]] < Window]_vars

(* The times of q are in the order of arrival, none later than at.           *)
InOrder(q, tm, at) ==
  /\ \A i, j \in 1..Len(q) : i <= j => tm[q[i]] <= tm[q[j]]
  /\ \A i \in 1..Len(q) : tm[q[i]] <= at

OrderInv == (~ClockStepsBack /\ pc \in {"idle", "prune"}) => InOrder(queue, time, now)

LEMMA OrderStep == IInv /\ OrderInv /\ [Next]_vars => OrderInv'
<1> SUFFICES ASSUME IInv, OrderInv, [Next]_vars, ~ClockStepsBack, pc' \in {"idle", "prune"}
             PROVE  InOrder(queue, time, now)'
  BY DEF OrderInv
<1>1. CASE Tick
  <2>1. now' \in Int /\ now' > now /\ UNCHANGED <<queue, time, pc>>
    BY <1>1, TimeAssumption DEF Tick, local
  <2>2. \A i \in 1..Len(queue) : time[queue[i]] \in Int
    BY ListFacts
  <2> QED
    BY <2>1, <2>2, ListFacts DEF OrderInv, InOrder
<1>2. CASE Awake
  <2>1. queue' = <<>>
    BY <1>2 DEF Awake, IInv
  <2> QED
    BY <2>1 DEF InOrder
<1>3. CASE ReceiveMessage
  <2>1. PICK n \in Addr : /\ Malloc(n)
                          /\ time' = [time EXCEPT ![n] = now]
                          /\ queue' = Append(queue, n)
    BY <1>3 DEF ReceiveMessage, Counted
  <2>2. pc = "idle" /\ now' = now
    BY <1>3 DEF ReceiveMessage, Counted
  <2> DEFINE L == Len(queue)
  <2>3. /\ L \in Nat /\ Len(queue') = L + 1 /\ queue'[L + 1] = n
        /\ \A i \in 1..L : queue'[i] = queue[i] /\ queue[i] \in Addr
    BY <2>1, AppendToQueue, ListFacts
  <2>4. \A i \in 1..L : queue[i] # n
    BY <2>1, <2>2 DEF IInv, Malloc, Nodes
  <2>5. time'[n] = now /\ \A i \in 1..L : time'[queue[i]] = time[queue[i]] /\ time[queue[i]] \in Int
    BY <2>1, <2>3, <2>4, ListFacts
  <2>6. InOrder(queue, time, now) /\ now \in Int
    BY <2>2, ListFacts DEF OrderInv
  <2>7. \A i \in 1..L + 1 : i = L + 1 \/ i \in 1..L
    BY <2>3
  <2>8. \A i \in 1..L : time'[queue'[i]] = time[queue[i]] /\ time[queue[i]] <= now
    BY <2>3, <2>5, <2>6 DEF InOrder
  <2>9. time'[queue'[L + 1]] = now
    BY <2>3, <2>5
  <2>10. \A i \in 1..L + 1 : time'[queue'[i]] <= now
    BY <2>6, <2>7, <2>8, <2>9
  <2>11. ASSUME NEW i \in 1..L + 1, NEW j \in 1..L + 1, i <= j
         PROVE  time'[queue'[i]] <= time'[queue'[j]]
    <3>1. CASE j = L + 1
      BY <2>9, <2>10, <3>1
    <3>2. CASE j \in 1..L
      <4>1. i \in 1..L
        BY <2>3, <2>11, <3>2
      <4> QED
        BY <2>6, <2>8, <2>11, <3>2, <4>1 DEF InOrder
    <3> QED
      BY <2>7, <3>1, <3>2
  <2> QED
    BY <2>2, <2>3, <2>10, <2>11 DEF InOrder
<1>4. CASE HeartbeatBegin
  BY <1>4 DEF HeartbeatBegin, OrderInv, InOrder
<1>5. CASE PruneNode
  <2>1. /\ pc = "prune" /\ cur # NULL /\ Free(cur) /\ queue' = Tail(queue) /\ now' = now
        /\ Chain(cur, queue)
    BY <1>5 DEF PruneNode, Uncounted, IInv
  <2> DEFINE L == Len(queue)
  <2>2. queue # <<>> /\ cur = queue[1] /\ cur \in Addr /\ L \in Nat \ {0}
    BY <2>1, ChainStart, ListFacts DEF Chain
  <2>3. /\ Len(queue') = L - 1 /\ \A i \in 1..(L - 1) : queue'[i] = queue[i + 1]
        /\ \A i \in 1..L : queue[i] \in Addr
    BY <2>1, <2>2, TailOfQueue, ListFacts
  <2>4. \A i \in 1..(L - 1) : i + 1 \in 1..L /\ queue[i + 1] # cur
    BY <2>1, <2>2 DEF Chain, Distinct
  <2>5. \A i \in 1..(L - 1) : time'[queue'[i]] = time[queue[i + 1]]
    BY <2>1, <2>2, <2>3, <2>4, ListFacts DEF Free
  <2>6. InOrder(queue, time, now)
    BY <2>1 DEF OrderInv
  <2>7. \A i, j \in 1..(L - 1) : i <= j => i + 1 <= j + 1
    BY <2>2
  <2> QED
    BY <2>1, <2>3, <2>4, <2>5, <2>6, <2>7 DEF InOrder
<1>6. CASE PruneDone
  BY <1>6 DEF PruneDone, OrderInv, InOrder
<1>7. CASE SleepBegin \/ SleepNode \/ SleepDone \/ Crash
  BY <1>7 DEF SleepBegin, SleepNode, SleepDone, Crash, Gone
<1>8. CASE UNCHANGED vars
  BY <1>8 DEF vars, OrderInv, InOrder
<1> QED
  BY <1>1, <1>2, <1>3, <1>4, <1>5, <1>6, <1>7, <1>8 DEF Next, Loop

(* With a clock that only goes forward, no message on the list is Window     *)
(* seconds old when a heartbeat is done with it.                             *)
THEOREM HeartbeatKeepsOnlyRecent == Spec => HeartbeatLeavesRecent
<1>1. Init => OrderInv
  BY DEF Init, OrderInv
<1>2. IInv /\ OrderInv =>
        (PruneDone /\ ~ClockStepsBack => \A i \in 1..Len(queue) : timeNow - time[queue[i]] < Window)
  <2> SUFFICES ASSUME IInv, OrderInv, PruneDone, ~ClockStepsBack, NEW i \in 1..Len(queue)
               PROVE  timeNow - time[queue[i]] < Window
    OBVIOUS
  <2>1. pc = "prune" /\ Chain(cur, queue) /\ ~(cur # NULL /\ TooOld(cur))
    BY DEF PruneDone, IInv
  <2>2. queue # <<>> /\ 1 \in 1..Len(queue) /\ 1 <= i
    BY ListFacts, EmptySeq
  <2>3. cur = queue[1] /\ cur # NULL
    BY <2>1, <2>2, ChainStart, ListFacts DEF Chain
  <2>4. ~(timeNow - time[queue[1]] >= Window)
    BY <2>1, <2>3 DEF TooOld
  <2>5. time[queue[1]] <= time[queue[i]]
    BY <2>1, <2>2 DEF OrderInv, InOrder
  <2>6. time[queue[1]] \in Int /\ time[queue[i]] \in Int /\ timeNow \in Int /\ Window \in Int
    BY <2>2, ListFacts, TimeAssumption
  <2> QED
    BY <2>4, <2>5, <2>6
<1> QED
  BY Invariance, <1>1, <1>2, OrderStep, PTL DEF Spec, HeartbeatLeavesRecent
-----------------------------------------------------------------------------
(* The steps the loops still have before them.                               *)
LoopWork == IF pc \in {"prune", "sleep"} THEN Len(queue) + 1 ELSE 0

(* The two loops come to an end: every step of theirs leaves fewer, and      *)
(* nothing that happens meanwhile adds one (hakuMind.c 104-109, 632-638).    *)
LoopsShrink ==
  [][(pc \in {"prune", "sleep"}) =>
       /\ LoopWork' <= LoopWork
       /\ Loop => LoopWork' < LoopWork]_vars

(* The argument under LoopsEnd: what is left of a loop is a natural number   *)
(* that only goes down, for a list of any length.                            *)
THEOREM LoopsRunDown == Spec => [](LoopWork \in Nat) /\ LoopsShrink
<1>0. IInv => LoopWork \in Nat
  <2> SUFFICES ASSUME IInv PROVE LoopWork \in Nat
    OBVIOUS
  <2>1. Len(queue) \in Nat
    BY ListFacts
  <2> QED
    BY <2>1 DEF LoopWork
<1>1. IInv /\ [Next]_vars =>
        (pc \in {"prune", "sleep"} => (Loop => LoopWork' < LoopWork) /\ LoopWork' <= LoopWork)
  <2> SUFFICES ASSUME IInv, [Next]_vars, pc \in {"prune", "sleep"}
               PROVE  (Loop => LoopWork' < LoopWork) /\ LoopWork' <= LoopWork
    OBVIOUS
  <2> DEFINE L == Len(queue)
  <2>1. L \in Nat /\ LoopWork = L + 1 /\ Chain(cur, queue)
    BY ListFacts DEF LoopWork, IInv
  <2>2. CASE PruneNode \/ SleepNode
    <3>1. cur # NULL /\ queue' = Tail(queue) /\ pc' = pc
      BY <2>2 DEF PruneNode, SleepNode
    <3>2. queue # <<>>
      BY <2>1, <3>1, ChainStart, ListFacts DEF Chain
    <3>3. Len(queue') = L - 1
      BY <3>1, <3>2, TailOfQueue, ListFacts
    <3>4. LoopWork' = L
      BY <2>1, <3>1, <3>3 DEF LoopWork
    <3> QED
      BY <2>1, <3>4
  <2>3. CASE PruneDone \/ SleepDone \/ Crash
    <3>1. LoopWork' = 0
      BY <2>3 DEF PruneDone, SleepDone, Crash, Gone, LoopWork
    <3> QED
      BY <2>1, <3>1
  <2>4. CASE Tick \/ UNCHANGED vars
    <3>1. LoopWork' = LoopWork /\ ~PruneNode /\ ~PruneDone /\ ~SleepNode /\ ~SleepDone
      <4>1. UNCHANGED <<pc, queue, alloc>>
        BY <2>4 DEF Tick, vars
      <4>2. LoopWork' = LoopWork
        BY <4>1 DEF LoopWork
      <4>3. ~PruneDone /\ ~SleepDone
        BY <4>1 DEF PruneDone, SleepDone, Gone
      <4>4. ASSUME PruneNode \/ SleepNode PROVE FALSE
        <5>1. cur # NULL /\ queue' = Tail(queue)
          BY <4>4 DEF PruneNode, SleepNode
        <5>2. queue # <<>>
          BY <2>1, <5>1, ChainStart, ListFacts DEF Chain
        <5>3. Len(queue') = L - 1
          BY <5>1, <5>2, TailOfQueue, ListFacts
        <5> QED
          BY <2>1, <4>1, <5>3
      <4> QED
        BY <4>2, <4>3, <4>4
    <3> QED
      BY <2>1, <3>1 DEF Loop
  <2>5. ~Awake /\ ~ReceiveMessage /\ ~HeartbeatBegin /\ ~SleepBegin
    BY DEF Awake, ReceiveMessage, HeartbeatBegin, SleepBegin
  <2> QED
    BY <2>2, <2>3, <2>4, <2>5 DEF Next, Loop
<1> QED
  BY Invariance, <1>0, <1>1, PTL DEF Spec, LoopsShrink
=============================================================================
