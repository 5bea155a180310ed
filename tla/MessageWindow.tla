--------------------------- MODULE MessageWindow ---------------------------
(***************************************************************************)
(* The list of message times behind messageNumPerSecond (hakuMind.c): a     *)
(* singly linked list with a sentinel, appended to by every message, pruned *)
(* from the front by heartbeats, freed by haku_sleep.  Nodes are cells of a *)
(* small heap, so that a pointer to a freed node can be told from a good    *)
(* one.  The loops run node by node; the clock moves meanwhile.             *)
(***************************************************************************)
EXTENDS Integers, Sequences

CONSTANTS
  Addr,            \* heap cells malloc can return
  NULL,
  Time,            \* values of time(NULL) (a finite range in the runs)
  Window,          \* 60: seconds a message is kept for
  ClockStepsBack   \* time(NULL) may also go back

ASSUME NullAssumption == NULL \notin Addr
ASSUME TimeAssumption == Time \subseteq Int /\ Time # {} /\ Window \in Nat \ {0}
ASSUME ClockAssumption == ClockStepsBack \in BOOLEAN

VARIABLES
  now,        \* the clock
  alloc,      \* cells malloc'd and not freed
  next, time, \* fields of the cells; those of a free cell are NULL and 0
  listHead,   \* messageTimeListHead
  listTail,   \* messageTimeListTail
  num,        \* messageNumPerSecond
  pc,         \* what hakuBot is doing with the list
  timeNow,    \* timeNow of new_thread, during a heartbeat
  cur,        \* the local variable listHead of the two loops
  queue       \* history: the nodes of the list, oldest first, without the
              \* sentinel (haku_sleep: the nodes it has not yet freed)

vars == <<now, alloc, next, time, listHead, listTail, num, pc, timeNow, cur, queue>>
local == <<timeNow, cur>>
ptrs == <<listHead, listTail>>

TypeOK ==
  /\ now \in Time
  /\ alloc \subseteq Addr
  /\ next \in [Addr -> Addr \union {NULL}]
  /\ time \in [Addr -> Time \union {0}]
  /\ listHead \in Addr \union {NULL}
  /\ listTail \in Addr \union {NULL}
  /\ num \in Nat
  /\ pc \in {"exited", "idle", "prune", "sleep"}
  /\ timeNow \in Time \union {0}
  /\ cur \in Addr \union {NULL}
  /\ queue \in Seq(Addr)

Init ==
  /\ now \in Time /\ pc = "exited"
  /\ alloc = {} /\ next = [a \in Addr |-> NULL] /\ time = [a \in Addr |-> 0]
  /\ listHead = NULL /\ listTail = NULL /\ num = 0
  /\ timeNow = 0 /\ cur = NULL /\ queue = <<>>

(* time(NULL) changes. *)
Tick ==
  /\ now' \in {t \in Time : t > now \/ ClockStepsBack}
  /\ UNCHANGED <<alloc, next, time, ptrs, num, pc, local, queue>>

(* malloc, then free, of one cell *)
Malloc(n) == n \notin alloc /\ alloc' = alloc \union {n}
Free(n) ==
  /\ alloc' = alloc \ {n}
  /\ next' = [next EXCEPT ![n] = NULL]
  /\ time' = [time EXCEPT ![n] = 0]

(* awake_haku allocates the sentinel; its time is never set. *)
Awake ==
  /\ pc = "exited" /\ pc' = "idle"
  /\ \E n \in Addr :
       /\ Malloc(n)
       /\ listHead' = n /\ listTail' = n
       /\ next' = [next EXCEPT ![n] = NULL]
  /\ num' = 0
  /\ UNCHANGED <<now, time, local, queue>>

(* Mutant: the number is not increased. *)
Counted_Not == UNCHANGED num
Counted == num' = num + 1

(* new_thread on a message: the node goes behind the tail. *)
ReceiveMessage ==
  /\ pc = "idle"
  /\ \E n \in Addr :
       /\ Malloc(n)
       /\ next' = [next EXCEPT ![listTail] = n, ![n] = NULL]
       /\ time' = [time EXCEPT ![n] = now]
       /\ listTail' = n
       /\ queue' = Append(queue, n)
  /\ Counted
  /\ UNCHANGED <<now, listHead, pc, local>>

(* Mutant: the time of an earlier event is compared with. *)
ReadClock_Old == timeNow' \in {t \in Time : t < now}
ReadClock == timeNow' = now

(* new_thread on a heartbeat: the loop starts behind the sentinel. *)
HeartbeatBegin ==
  /\ pc = "idle" /\ pc' = "prune"
  /\ ReadClock
  /\ cur' = next[listHead]
  /\ UNCHANGED <<now, alloc, next, time, ptrs, num, queue>>

TooOld(n) == timeNow - time[n] >= Window

Uncounted == num' = num - 1

PruneNode ==
  /\ pc = "prune" /\ cur # NULL /\ TooOld(cur)
  /\ cur' = next[cur]
  /\ Free(cur)
  /\ Uncounted
  /\ queue' = Tail(queue)
  /\ UNCHANGED <<now, ptrs, pc, timeNow>>

(* Mutant: the sentinel is not linked to the rest. *)
Relink_Not == UNCHANGED next
Relink == next' = [next EXCEPT ![listHead] = cur]

(* Mutant: the tail of an emptied list is left where it was. *)
ResetTail_Not == UNCHANGED listTail
ResetTail == listTail' = IF cur = NULL THEN listHead ELSE listTail

(* The loop ends: the sentinel is linked to the rest, and an empty list has *)
(* the sentinel for its tail again.                                         *)
PruneDone ==
  /\ pc = "prune" /\ ~(cur # NULL /\ TooOld(cur))
  /\ pc' = "idle"
  /\ Relink /\ ResetTail
  /\ cur' = NULL /\ timeNow' = 0
  /\ UNCHANGED <<now, alloc, time, listHead, num, queue>>

(* Mutant: haku_sleep starts behind the sentinel. *)
FirstFreed_Next == next[listHead]
FirstFreed == listHead

(* haku_sleep, after the loop has ended: every node, the sentinel first. *)
SleepBegin ==
  /\ pc = "idle" /\ pc' = "sleep"
  /\ cur' = FirstFreed
  /\ queue' = <<listHead>> \o queue
  /\ UNCHANGED <<now, alloc, next, time, ptrs, num, timeNow>>

(* Mutant: the loop does not advance. *)
SleepNode_Stays ==
  /\ pc = "sleep" /\ cur # NULL
  /\ Free(cur)
  /\ UNCHANGED <<now, ptrs, num, pc, timeNow, cur, queue>>

SleepNode ==
  /\ pc = "sleep" /\ cur # NULL
  /\ cur' = next[cur]
  /\ Free(cur)
  /\ queue' = Tail(queue)
  /\ UNCHANGED <<now, ptrs, num, pc, timeNow>>

(* The process is gone; its memory goes with it. *)
Gone ==
  /\ pc' = "exited"
  /\ alloc' = {} /\ next' = [a \in Addr |-> NULL] /\ time' = [a \in Addr |-> 0]
  /\ listHead' = NULL /\ listTail' = NULL /\ num' = 0
  /\ timeNow' = 0 /\ cur' = NULL /\ queue' = <<>>
  /\ UNCHANGED now

SleepDone == pc = "sleep" /\ cur = NULL /\ Gone
Crash == pc # "exited" /\ Gone

Loop == PruneNode \/ PruneDone \/ SleepNode \/ SleepDone
Next == Tick \/ Awake \/ ReceiveMessage \/ HeartbeatBegin \/ Loop \/ SleepBegin \/ Crash

Spec == Init /\ [][Next]_vars

(* The loops do not wait for anything. *)
FairSpec == Spec /\ WF_vars(Loop)
-----------------------------------------------------------------------------
(* Every pointer about to be followed leads to an allocated cell: the       *)
(* sentinel and the tail while the bot serves, the node a loop stands on,   *)
(* and never the tail that a heartbeat has just freed (hakuMind.c 574, 632, *)
(* 640).                                                                    *)
NoDangling ==
  /\ pc \in {"idle", "prune"} => listHead \in alloc
  /\ pc = "idle" => listTail \in alloc
  /\ pc \in {"prune", "sleep"} => cur \in alloc \union {NULL}

(* From n on, the list is exactly the nodes of q, ending in NULL. *)
Linked(n, q) ==
  /\ n = IF q = <<>> THEN NULL ELSE q[1]
  /\ \A i \in 1..Len(q) : next[q[i]] = IF i = Len(q) THEN NULL ELSE q[i + 1]

Distinct(q) == \A i, j \in 1..Len(q) : q[i] = q[j] => i = j
Nodes(q) == {q[i] : i \in 1..Len(q)}

(* The list is well formed between events: the messages in order of         *)
(* arrival, no cycle, the tail last, nothing allocated off the list.        *)
WellLinked ==
  pc = "idle" =>
    /\ Linked(next[listHead], queue)
    /\ Distinct(queue)
    /\ alloc = {listHead} \union Nodes(queue) /\ listHead \notin Nodes(queue)
    /\ listTail = IF queue = <<>> THEN listHead ELSE queue[Len(queue)]

(* The number reported is the number of nodes on the list, messages and     *)
(* heartbeats in any order (hakuMind.c 573, 637).                           *)
CountsNodes == pc \in {"idle", "prune"} => num = Len(queue)

(* haku_sleep leaves nothing of the list behind (hakuMind.c 100-109).       *)
AllFreed == (pc = "sleep" /\ cur = NULL) => alloc = {}

(* The loops end. *)
LoopsEnd == (pc \in {"prune", "sleep"}) ~> (pc \in {"idle", "exited"})

-----------------------------------------------------------------------------
(* The list implements the counter: a heartbeat takes effect when its loop  *)
(* starts, the end of the bot when haku_sleep starts.                       *)
Times == [i \in 1..Len(queue) |-> time[queue[i]]]

Doomed == {i \in 1..Len(queue) : \A j \in 1..i : TooOld(queue[j])}
Left == SubSeq(Times, IF Doomed = {} THEN 1 ELSE 1 + CHOOSE i \in Doomed : \A j \in Doomed : j <= i,
               Len(queue))

(* The bot is up, the messages it counts, and the number for them. *)
Up == pc \in {"idle", "prune"}
Counting == CASE pc = "idle" -> Times
              [] pc = "prune" -> Left
              [] OTHER -> <<>>
Reported == CASE pc = "idle" -> num
              [] pc = "prune" -> num - (Len(queue) - Len(Left))
              [] OTHER -> 0

Flow == INSTANCE FlowCounter WITH on <- Up, window <- Counting, flow <- Reported

CountsFlow == Flow!Spec
=============================================================================
