--------------------------- MODULE HakuLifeProofs ---------------------------
(* Type correctness of HakuLife and the agreement between quit.txt, the exit *)
(* status and the last stop command, for every set of events and every       *)
(* length of a poll's batch.                                                 *)
EXTENDS HakuLife, SequenceTheorems, TLAPS

USE DEF Written, Order, NoOrder, NoNotice, Empty, Absent

(* quit.txt holds the command this process obeys. *)
FileHasOrder ==
  /\ order.by = "command"
  /\ order.ev.user \in Masters
  /\ quitFile = Written(order.flag, order.ev)

(* A process that ended, or is being replaced, for the stop f. *)
Handed(f) == order.flag = f /\ FileHasOrder

(* The flag main will return is the one of the order, and quit.txt follows. *)
FlagIsOrders ==
  /\ quitFlag = order.flag
  /\ order.by = "command" => FileHasOrder
  /\ order.by = "none" => quitFlag = "quit" /\ stop = 0
  /\ order.by = "request" => quitFlag = "quit" /\ order.ev.kind = "quit"
  /\ order.by = "bind" => quitFlag = "quit"

(* The inductive invariant: what holds at each place of the process. *)
IInv ==
  /\ TypeOK
  /\ proc \in {"loop", "read", "inside", "plugin", "answer", "leave"} => FlagIsOrders
  /\ proc = "leave" => order.by # "none"
  /\ proc = "stopfile" =>
       /\ order = Order("command", quitFlag, cur)
       /\ cur \in Events /\ cur.user \in Masters
  /\ proc \in {"init", "awake"} =>
       /\ quitFlag = "quit"
       /\ woken = "slept" => Handed("sleep")
       /\ woken = "updated" => Handed("update")
  /\ proc \in {"init", "awake", "bind"} => stop = 0
  /\ proc = "bind" => quitFlag = "quit" /\ order = NoOrder
  /\ proc = "down" /\ rtCode \in {"sleep", "update"} => Handed(rtCode)
  /\ proc = "down" /\ rtCode = "quit" =>
       /\ order.flag = "quit"
       /\ \/ Handed("quit")
          \/ order.by = "request" /\ order.ev.kind = "quit"
          \/ order.by = "bind"
  /\ proc = "down" => stop = 0
  /\ proc # "down" => gen = "waiting"
  /\ gen = "sleeping" => rtCode = "sleep"
  /\ gen = "updating" => rtCode = "update"
  /\ gen = "quit" => rtCode = "quit"
-----------------------------------------------------------------------------
(* A poll delivers a sequence of events. *)
LEMMA BatchesAreSequences == \A b \in Batches : b \in Seq(Events) /\ b # <<>>
<1> TAKE b \in Batches
<1>1. PICK n \in 1..MaxBatch : b \in [1..n -> Events]
  BY DEF Batches
<1>2. n \in Nat /\ n >= 1
  BY MaxBatchAssumption
<1> QED
  BY <1>1, <1>2, SMT

(* The first read of a poll is an event, the rest a shorter poll. *)
LEMMA HeadAndTail ==
  ASSUME batch \in Seq(Events), batch # <<>>
  PROVE  Head(batch) \in Events /\ Tail(batch) \in Seq(Events)
  OBVIOUS

(* Every variable keeps its type: the states of gen.py and hakuBot, and the  *)
(* records of quit.txt, of the order and of the notice.                      *)
LEMMA TypeInit == Init => TypeOK
  BY EmptySeq DEF Init, TypeOK, Flags, Up, Serving

(* Every step of gen.py, of hakuBot and of the clock keeps the types. *)
LEMMA TypeNext == TypeOK /\ [Next]_vars => TypeOK'
<1> SUFFICES ASSUME TypeOK, [Next]_vars PROVE TypeOK'
  OBVIOUS
<1> USE DEF TypeOK, Flags, Up, Serving, genVars, loopVars, history
<1>1. ASSUME NEW why \in {"first", "slept", "updated", "unknown"}, Spawn(why)
      PROVE  TypeOK'
  BY <1>1 DEF Spawn
<1>2. ASSUME NEW to \in {"sleeping", "updating", "quit", "dead"}, GenGoes(to)
      PROVE  TypeOK'
  BY <1>2 DEF GenGoes
<1>3. ASSUME NEW code \in Flags \union {"other"}, Down(code)
      PROVE  TypeOK'
  BY <1>3, EmptySeq DEF Down
<1>4. ASSUME NEW to \in Up, Take(to), Head(batch) \in Events => cur' \in Events \union {NoEvent},
             quitFlag' \in Flags, stop' \in {0, 1},
             quitFile' \in [flag: Flags \union {"absent", "empty"}, ev: Events \union {NoEvent}],
             order' \in [by: {"none", "command", "request", "bind"}, flag: Flags,
                         ev: Events \union {NoEvent}]
      PROVE  TypeOK'
  BY <1>4, HeadAndTail DEF Take
<1>5. CASE ManualStart \/ GenRetries \/ SleepOver \/ UpdateOver
  BY <1>5, <1>1 DEF ManualStart, GenRetries, SleepOver, UpdateOver
<1>6. CASE GenSleeps \/ GenQuits \/ GenUpdates \/ UpdateRaises
  BY <1>6, <1>2 DEF GenSleeps, GenQuits, GenUpdates, UpdateRaises
<1>7. CASE InitFails \/ Exit \/ LogTrap \/ Crash
  BY <1>7, <1>3 DEF InitFails, Exit, LogTrap, Crash
<1>8. CASE InitOk \/ BatchDone
  BY <1>8 DEF InitOk, BatchDone, AfterBatch
<1>20. CASE Tick
  BY <1>20 DEF Tick
<1>9. CASE Awake
  BY <1>9 DEF Awake, Notices
<1>10. CASE BindOk \/ BindFails
  BY <1>10 DEF BindOk, BindFails, Started
<1>11. CASE Poll
  BY <1>11, BatchesAreSequences DEF Poll
<1>12. CASE Ignore
  BY <1>12, <1>4 DEF Ignore
<1>13. CASE QuitRequest
  BY <1>13, <1>4, HeadAndTail DEF QuitRequest, FlagKept, Take
<1>14. CASE Chat
  <2>1. PluginStage(Head(batch)) \in Up
    BY DEF PluginStage
  <2> QED
    BY <1>14, <1>4, <2>1 DEF Chat
<1>15. CASE Inside
  BY <1>15, <1>4 DEF Inside
<1>16. CASE \E f \in Flags : StopCommand(f)
  BY <1>16, <1>4, HeadAndTail DEF StopCommand, Take
<1>17. CASE StopFileClosed
  BY <1>17 DEF StopFileClosed, Filled
<1>18. CASE InsideSent \/ PluginReturns \/ AnswerSent
  BY <1>18 DEF InsideSent, PluginReturns, AnswerSent, Goes, PluginStage
<1>19. CASE UNCHANGED vars
  BY <1>19 DEF vars
<1> QED
  BY <1>5, <1>6, <1>7, <1>8, <1>9, <1>10, <1>11, <1>12, <1>13, <1>14, <1>15, <1>16,
     <1>17, <1>18, <1>19, <1>20 DEF Next, GenStep, ProcStep

(* Type correctness. *)
THEOREM TypeCorrect == Spec => []TypeOK
  BY TypeInit, TypeNext, PTL DEF Spec
-----------------------------------------------------------------------------
(* Before gen.py runs there is no exit status, no order and no quit.txt. *)
LEMMA InvInit == Init => IInv
  BY TypeInit DEF Init, IInv

(* Each step keeps the agreement.  The places where it is at stake are a    *)
(* stop command (it moves the flag and the order), the closing of quit.txt  *)
(* (it moves the file), the end of the process and the start of the next.   *)
LEMMA InvNext == IInv /\ [Next]_vars => IInv'
<1> SUFFICES ASSUME IInv, [Next]_vars PROVE IInv'
  OBVIOUS
<1>0. TypeOK /\ TypeOK'
  BY TypeNext DEF IInv
<1> USE <1>0 DEF IInv, FlagIsOrders, FileHasOrder, Handed, genVars, loopVars, history
<1>1. ASSUME NEW why \in {"first", "slept", "updated", "unknown"}, Spawn(why),
             proc = "down", why = "slept" => Handed("sleep"), why = "updated" => Handed("update")
      PROVE  IInv'
  BY <1>1 DEF Spawn
<1>2. ASSUME NEW to \in {"sleeping", "updating", "quit", "dead"}, GenGoes(to),
             proc = "down",
             to = "sleeping" => rtCode = "sleep", to = "updating" => rtCode = "update",
             to = "quit" => rtCode = "quit"
      PROVE  IInv'
  BY <1>2 DEF GenGoes
<1>3. ASSUME Down("other"), gen = "waiting"
      PROVE  IInv'
  BY <1>3 DEF Down
<1>5. CASE ManualStart \/ GenRetries \/ SleepOver \/ UpdateOver
  <2>1. proc = "down"
    BY <1>5 DEF ManualStart, GenRetries, SleepOver, UpdateOver, Returned
  <2> QED
    BY <2>1, <1>5, <1>1 DEF ManualStart, GenRetries, SleepOver, UpdateOver, Returned
<1>6. CASE GenSleeps \/ GenQuits \/ GenUpdates \/ UpdateRaises
  BY <1>6, <1>2 DEF GenSleeps, GenQuits, GenUpdates, UpdateRaises, Returned
<1>7. CASE InitFails \/ LogTrap \/ Crash
  BY <1>7, <1>3 DEF InitFails, LogTrap, Crash, Up, Serving
<1>8. CASE Exit
  BY <1>8 DEF Exit, Down, TypeOK, Flags
<1>9. CASE InitOk
  BY <1>9 DEF InitOk
<1>10. CASE BatchDone
  BY <1>10 DEF BatchDone, AfterBatch, TypeOK
<1>11. CASE Awake
  BY <1>11 DEF Awake, Notices
<1>12. CASE BindOk \/ BindFails
  BY <1>12 DEF BindOk, BindFails, Started
<1>13. CASE Poll \/ Tick
  BY <1>13 DEF Poll, Tick
<1>14. CASE Ignore
  BY <1>14 DEF Ignore, Take
<1>15. CASE QuitRequest
  BY <1>15 DEF QuitRequest, FlagKept, Take
<1>16. CASE Chat
  BY <1>16 DEF Chat, Take, PluginStage
<1>17. CASE Inside
  BY <1>17 DEF Inside, Take
<1>18. ASSUME NEW f \in Flags, StopCommand(f) PROVE IInv'
  BY <1>18, HeadAndTail DEF StopCommand, Take, Stops, IsMaster, TypeOK
<1>19. CASE StopFileClosed
  BY <1>19 DEF StopFileClosed, Filled
<1>20. CASE InsideSent \/ PluginReturns \/ AnswerSent
  BY <1>20 DEF InsideSent, PluginReturns, AnswerSent, Goes, PluginStage
<1>21. CASE UNCHANGED vars
  BY <1>21 DEF vars
<1> QED
  BY <1>5, <1>6, <1>7, <1>8, <1>9, <1>10, <1>11, <1>12, <1>13, <1>14, <1>15, <1>16,
     <1>17, <1>18, <1>19, <1>20, <1>21 DEF Next, GenStep, ProcStep

(* The strengthened invariant holds in every behaviour. *)
LEMMA Invariance == Spec => []IInv
  BY InvInit, InvNext, PTL DEF Spec

(* gen.py never sleeps or updates on anything but the last stop command a    *)
(* master gave, and finds that command in quit.txt.                         *)
THEOREM ExitAndFileAgree == Spec => []ExitMatchesQuitFile
<1>1. IInv => ExitMatchesQuitFile
  BY DEF IInv, ExitMatchesQuitFile, Handed, FileHasOrder
<1> QED
  BY <1>1, Invariance, PTL

(* gen.py never ends but for a master's last command, an unpreceded /QUIT    *)
(* request or a server that could not start.                                *)
THEOREM QuitHasCause == Spec => []GenQuitsForCause
<1>1. IInv => GenQuitsForCause
  BY DEF IInv, GenQuitsForCause, Handed, FileHasOrder
<1> QED
  BY <1>1, Invariance, PTL

(* A process started after a sleep or an update answers the command that     *)
(* caused it.                                                               *)
THEOREM NoticeAnswersOrder == Spec => WakeNotice
<1>1. IInv /\ Awake => Wakes("slept", "sleep") /\ Wakes("updated", "update")
  BY DEF IInv, Awake, Notices, Wakes, Handed, FileHasOrder
<1>2. IInv /\ [Next]_vars => [Awake => Wakes("slept", "sleep") /\ Wakes("updated", "update")]_vars
  BY <1>1
<1> QED
  BY <1>2, Invariance, PTL DEF Spec, WakeNotice

(* A blocked sender starts no plugin, and stops the bot only as a master who *)
(* uses the master name: the property is inductive as it stands.            *)
THEOREM BlockedStayIgnored == Spec => []BlockedIgnored
<1>1. Init => BlockedIgnored
  BY DEF Init, BlockedIgnored
<1>2. BlockedIgnored /\ [Next]_vars => BlockedIgnored'
  <2> SUFFICES ASSUME BlockedIgnored, [Next]_vars PROVE BlockedIgnored'
    OBVIOUS
  <2> USE DEF BlockedIgnored, genVars, loopVars, history
  <2>1. CASE GenStep \/ ManualStart
    BY <2>1 DEF GenStep, ManualStart, GenSleeps, GenQuits, GenUpdates, GenRetries, SleepOver,
                UpdateOver, UpdateRaises, Spawn, GenGoes
  <2>2. CASE InitFails \/ Exit \/ LogTrap \/ Crash
    BY <2>2 DEF InitFails, Exit, LogTrap, Crash, Down
  <2>3. CASE InitOk \/ Awake \/ BindOk \/ BindFails \/ Poll \/ BatchDone \/ Tick
    BY <2>3 DEF InitOk, Awake, Notices, BindOk, BindFails, Started, Poll, BatchDone, AfterBatch, Tick
  <2>4. CASE Ignore \/ QuitRequest \/ Inside
    BY <2>4 DEF Ignore, QuitRequest, FlagKept, Inside, Take
  <2>5. CASE Chat
    BY <2>5 DEF Chat, Take, PluginStage, PluginRuns, IsBlocked
  <2>6. ASSUME NEW f \in Flags, StopCommand(f) PROVE BlockedIgnored'
    BY <2>6 DEF StopCommand, Take, Stops, Heard, IsMaster, IsBlocked
  <2>7. CASE StopFileClosed
    BY <2>7 DEF StopFileClosed, Filled
  <2>8. CASE InsideSent \/ PluginReturns \/ AnswerSent
    BY <2>8 DEF InsideSent, PluginReturns, AnswerSent, Goes, PluginStage, PluginRuns, IsBlocked
  <2>9. CASE UNCHANGED vars
    BY <2>9 DEF vars
  <2> QED
    BY <2>1, <2>2, <2>3, <2>4, <2>5, <2>6, <2>7, <2>8, <2>9 DEF Next, ProcStep
<1> QED
  BY <1>1, <1>2, PTL DEF Spec
-----------------------------------------------------------------------------
(* The steps a process that was told to stop can still make: at most four    *)
(* for each read of the poll that is left, then the end.                     *)
StepsIn ==
  [init |-> 0, awake |-> 0, bind |-> 0, loop |-> 0, down |-> 0,
   leave |-> 1, read |-> 2, answer |-> 3, stopfile |-> 3, plugin |-> 4, inside |-> 5]

StepsLeft == IF proc \in {"down", "leave"} THEN StepsIn[proc] ELSE StepsIn[proc] + 4 * Len(batch)

(* Once the loop was told to stop, every step of the process brings it       *)
(* nearer to its end and none takes it away: no read is added, and the loop  *)
(* is not entered again (server.c 50-55, 160).                               *)
StopDrains ==
  [][stop = 1 =>
       /\ StepsLeft' <= StepsLeft
       /\ ProcStep \/ PluginReturns => StepsLeft' < StepsLeft]_vars

(* A loop that was told to stop is not waiting for the next poll. *)
StopInv == stop = 1 => proc # "loop"

LEMMA StopStep == IInv /\ StopInv /\ [Next]_vars => StopInv'
<1> SUFFICES ASSUME IInv, StopInv, [Next]_vars PROVE StopInv'
  OBVIOUS
<1> USE DEF StopInv, genVars, loopVars, history
<1>1. CASE GenStep \/ ManualStart
  BY <1>1 DEF GenStep, ManualStart, GenSleeps, GenQuits, GenUpdates, GenRetries, SleepOver,
              UpdateOver, UpdateRaises, Spawn, GenGoes
<1>2. CASE InitFails \/ Exit \/ LogTrap \/ Crash
  BY <1>2 DEF InitFails, Exit, LogTrap, Crash, Down
<1>3. CASE InitOk \/ Awake \/ BindOk \/ BindFails
  BY <1>3 DEF InitOk, Awake, BindOk, BindFails, Started, IInv
<1>4. CASE Poll \/ BatchDone \/ Tick
  BY <1>4 DEF Poll, BatchDone, AfterBatch, Tick
<1>5. CASE Ignore \/ QuitRequest \/ Inside
  BY <1>5 DEF Ignore, QuitRequest, Inside, Take
<1>6. CASE Chat
  BY <1>6 DEF Chat, Take, PluginStage
<1>7. ASSUME NEW f \in Flags, StopCommand(f) PROVE StopInv'
  BY <1>7 DEF StopCommand, Take
<1>8. CASE StopFileClosed
  BY <1>8 DEF StopFileClosed
<1>9. CASE InsideSent \/ PluginReturns \/ AnswerSent
  BY <1>9 DEF InsideSent, PluginReturns, AnswerSent, Goes, PluginStage
<1>10. CASE UNCHANGED vars
  BY <1>10 DEF vars
<1> QED
  BY <1>1, <1>2, <1>3, <1>4, <1>5, <1>6, <1>7, <1>8, <1>9, <1>10 DEF Next, ProcStep

(* A read that is taken is one less. *)
LEMMA TailIsShorter ==
  ASSUME batch \in Seq(Events), batch # <<>>, batch' = Tail(batch)
  PROVE  Len(batch) \in Nat /\ Len(batch') \in Nat /\ Len(batch) = Len(batch') + 1
  OBVIOUS

LEMMA StopSteps ==
  ASSUME IInv, StopInv, [Next]_vars, stop = 1
  PROVE  /\ StepsLeft' <= StepsLeft
         /\ ProcStep \/ PluginReturns => StepsLeft' < StepsLeft
<1> DEFINE n == Len(batch)
<1>0. n \in Nat /\ batch \in Seq(Events)
  BY DEF IInv, TypeOK
<1>1. proc \in {"read", "inside", "stopfile", "plugin", "answer", "leave"} /\ gen = "waiting"
  BY DEF IInv, TypeOK, StopInv, Up, Serving
<1>2. StepsLeft = IF proc = "leave" THEN 1 ELSE StepsIn[proc] + 4 * n
  BY <1>1 DEF StepsLeft, StepsIn
<1>3. ASSUME NEW to, Take(to), to \in {"read", "inside", "stopfile", "plugin", "answer"}
      PROVE  StepsLeft' < StepsLeft
  <2>1. proc = "read" /\ proc' = to /\ batch' = Tail(batch) /\ batch # <<>>
    BY <1>3 DEF Take
  <2>2. Len(batch') \in Nat /\ n = Len(batch') + 1
    BY <1>0, <2>1, TailIsShorter
  <2>3. StepsLeft = 2 + 4 * n
    BY <1>2, <2>1 DEF StepsIn
  <2>4. StepsLeft' = StepsIn[to] + 4 * Len(batch')
    BY <2>1, <1>3 DEF StepsLeft
  <2>5. StepsIn[to] \in 2..5
    BY <1>3 DEF StepsIn
  <2> HIDE DEF n
  <2>6. 2 + 4 * n = 6 + 4 * Len(batch')
    BY <2>2
  <2> QED
    BY <2>2, <2>3, <2>4, <2>5, <2>6
<1>4. ASSUME Ignore \/ QuitRequest \/ Chat \/ Inside \/ \E f \in Flags : StopCommand(f)
      PROVE  StepsLeft' < StepsLeft
  <2>1. \E to \in {"read", "inside", "stopfile", "plugin", "answer"} : Take(to)
    BY <1>4 DEF Ignore, QuitRequest, Chat, Inside, StopCommand, PluginStage
  <2> QED
    BY <2>1, <1>3
<1>5. ASSUME InitFails \/ Exit \/ LogTrap \/ Crash PROVE StepsLeft' < StepsLeft
  <2>1. proc' = "down"
    BY <1>5 DEF InitFails, Exit, LogTrap, Crash, Down
  <2>2. StepsLeft' = 0
    BY <2>1 DEF StepsLeft, StepsIn
  <2>3. StepsLeft >= 1 /\ StepsLeft \in Int
    BY <1>0, <1>1, <1>2 DEF StepsIn
  <2> QED
    BY <2>2, <2>3
<1>6. ASSUME BatchDone PROVE StepsLeft' < StepsLeft
  <2>1. proc = "read" /\ proc' = "leave" /\ n = 0
    BY <1>6 DEF BatchDone, AfterBatch
  <2>2. StepsLeft' = 1 /\ StepsLeft = 2 + 4 * 0
    BY <1>2, <2>1 DEF StepsLeft, StepsIn
  <2> QED
    BY <2>2
<1>7. ASSUME StopFileClosed \/ InsideSent \/ PluginReturns \/ AnswerSent
      PROVE  StepsLeft' < StepsLeft
  <2>1. /\ batch' = batch
        /\ \/ proc = "stopfile" /\ proc' = "read"
           \/ proc = "inside" /\ proc' \in {"plugin", "answer", "read"}
           \/ proc = "plugin" /\ proc' \in {"answer", "read"}
           \/ proc = "answer" /\ proc' = "read"
    BY <1>7 DEF StopFileClosed, InsideSent, PluginReturns, AnswerSent, Goes, PluginStage
  <2>2. StepsLeft' = StepsIn[proc'] + 4 * n /\ StepsLeft = StepsIn[proc] + 4 * n
    BY <1>2, <2>1 DEF StepsLeft
  <2>3. StepsIn[proc'] < StepsIn[proc] /\ StepsIn[proc'] \in Nat /\ StepsIn[proc] \in Nat
    BY <2>1 DEF StepsIn
  <2> HIDE DEF n
  <2>4. \A a, b, k \in Nat : a < b => a + 4 * k < b + 4 * k
    OBVIOUS
  <2> QED
    BY <1>0, <2>2, <2>3, <2>4
<1>8. ASSUME Tick \/ UNCHANGED vars \/ GenStep \/ ManualStart
      PROVE  StepsLeft' = StepsLeft
  <2>1. ~ManualStart /\ (GenStep => UNCHANGED <<proc, batch>>)
    BY <1>1 DEF ManualStart, GenStep, GenSleeps, GenQuits, GenUpdates, GenRetries, SleepOver,
                UpdateOver, UpdateRaises, Returned
  <2> QED
    BY <1>8, <2>1 DEF Tick, vars, loopVars, StepsLeft
<1>9. ~InitOk /\ ~Awake /\ ~BindOk /\ ~BindFails /\ ~Poll
  BY <1>1 DEF InitOk, Awake, BindOk, BindFails, Started, Poll
<1>10. ProcStep \/ PluginReturns => StepsLeft' < StepsLeft
  BY <1>4, <1>5, <1>6, <1>7, <1>9 DEF ProcStep
<1>11. StepsLeft \in Int
  BY <1>0, <1>1, <1>2 DEF StepsIn
<1>12. StepsLeft' \in Int
  <2>1. proc' \in Up \union {"down"} /\ Len(batch') \in Nat
    BY InvNext DEF IInv, TypeOK
  <2>2. StepsIn[proc'] \in Int
    BY <2>1 DEF StepsIn, Up, Serving
  <2> QED
    BY <2>1, <2>2 DEF StepsLeft
<1>13. ASSUME ProcStep \/ PluginReturns \/ Crash PROVE StepsLeft' <= StepsLeft
  <2>1. StepsLeft' < StepsLeft
    BY <1>5, <1>10, <1>13
  <2> QED
    BY <1>11, <1>12, <2>1
<1>14. ASSUME Tick \/ UNCHANGED vars \/ GenStep \/ ManualStart PROVE StepsLeft' <= StepsLeft
  BY <1>8, <1>11, <1>14
<1> QED
  BY <1>9, <1>10, <1>13, <1>14 DEF Next

(* The argument under StopObeyed, for every poll length: what is left of a   *)
(* process that was told to stop is a natural number that only goes down.    *)
THEOREM StopRunsDown == Spec => [](StepsLeft \in Nat) /\ StopDrains
<1>0. IInv => StepsLeft \in Nat
  <2> SUFFICES ASSUME IInv PROVE StepsLeft \in Nat
    OBVIOUS
  <2>0. batch \in Seq(Events) /\ proc \in Up \union {"down"}
    BY DEF IInv, TypeOK
  <2>1. Len(batch) \in Nat /\ StepsIn[proc] \in Nat
    <3>1. Len(batch) \in Nat
      BY <2>0, LenProperties
    <3>2. StepsIn[proc] \in Nat
      BY <2>0 DEF Up, Serving, StepsIn
    <3> QED
      BY <3>1, <3>2
  <2>2. \A s, l \in Nat : s + 4 * l \in Nat
    OBVIOUS
  <2> QED
    BY <2>1, <2>2 DEF StepsLeft
<1>1. Init => StopInv
  BY DEF Init, StopInv
<1>2. IInv /\ StopInv /\ [Next]_vars =>
        (stop = 1 => /\ StepsLeft' <= StepsLeft
                     /\ ProcStep \/ PluginReturns => StepsLeft' < StepsLeft)
  BY StopSteps
<1> QED
  BY Invariance, <1>0, <1>1, <1>2, StopStep, PTL DEF Spec, StopDrains
=============================================================================
