------------------------------ MODULE HakuLife ------------------------------
(***************************************************************************)
(* The life of the bot: the supervisor gen.py, the process hakuBot it       *)
(* starts (main.c), the libuv loop that reads events and calls new_thread   *)
(* inline (server.c, hakuMind.c), and the file quit.txt that carries the    *)
(* last stop command from one process to the next.                         *)
(*                                                                         *)
(* hakuBot is single-threaded.  Its steps are cut where it waits for        *)
(* something outside it: a poll, a reply sent with curl, a plugin, the      *)
(* closing of quit.txt; a crash may fall on any of these points.            *)
(***************************************************************************)
EXTENDS Command, Sequences

CONSTANTS
  Events,     \* what one read can deliver (records, see EventsAssumption)
  NoEvent,    \* no event
  MaxBatch    \* reads one poll can find ready (bound of the model)

ASSUME EventsAssumption ==
  /\ Events \subseteq [kind: {"message", "heartbeat", "quit", "bad"},
                       user: {e.user : e \in Events},
                       chat: {"private", "group", "other"},
                       call: Calls, words: SUBSET Words, indexed: BOOLEAN,
                       named: BOOLEAN, fits: BOOLEAN, spaced: BOOLEAN]
  /\ NoEvent \notin Events
ASSUME MaxBatchAssumption == MaxBatch \in Nat \ {0}

VARIABLES
  gen,        \* gen.py: what the supervisor is doing
  woken,      \* gen.py: why it started the current process
  rtCode,     \* gen.py: exit status of the last process
  proc,       \* hakuBot: where its single thread is
  quitFlag,   \* main.c: the value main returns
  stop,       \* libuv: stop_flag of the loop, 0 or 1, set by uv_stop
  batch,      \* libuv: reads of this poll not yet handed to on_reply
  cur,        \* the event new_thread is working on
  uptime,     \* timeNow - hakuSelf.wakeTime; 1 is any time from a second on
  quitFile,   \* quit.txt: its first line and the event under it
  order,      \* history: the stop this process obeys
  announced   \* history: the notice awake_haku sent

genVars == <<gen, woken, rtCode>>
loopVars == <<stop, batch, cur>>
history == <<order, announced>>
vars == <<gen, woken, rtCode, proc, quitFlag, stop, batch, cur, uptime,
          quitFile, order, announced>>

Serving == {"loop", "read", "inside", "stopfile", "plugin", "answer"}
Up == Serving \union {"init", "awake", "bind", "leave"}

Absent == [flag |-> "absent", ev |-> NoEvent]
Empty == [flag |-> "empty", ev |-> NoEvent]
Written(f, ev) == [flag |-> f, ev |-> ev]

NoOrder == [by |-> "none", flag |-> "quit", ev |-> NoEvent]
Order(by, f, ev) == [by |-> by, flag |-> f, ev |-> ev]

NoNotice == [flag |-> "none", ev |-> NoEvent]

Batches == UNION {[1..n -> Events] : n \in 1..MaxBatch}

TypeOK ==
  /\ gen \in {"off", "waiting", "sleeping", "updating", "quit", "dead"}
  /\ woken \in {"first", "slept", "updated", "unknown"}
  /\ rtCode \in Flags \union {"other"}
  /\ proc \in Up \union {"down"}
  /\ quitFlag \in Flags
  /\ stop \in {0, 1}
  /\ batch \in Seq(Events)
  /\ cur \in Events \union {NoEvent}
  /\ uptime \in {0, 1}
  /\ quitFile \in [flag: Flags \union {"absent", "empty"},
                   ev: Events \union {NoEvent}]
  /\ order \in [by: {"none", "command", "request", "bind"}, flag: Flags,
                ev: Events \union {NoEvent}]
  /\ announced \in [flag: Flags \union {"none"}, ev: Events \union {NoEvent}]

Init ==
  /\ gen = "off" /\ woken = "first" /\ rtCode = "other"
  /\ proc = "down" /\ quitFlag = "quit" /\ stop = 0
  /\ batch = <<>> /\ cur = NoEvent /\ uptime = 1
  /\ quitFile = Absent
  /\ order = NoOrder /\ announced = NoNotice
-----------------------------------------------------------------------------
(* gen.py *)

(* subprocess.call('./hakuBot'): a new process with its globals initialised. *)
Spawn(why) ==
  /\ gen' = "waiting" /\ woken' = why
  /\ proc' = "init" /\ quitFlag' = "quit"
  /\ UNCHANGED <<rtCode, loopVars, uptime, quitFile, history>>

(* The operator runs gen.py, for the first time or after it has ended. *)
ManualStart == gen \in {"off", "quit", "dead"} /\ Spawn("first")

GenGoes(to) ==
  /\ gen' = to
  /\ UNCHANGED <<woken, rtCode, proc, quitFlag, loopVars, uptime, quitFile, history>>

Returned(code) == gen = "waiting" /\ proc = "down" /\ rtCode = code

GenSleeps == Returned("sleep") /\ GenGoes("sleeping")
GenQuits == Returned("quit") /\ GenGoes("quit")
GenUpdates == Returned("update") /\ GenGoes("updating")
GenRetries == Returned("other") /\ Spawn("unknown")

(* Mutant: gen.py leaves its loop after a sleep. *)
SleepOver_Leaves == gen = "sleeping" /\ GenGoes("quit")

SleepOver == gen = "sleeping" /\ Spawn("slept")

(* gen can name the chat to report to: quit.txt holds an event, json.loads  *)
(* accepts its last blank-separated token, and message_type is one it knows. *)
Reportable ==
  /\ quitFile.flag \in Flags
  /\ ~quitFile.ev.spaced
  /\ quitFile.ev.chat \in {"private", "group"}

(* git pull, make, and the reports to the chat; the bot is started again. *)
UpdateOver == gen = "updating" /\ Reportable /\ Spawn("updated")

(* requests.get raises, for an empty URL or because cqhttp does not answer: *)
(* nothing catches it and gen.py ends.                                      *)
UpdateRaises == gen = "updating" /\ GenGoes("dead")
-----------------------------------------------------------------------------
(* hakuBot: start and end of the process *)

Down(code) ==
  /\ proc' = "down" /\ rtCode' = code
  /\ stop' = 0 /\ batch' = <<>> /\ cur' = NoEvent /\ uptime' = 1
  /\ announced' = NoNotice
  /\ UNCHANGED <<gen, woken, quitFlag, quitFile, order>>

(* Mutant: main also returns on a WARNING, a status gen.py does not know of. *)
InitFails_Warning == proc = "init" /\ Down("warning")

(* global_init fails (python, curl or config.json); main returns its error. *)
InitFails == proc = "init" /\ Down("other")

InitOk ==
  /\ proc = "init" /\ proc' = "awake"
  /\ UNCHANGED <<genVars, quitFlag, loopVars, uptime, quitFile, history>>

(* The event read back from quit.txt can be answered: its text fits the     *)
(* 4095 bytes that are read and the chat is one reply_message knows.        *)
Answerable(ev) == ev # NoEvent /\ ev.fits /\ ev.chat \in {"private", "group"}

(* Mutant: only the UPDATE line of quit.txt is compared. *)
Notices_UpdateOnly == {"update"}
Notices == {"sleep", "update"}

(* awake_haku: the notice of quit.txt, whoever wrote it and whenever. *)
Awake ==
  /\ proc = "awake" /\ proc' = "bind"
  /\ announced' = IF quitFile.flag \in Notices /\ Answerable(quitFile.ev)
                  THEN quitFile ELSE NoNotice
  /\ uptime' = 0
  /\ order' = NoOrder
  /\ UNCHANGED <<genVars, quitFlag, loopVars, quitFile>>

Started(to) ==
  /\ proc = "bind" /\ proc' = to
  /\ announced' = NoNotice
  /\ UNCHANGED <<genVars, quitFlag, loopVars, uptime, quitFile>>

BindOk == Started("loop") /\ UNCHANGED order

(* uv_tcp_bind or uv_listen fails: new_server returns and main goes on to   *)
(* its end with quitFlag as it was initialised.                             *)
BindFails == Started("leave") /\ order' = Order("bind", "quit", NoEvent)

(* haku_sleep, free_so_file_tree, sleep(2), global_cleanup, return quitFlag *)
Exit == proc = "leave" /\ Down(quitFlag)

(* Any fatal signal: a bad pointer, an uncaught abort, kill. *)
Crash == proc \in Up /\ Down("other")

(* time() moves past wakeTime. *)
Tick ==
  /\ uptime = 0 /\ uptime' = 1
  /\ UNCHANGED <<genVars, proc, quitFlag, loopVars, quitFile, history>>
-----------------------------------------------------------------------------
(* hakuBot: the loop *)

Poll ==
  /\ proc = "loop" /\ proc' = "read"
  /\ batch' \in Batches
  /\ UNCHANGED <<genVars, quitFlag, stop, cur, uptime, quitFile, history>>

(* Mutant: uv_stop is not called, or has no effect. *)
AfterBatch_Loops == "loop"
AfterBatch == IF stop = 1 THEN "leave" ELSE "loop"

(* The poll's reads are used up: uv_run looks at stop_flag. *)
BatchDone ==
  /\ proc = "read" /\ batch = <<>>
  /\ proc' = AfterBatch
  /\ UNCHANGED <<genVars, quitFlag, loopVars, uptime, quitFile, history>>

(* on_reply hands the next read to new_thread, which takes the thread to    *)
(* its first wait.                                                          *)
Take(to) ==
  /\ proc = "read" /\ batch # <<>>
  /\ batch' = Tail(batch)
  /\ proc' = to
  /\ UNCHANGED <<genVars, uptime, announced>>

(* A request that is no event, or a heartbeat: no wait, nothing kept here. *)
Ignore ==
  /\ Take("read")
  /\ Head(batch).kind \in {"heartbeat", "bad"}
  /\ UNCHANGED <<quitFlag, stop, cur, quitFile, order>>

(* Mutant: /QUIT also resets the flag. *)
FlagKept_Not == quitFlag' = "quit"
FlagKept == UNCHANGED quitFlag

(* A request for /QUIT: QUIT_FLAG is returned at once; quitFlag and quit.txt *)
(* keep what an earlier command put there.                                  *)
QuitRequest ==
  /\ Take("read")
  /\ Head(batch).kind = "quit"
  /\ stop' = 1
  /\ FlagKept
  /\ order' = IF order.by = "none" THEN Order("request", "quit", Head(batch)) ELSE order
  /\ UNCHANGED <<cur, quitFile>>

(* Mutant: parse_plugin_command looks at the index character only. *)
PluginStage_NoBlock(ev) == IF ev.indexed /\ ev.named THEN "plugin" ELSE "read"

(* Where parse_plugin_command makes the thread wait. *)
PluginStage(ev) ==
  IF PluginRuns(ev) THEN "plugin" ELSE IF PluginRefuses(ev) THEN "answer" ELSE "read"

(* A message that calls no name goes straight to parse_plugin_command. *)
Chat ==
  LET ev == Head(batch) IN
  /\ Take(PluginStage(ev))
  /\ ev.kind = "message" /\ ev.call = "none"
  /\ cur' = IF PluginStage(ev) = "read" THEN NoEvent ELSE ev
  /\ UNCHANGED <<quitFlag, stop, quitFile, order>>

(* A message answered by catch_inside_command; its text is sent with curl. *)
Inside ==
  LET ev == Head(batch) IN
  /\ Take("inside")
  /\ ev.kind = "message" /\ InsideReplies(ev)
  /\ ~(uptime = 0 /\ AsksLog(ev))
  /\ cur' = ev
  /\ UNCHANGED <<quitFlag, stop, quitFile, order>>

(* The log reply in the second of waking up divides by zero (SIGFPE). *)
LogTrap ==
  /\ proc = "read" /\ batch # <<>>
  /\ Head(batch).kind = "message"
  /\ uptime = 0 /\ AsksLog(Head(batch))
  /\ Down("other")

(* A master's stop command: the flag is set, quit.txt is truncated and its  *)
(* new text sits in the stream's buffer (a text too long for the buffer may *)
(* have reached the file in part) while the farewell is sent.               *)
StopCommand(f) ==
  LET ev == Head(batch) IN
  /\ Take("stopfile")
  /\ ev.kind = "message" /\ Stops(ev, f)
  /\ cur' = ev
  /\ quitFlag' = f
  /\ quitFile' \in {Empty} \union {q \in {Written(f, ev)} : ~ev.fits}
  /\ order' = Order("command", f, ev)
  /\ UNCHANGED stop

(* Mutant: a second command of the poll always writes QUIT. *)
Filled_Quit == Written(IF stop = 1 THEN "quit" ELSE quitFlag, cur)
Filled == Written(quitFlag, cur)

(* The farewell is sent, fclose writes quit.txt, on_reply calls uv_stop. *)
StopFileClosed ==
  /\ proc = "stopfile" /\ proc' = "read"
  /\ quitFile' = Filled
  /\ stop' = 1 /\ cur' = NoEvent
  /\ UNCHANGED <<genVars, quitFlag, batch, uptime, history>>

Goes(from, to) ==
  /\ proc = from /\ proc' = to
  /\ cur' = IF to = "read" THEN NoEvent ELSE cur
  /\ UNCHANGED <<genVars, quitFlag, stop, batch, uptime, quitFile, history>>

(* The inside reply is sent; new_thread goes on to parse_plugin_command. *)
InsideSent == Goes("inside", PluginStage(cur))

(* func or the python function returns, with or without a text to send. *)
PluginReturns == Goes("plugin", "answer") \/ Goes("plugin", "read")

AnswerSent == Goes("answer", "read")
-----------------------------------------------------------------------------
GenStep == GenSleeps \/ GenQuits \/ GenUpdates \/ GenRetries \/ SleepOver
           \/ UpdateOver \/ UpdateRaises

(* Steps the process takes by itself or when curl's time limit runs out. *)
ProcStep ==
  \/ InitOk \/ InitFails \/ Awake \/ BindOk \/ BindFails \/ Exit
  \/ BatchDone \/ Ignore \/ QuitRequest \/ Chat \/ Inside \/ LogTrap
  \/ \E f \in Flags : StopCommand(f)
  \/ StopFileClosed \/ InsideSent \/ AnswerSent

Next ==
  \/ ManualStart \/ GenStep
  \/ ProcStep \/ PluginReturns \/ Poll \/ Crash \/ Tick

Spec == Init /\ [][Next]_vars

(* gen.py and the process are scheduled; curl gives up after 60 seconds.    *)
(* Nothing limits a plugin.                                                 *)
FairSpec == Spec /\ WF_vars(GenStep) /\ WF_vars(ProcStep)

(* The same, with plugins that all return. *)
PluginsReturnSpec == FairSpec /\ WF_vars(PluginReturns)
-----------------------------------------------------------------------------
(* Properties *)

(* When gen.py reads an exit status that makes it sleep or update, quit.txt *)
(* holds that very command, complete and sent by a master: the last one of  *)
(* a poll wins in both places, and /QUIT in between changes neither         *)
(* (hakuMind.c 560-603, main.c 225).                                        *)
ExitMatchesQuitFile ==
  (proc = "down" /\ rtCode \in {"sleep", "update"}) =>
    /\ quitFile = Written(rtCode, order.ev)
    /\ order.by = "command"
    /\ order.ev.user \in Masters

(* gen.py ends with "Quit gen" only for a master's last command, a /QUIT    *)
(* request not preceded by a command, or a server that could not start      *)
(* (gen.py 87-89, server.c 146-155).                                        *)
GenQuitsForCause ==
  gen = "quit" =>
    /\ order.flag = "quit"
    /\ \/ order.by = "command" /\ order.ev.user \in Masters
                               /\ quitFile = Written("quit", order.ev)
       \/ order.by = "request" /\ order.ev.kind = "quit"
       \/ order.by = "bind"

(* A process gen.py starts after a sleep or an update tells exactly the     *)
(* chat of the command that caused it, unless that command cannot be read   *)
(* back or answered (hakuMind.c 81-95).                                     *)
Wakes(why, f) ==
  woken = why =>
    announced' = IF Answerable(order.ev) THEN Written(f, order.ev) ELSE NoNotice
WakeNotice == [][Awake => Wakes("slept", "sleep") /\ Wakes("updated", "update")]_vars

(* A sender on the block list starts no plugin and stops nothing through    *)
(* the ordinary name, whatever was read before (hakuMind.c 199, 495).       *)
BlockedIgnored ==
  (cur # NoEvent /\ cur.user \in Blocked) =>
    /\ proc # "plugin"
    /\ proc = "stopfile" => cur.call = "zousu" /\ cur.user \in Masters

(* Once the loop was told to stop, the process ends: the reads left in the  *)
(* poll are handled, none is added (server.c 50-55).                        *)
StopObeyed == (stop = 1) ~> (proc = "down")

(* A process that ends with the sleep status is followed by another.        *)
SleepWakes == (proc = "down" /\ rtCode = "sleep") ~> (proc = "init")
-----------------------------------------------------------------------------
(* What the texts of the program say and the program does not do *)

(* "Upgrade finished" is said after an upgrade, "woken from sleep" after a  *)
(* sleep (the replies of hakuMind.c 90-91).                                 *)
NoticeIsTrue ==
  /\ announced.flag = "update" => woken = "updated"
  /\ announced.flag = "sleep" => woken = "slept"

(* An update ends with the bot being started again (gen.py 156, 161).       *)
UpdateRestarts == (gen = "updating") ~> (proc = "init")

(* Events are parsed in a thread of their own (README.md 78): a read never  *)
(* waits for the end of another event's plugin.                             *)
ReadsNotHeldUp == (batch # <<>>) ~> (batch = <<>>)
=============================================================================
