# Haku: a verification of c-hakuBot

c-hakuBot is a chat bot for the cqhttp gateway. `gen.py` starts the C process
`hakuBot`, waits for it to end, and acts on its exit status. The process serves
HTTP requests that carry chat events, answers them over HTTP, runs plugins named
in messages, and ends when a master tells it to sleep, quit or update. The TLA+
modules in this directory model that program; TLC checks them on small instances
and TLAPS proves the main invariants for every instance.

Contents: [inventory](#inventory) · [plan](#plan) · [modules](#modules) ·
[runs](#runs) · [fairness](#fairness) · [proofs](#proofs) · [findings](#findings) ·
[abstractions](#abstractions-and-what-is-not-modelled)

## Inventory

Everything in the process runs on one thread. What makes the system hard is not
threads but waiting: the thread waits inside a handler (for curl, for a plugin, for
a file) while requests queue up in the kernel, the process can die at every such
point, and what survives, `quit.txt` and the exit status, is written in two
different places and read by two different programs.

| component | state | operations | correct when |
|---|---|---|---|
| supervisor, `gen.py` | its place in the loop, the last exit status | start `hakuBot`; sleep, quit, update, retry | it sleeps or updates only for a master's command, ends only for a reason, and the bot comes back |
| process life, `main.c` | `quitFlag`, configuration | `global_init`, `awake_haku`, `new_server`, `haku_sleep`, `free_so_file_tree`, `return quitFlag` | every end has the right exit status and releases what was built |
| event loop, `server.c` | libuv loop and its `stop_flag`, the reads of a poll | `on_new_connection`, `on_reply`, `uv_stop` | a stop is obeyed, events are handled in order |
| message handler, `hakuMind.c` | `quit.txt`, masters and blocked users, wake time | `new_thread`, `catch_inside_command`, `parse_plugin_command`, `awake_haku` | only who may can stop the bot; the stop, the flag and the file agree |
| message counter, `hakuMind.c` | list of arrival times, head, tail, `messageNumPerSecond` | append (message), prune (heartbeat), `haku_sleep` | list well linked, count exact, nothing freed is followed |
| plugin loader, `plugin.c` | a trie laid out as a binary tree, each node with a `.so` or a python module | `open_plugin`, `free_so_file_tree` | a plugin is loaded once, answers only for its own name, and unknown names leave nothing behind |
| http and event parser, `hakuMind.c`, `json.c` | none between requests | `httpMsgToEvent`, `getJsonValue` | every request gives an event or an error |
| api and requests, `api.c`, `request.c` | server address and token, response buffer | `reply_message`, `getData`, list queries | the right chat is answered; the buffer holds the response |
| configuration, `main.c` | ports, index, tables of ids | `data_preload` | a bad file is reported |
| plugins, `pluginsrc/` | per plugin | `func`, `init_func`, `end_func` | per plugin |

Interactions: `gen.py` starts the process and reads its exit status; the process
writes `quit.txt`, which both `gen.py` (during an update) and the next process
(when it wakes) read; libuv calls `on_reply` for each read of a poll, and `on_reply`
calls `new_thread` on the same thread; `new_thread` calls the counter, the inside
commands, then the plugin loader and the plugin; replies go out with curl, which
waits up to 60 seconds. `quitFlag` is shared by `main`, which returns it, and
`catch_inside_command`, which sets it.

Hard behaviours, with their lines, are the `hazards` of `PROJECT.json`: a stop
handled in the middle of a poll's reads, a second stop in the same poll, a crash
between truncating and closing `quit.txt`, a `quit.txt` left by an earlier run, a
server that cannot bind, an exception during the update, a plugin that never
returns, a tail pointer into a freed node, a clock that steps back, a search that
fails among siblings, a prune that stops half way up, a freed node still linked.

## Plan

The modules, in the order of their importance; all of them are done.

1. **Life of the bot**: `Command` (who may do what) and `HakuLife` (supervisor,
   process, loop and `quit.txt` composed), with `HakuLifeProofs`.
2. **Message counter**: the abstract `FlowCounter`, `MessageWindow` that implements
   it, `MessageWindowProofs` with a proof of the refinement.
3. **Plugin loader**: the abstract `PluginTable`, `PluginTrie` that implements it,
   `PluginTrieProofs` (shape and strings) and `PluginTrieWalkProofs` (pruning, release
   and the refinement).
4. **Requests into events**: `HttpEvent`, with `HttpEventProofs`.
5. **Connections**: the abstract `EventFeed`, `ServerConn` that implements it,
   `ServerConnProofs` with a proof of the refinement.
6. **Start-up**: `Startup`, with `StartupProofs`.
7. **Calls of the gateway**: `ApiRequest`, with `ApiRequestProofs`.

What could still be added is a composition of `ServerConn` and `HttpEvent` byte by
byte, where a read's text is what the pieces of the wire make of it; `Understood` of
`ServerConn` is the abstraction of it.

## Modules

| module | models |
|---|---|
| `Command` | the decisions of `catch_inside_command` and `parse_plugin_command` for one message |
| `HakuLife` | `gen.py`'s loop, `main`, `new_server`, `new_thread`, `quit.txt` |
| `FlowCounter` | what the message counter promises (abstract) |
| `MessageWindow` | the list behind `messageNumPerSecond`, node by node |
| `PluginTable` | what the plugin loader promises (abstract) |
| `PluginTrie` | `open_plugin` and `free_so_file_node`, node by node |
| `HttpEvent` | `httpMsgToEvent` and `getJsonValue`, block by block, and the way through `quit.txt` |
| `EventFeed` | what the server promises its clients (abstract) |
| `ServerConn` | `server.c`: connections, handles, reads, replies, buffers |
| `Startup` | `gen.py` up to its loop and round it, `global_init` and `data_preload`, the tables of ids, the opening of the server |
| `ApiRequest` | the calls of `api.c` and `getData`, from the chat's number to the stored answer |
| `XProofs`, `PluginTrieWalkProofs` | the inductive invariants and theorems of `X` |
| `MCX` | small instances of `X` for TLC |

How they fit together: `Startup` ends where `HakuLife` begins (a process that serves);
`ServerConn` says which texts `new_thread` gets, `HttpEvent` what event each is,
`HakuLife` and `Command` what an event does, `MessageWindow` and `PluginTrie` what a
message, a heartbeat and a plugin's name do behind that, and `ApiRequest` how a
reply goes out. They share no variables because the code's parts share none but
`quitFlag` and `quit.txt` (both in `HakuLife`): everything runs on one thread and
each call returns before the next begins.

Operators named `X_Y` under a comment "Mutant" are plausible mistakes in the
definition `X` next to them. No specification uses them; putting one in the
place of `X` shows that the property it is listed with in `PROJECT.json` notices.

### Command

A message is a record of what the code tests: which of the bot's names the text
holds, which command words, whether it starts with the index character, whether a name
a plugin can have follows (`named`), who sent it. `Heard` and `Asks` are the two levels of
the if-else chain: the master name obeys any master, blocked or not; the ordinary name
refuses a blocked sender first; of several command words the first the chain tests counts.
`Stops(ev, f)` is the branch that calls `set_quit_flag(f)`. A blocked sender is refused
before the name is looked at.

### HakuLife

| variable | code |
|---|---|
| `gen`, `woken`, `rtCode` | `gen.py`: its place in the loop, why it started the process, `rtCode` |
| `proc` | where the thread of `hakuBot` waits: `init`, `awake`, `bind`, `loop` (poll), `read` (between two reads of a poll), `inside` (a built-in reply on its way), `stopfile` (`quit.txt` open, farewell on its way), `plugin`, `answer`, `leave`; `down` when there is no process |
| `quitFlag`, `stop` | `quitFlag` of `main.c`; libuv's `stop_flag` |
| `batch`, `cur` | reads the poll found ready and not yet handled; the event being handled |
| `uptime` | whether `time(NULL)` is still `wakeTime` (it is a divisor) |
| `quitFile` | `quit.txt`: absent, empty, or a first line and the event under it |
| `order`, `announced` | history: the stop this process obeys; the notice it sent on waking |

Each action runs from one wait to the next, so a crash (`Crash`) can fall on every
point where the code waits or where something outside the process changes:
before and after each part of the start, between two reads, during a reply,
during a plugin, and between `fopen` and `fclose` of `quit.txt`. `StopCommand`
truncates the file and sets the flag, `StopFileClosed` writes it and calls
`uv_stop`; since `uv_stop` only sets a flag, the rest of the batch is still
handled (`server.c` 50-55), including further stop commands and `/QUIT`.

### MessageWindow

Nodes are cells of a small heap: `alloc`, `next`, `time`. The process's pointers
are `listHead` (the sentinel), `listTail`, and `cur`, the loop variable of the two
loops. `Awake`, `ReceiveMessage` are one step each; a heartbeat is
`HeartbeatBegin`, one `PruneNode` for each node freed, `PruneDone`; `haku_sleep` is
`SleepBegin`, `SleepNode`..., `SleepDone`. The clock moves between any two steps,
backwards too when `ClockStepsBack` is set. `queue` is a history variable: the
nodes that ought to be on the list, in order.

### PluginTrie

Every node has `data`, `plug` (the two pointers `soFile` and `pyModule`), `RNode`
(first node for the next character), `LNode` (next node for the same character),
`FNode` (the node that links here, above or on its left). `open_plugin` is cut at
its loop iterations: `find`/`sibling` (the search), `insert`/`lastsib` (the new
nodes), then `Load` or `NoSuchPlugin`, then `prune`. `free_so_file_node` is
recursive; its frames are on `stack`. A plugin that it has closed and freed leaves its
pointer in the node (`Stale`). `spell` is a history variable: the string a
node stands for when it is made. A name may load as a `.so` in one attempt and as
python, or not at all, in another, because files come and go. When the heap is
used up `malloc` returns NULL and the caller follows the returned error code as a
pointer (`hakuMind.c` 514): `MallocFails` ends the process.

### HttpEvent

`stage` is the block `httpMsgToEvent` is in. A text is a record of what the code
compares: the lengths of method, path, protocol, header names and values, the
digits of a `Content-Length`, how many bytes follow the headers, how many of them the
JSON object takes, and for each member whether it is good, missing or of another
type. `held`, `headerNum`, `httpData` and `jsonData` are what is allocated; the number
freed on each way out comes from `headerNum`, as in the code. `Copied` and
`PathRefused` are the code's comparison of the path with the method's limit;
`ProtocolText` is what it then reads as the protocol. A `post_type` may be any string, the
word `QUIT` the handler uses for the path of that name among them. `StopCommand` writes a text down
and `ReadBack` parses it again, cut anywhere in its body, with nothing after the
cut that can be relied on.

### ServerConn and EventFeed

Each client has one connection. A request travels whole or as head and body; a read
takes what is there, up to the buffer, and is one reply and one call of
`new_thread`, which understands the first request of the text if all of it is there
(`Understood`). One iteration of the loop is `Poll` (the connections that can be read),
one callback for each, `CloseHandles`; `OnWrite` may report a write at any time, or never
if the client does not take its reply. A reset loses what has not arrived, which is any
end of what is on the wire. A handle is
`open`, `closing` after `uv_close`, `freed` by `on_close`. `EventFeed` says that
requests are handled in order, at most once, and none skipped but by clients in
`MaySkip`: those that do not wait for a reply before the next request, whose
requests may be run together or cut in two.

### Startup

`gen` is the place in `gen.py`, `stage` the place in `hakuBot`: opening the file, one
value for each setting in the order `data_preload` reads them, `main`, `attach`,
`server` (in `new_server`, before its bind) and `serves`. A bind or listen that fails ends
the process with the status of a quit (`BindFails`). `cause` is a history variable: how the
last process ended. What `gen.py` does with the end of a bot that served, its sleep or
update, is one state here (`rest`); `HakuLife` has it in full. A text of `config.json` is a record: whether it parses, whether it is longer
than the buffer, and the kind of each member; `gen.py` (`Loads`) and `data_preload`
(`Code`, `Entry`) check different things in it. `Value` has the error codes, and
`FailStatus` takes them modulo 256 as the shell does. The user may edit the file, build
and start again at any time.

### ApiRequest

`pc` goes through the two loops over the number (`digits`, `swap`), the loop over
names and values (`parms`), the transfer (`curl`) and the return. `url` holds the
names and values that are complete, `length` counts the characters with their
separators; a text is its length. `writeToString` appends each piece; a transfer
may fail after any of them.

## Runs

| run | question | instance |
|---|---|---|
| `haku_life` | Do exit status, `quit.txt`, order and notice agree, under every mixture of events? Does a blocked sender ever get through? Is every stop obeyed, does every sleep end in a new process? | 14 events, one for every outcome the handlers tell apart; polls of up to 3 reads |
| `message_window` | Is the list well formed and released, does it implement the counter, with a clock that may step back? Do its loops end? | sentinel and 3 messages, 5 instants, window 2; 162 thousand states |
| `plugin_trie` | Does the trie keep its shape and implement the table, over every sequence of names, loads, failures and crashes? Do its loops and the release end? | 4 cells, 5 names over 3 characters; 415 thousand states |
| `http_event` | Is every event complete and every way out clean? Is what the gateway sends understood, and read back as the same? | the limits of `hakuMind.h`; some 90 texts on both sides of every limit |
| `server_conn` | Is a handle alive as long as it is used, and freed in the end? Are requests handled in order, once, and all of the gateway's? | a client that waits and one that does not, 2 requests each, reads of up to 2 pieces, a stop in the last request of the second; 218 thousand states |
| `startup` | Does the bot serve what its file says? Is every failure of `global_init` tried again? Does a good file get served in the end, if the server can bind? | 15 texts, 3 defaults, tables of 2, 2 acts of the user |
| `api` | Is what is sent whole, is what is returned what came, does the call return? | the limits of the code but 6 characters for a number, chats of 0 to 9 digits and a negative one, 7 lengths of text, 3 pieces |
| `notice_stale`, `update_dies`, `reads_held_up`, `null_code` | one statement of the program each that TLC refutes, see [findings](#findings) | smaller versions of the above |

Why the bounds are enough:

- *Polls of 3*: the effect of one read on another goes through `stop`, `quitFlag`,
  `quitFile` and `order` only. Two stop commands with a `/QUIT` before, between or
  after them, and an ordinary event after a stop, fit in 3 reads; a process can go
  through any number of polls before. The theorems of `HakuLifeProofs` hold for any
  length.
- *Events*: the senders are a master, a master who is also blocked, an ordinary
  and a blocked user; there is a stop event of each flag, by each name, answerable
  and not, reportable by `gen.py` and not, and events with several command words
  (which the chain decides) or an index character as well.
- *List*: an empty list, one emptied by a prune, one pruned in part and one not
  at all need two messages; the third separates the first, a middle and the last.
  With a clock of 5 values and a window of 2 a node can be younger than, exactly at,
  or past the window. Again the theorems cover any size.
- *Trie*: four cells hold a root and three nodes: a row of two siblings under a node
  or three under the root, a name that extends another, and a prune
  that stops at a plugin, at a branch, at a sibling and at the root.
- *Texts of a request*: each limit is met with the last length that fits and the first
  that does not, the header table with one less, full and one more; for the
  members, each one missing or mistyped alone, in each kind of event.
- *Connections*: with two requests and a read of two pieces there are reads of half
  a request, one, one and a half, and two halves of different ones; the second
  client makes callbacks of one poll overlap. A stop in the last request of
  the second client leaves reads of the first in the same poll behind it.
- *Texts of `config.json`*: one for each check of `gen.py` and of `data_preload` that can go
  the other way; lists shorter than, as long as and longer than the tables, with
  a gap and without.
- *Calls*: numbers with no digit (zero, negative), one, an odd and an even number of them, and
  on both sides of the buffer for them; texts one below,
  at and one above the longest that fits, for a short and a long number.

Runs that check a temporal property use no symmetry. Deadlock is checked but in
`startup` (the user has done all they may and the bot is down for good) and
`server_conn` (the clients have sent all they may, or the loop has ended).

## Fairness

- `FairSpec` of `HakuLife`: weak fairness of `GenStep` and `ProcStep`. Both programs are
  ordinary processes that get scheduled; the waits inside `ProcStep` are for curl,
  which has a limit of 60 seconds (`request.c`), for files, and for `sleep`. There
  is no fairness for `Poll` (nobody has to send events), `PluginReturns`, `Crash`,
  `ManualStart` or `Tick`.
- `PluginsReturnSpec` adds weak fairness of `PluginReturns`. The code does *not*
  justify it, nothing limits a plugin's time, so it is a hypothesis of
  `StopObeyed` and `SleepWakes` in `haku_life`; run `reads_held_up` shows what happens without it.
- `MessageWindow` and `PluginTrie`: weak fairness of the steps inside a handler. The
  loops wait for nothing but files and plugin initialisation.
- `ServerConn`: weak fairness of `LoopStep`. The loop is scheduled while it has
  something to do, and `new_thread` is taken to return (as above, a hypothesis about
  plugins). Clients promise nothing: they may stop sending, stay silent in the middle
  of a request, leave, or never take a reply (`OnWrite` has no fairness).
- `Startup`: weak fairness of `GenStep` and `Preload`, and strong fairness of
  `ReadConfig`, because `InitFails` (python or curl may fail to start) can get in
  its way every time it is enabled; the hypothesis is that it does not do so for ever.
  Nothing is assumed of the user, and nothing of the port: a bind that fails is an end that
  `ServesInTheEnd` allows, because `gen.py` then leaves.
- `ApiRequest`: weak fairness of `Step`, the thread's own steps and the failure with
  which curl ends a transfer at its limits of 10 and 60 seconds (`request.c`). Nothing
  is assumed of the other end, `writeToString` and `Done`.

## Proofs

The theorems hold for every value of the constants
that satisfies the assumptions (`Events` any set of event records, any batch
length; any set of cells, any clock with integer values, clock steps back or not).

**HakuLife.** `TypeCorrect` is inductive as it is. The agreement of exit status,
file and order is not: what the supervisor reads when the process is down was
decided several steps before, by a process that may have had several orders. `IInv`
says for each place of the process what is settled there:

- while events are handled (and not inside a stop command), `quitFlag` is the
  flag of `order`, and if the order is a command, `quit.txt` holds it, complete;
  if there is no order yet, `stop` is 0;
- inside a stop command (`stopfile`) the flag and the order already belong to `cur`,
  while the file does not: this is the window a crash can hit, and then the
  exit status is none that `gen.py` acts on;
- at `leave` there is an order; after the end, `rtCode` tells which;
- from the end through `gen.py`'s sleep or update to the new process's `awake`,
  nothing touches `quit.txt` or the order.

From `IInv` follow `ExitAndFileAgree` (a sleep or update status comes with that
command of a master in `quit.txt`), `QuitHasCause` and, as an action property of
`Awake`, `NoticeAnswersOrder`. `BlockedStayIgnored` is inductive with the type
invariant.

**MessageWindow.** `WellLinked` speaks of the list between events; the steps of the
two loops break it. `IInv` adds that inside a loop the chain from `cur` on is the
rest of the queue, that the cells in use are exactly the sentinel and the nodes of
the queue, and that the tail is the last node of a nonempty queue, also while its
first nodes are being freed. Freeing the first node of a chain without touching the rest
(`FreeFirst`) is where distinctness of the nodes is needed. From it follow
`TypeCorrect` (the number is never negative), `StaysWellLinked`, `CountIsExact`,
`NothingDangles`, `SleepFreesAll`. With a clock that only goes forward the list is in the
order of its times (`OrderInv`), so the node the loop stops at is the oldest of
those left: no message a heartbeat leaves is `Window` old (`HeartbeatKeepsOnlyRecent`).

`ListCountsFlow` proves that the list implements `FlowCounter`, which keeps a sequence of
times and cuts it in one step where the code frees one node after the other. The
mapping shows the window a heartbeat leaves from its first step on (`Counting`), so the
steps of its loop are stutters. `CutExists` (a least index, by well-founded induction
on the numbers) says that there is one place where the loop stops: everything in
front of it is expired and the node at it is not. With a clock that steps back the
nodes behind it may be expired too, and both keep them.

**PluginTrie** (`PluginTrieProofs`: any set of cells, of characters and of names). Three
invariants, each on top of the one before:

- `TInv` adds to the types which pointers are set in which loop (`Places`); `TypeCorrect`.
- `SInv` adds the shape of the tree, on every node the loader can be at, and that the
  loader stands on a node of the tree. `NewNodeShape` and `PruneShape` are the two steps
  that change it: a node hung on an empty link, and a leaf taken away. The new
  node has no links of its own because the code clears them, and a link is cleared before
  the loop goes on to the node above. From it follows `StaysATree`.
- `NInv` adds `Standing`: the node the loader is at stands for the part of the name
  matched so far, and in a row of siblings differs from it in the last character
  only. That is what `NoSibling`'s fall back to `lastNode` and the index `i` have to
  agree on; without it nothing says that a new node gets the string it is hung
  for. From it follow `NamesAreSpelt` and `PluginsStayAtTheirNames`.

`PluginTrieWalkProofs` goes on from there:

- `LInv`: there is a set of nodes `S`, those this call has added, that hang one on the right
  of the other down to the node the loader is at; every node outside `S` has a plugin
  or leads to a node outside `S`. The prune takes `S` away from its end, and when
  it stops `S` has nothing without a way to a plugin left: `NoBranchStaysDead`.
- `WInv`: while the tree is freed, frame `k` of the recursion stands at a node whose string
  has `k - 1` characters, so no two frames are in the same row; a link to a freed node
  is a right link of a node the walk has passed and does not follow again. A plugin that is
  closed belongs to a node that has been passed (`ClosedInv`), so none is closed twice:
  `NothingDangles`.
- `OInv`: a node that is left hangs on one that is left or is the next of a frame. With no
  frame, every node would hang on another one; the nodes can be ranked along `FNode`, and
  the one of least rank cannot (`NoNodeLeft`): `EveryNodeFreed`.
- `UInv` adds what the search has made sure of: the nodes of the row that have been looked
  at (`Searched`), and when a node is added that no node stands for its string
  (`Absent`). That a row looked at to its end holds *all* the strings that continue the
  node above needs the rank again (`RowStart`). From it follow `StringsApart` and, with
  all of the above, `TrieLoadsOnce`: each step of the trie is one of `PluginTable` or none.

**HttpEvent** (`HttpEventProofs`: any limits, any set of texts). `HeapInv` counts what is held in
each block, which makes the number freed on every way out the number allocated
(`NothingStaysHeld`) and keeps the header table from being left (`TypeCorrect`).
`EventInv` says for each member still to be read which ones are there if there is no
error yet: `EventsAreComplete`. What a text must be to become an event is `Sound`: the
request line and the headers fit, the last `Content-Length` is that of the object
(`Says`), and the members of its type are good. Three invariants follow a text through the
blocks:

- `PassedInv`: what the blocks behind it have found to fit, and that the length found so far
  is the one the headers read so far say;
- `ReadInv`: an event with a type was read from a text that has it, and with no error
  every member it has is good in the text. This is the direction a test of good texts
  does not see: nothing is understood that should not be;
- `SoundInv`: a sound text meets no error, and every member still to be read is good.

From them follow `GatewayIsUnderstood` and, stronger than any run's property, that an event
without an error comes from exactly the sound texts and has their type
(`OnlySoundIsUnderstood`). `FileInv` carries this over a restart: what `StopCommand` wrote down is a
sound text, and what is read back is that text cut somewhere in its body, which is
`ReadBackIsSame`. `ParserRunsDown`: any text is parsed to an end in at most
`15 + HeaderNum` blocks.

The parser's branches that overlap are nested `IF`s in the model and not the guards of
a `CASE`: TLC takes the first guard that holds, as the code does, but the
language lets a `CASE` take any of them, and of such a definition nothing can be proved.

**ServerConn** (`ServerConnProofs`: any clients, numbers of requests, buffer). `HandlesStayAlive` and
`LeaksAreRequests` are inductive with the types. For the refinement `FeedInv` says that
the pieces on the wire are in the order they were sent and later than anything
handled, and that a patient client has at most one request on the way
(`OneOnTheWay`), which is why none of its requests is skipped. From it follows
`ServerFeedsInOrder`. The order of `EventFeed` as an invariant of the server itself is
`NoneTwiceNoneLost`: each request handled is one that was sent and later than the one
before, and what a patient client has sent is handled or still on the wire unless the
connection was reset.

**Startup** (`StartupProofs`: any texts, tables, defaults). `Read` says which settings hold what the
text says at each place of `data_preload`; `Tables` that the part of each table read so
far has the entries of the text and ends where they end; `Turns` that `gen.py` and the process
take turns, and which statuses go with which end: one of 0 only with a process that came to
`new_server`, one of a sleep or an update only with one that served. From them follow
`ServesItsFile` and, as an action property of `gen.py`'s loop, `FailedInitIsRetried`. That a
server that cannot bind is *not* tried again is part of what is stated. A
`config.json` whose members all have their types is read to the end with no error and no
pointer missing (`WellTypedIsRead`): nothing in `data_preload` refuses it.

**ApiRequest** (`ApiRequestProofs`: any limits, lengths and texts; any integers for chats, with no bound on
their digits: `DecimalAssumption` only says what decimal digits are). `TypeCorrect` says that
the digits stay in their buffer *if* the number has fewer than `QQ_ID_LEN` of them, which the
code does not look at. `DigitsInv` says that the digits found are the last ones back to
front; `SwapInv` that after `j` exchanges `j` digits at either end are in place and the ones
between are still turned round; `UrlInv` that what is written is the first pieces of the
call, and never reaches the limit but with an empty last value; `AnswerInv` that the buffer is the
pieces received, in order. From them follow `TypeCorrect`, `SentWhole` and `AnswerKept`.

**Things that come to an end.** The prover has no rule for fairness and ENABLED, so the liveness
properties stay with TLC. What they rest on is proved, for instances of any size: a
natural number that every step of the process lowers and no step of anything else
raises, while it is under way. With the fairness of the section above each of the
following is the argument for the property named with it.

| theorem | is the argument for | what goes down |
|---|---|---|
| `StopRunsDown` | `StopObeyed` | of a loop that was told to stop: four steps for each read left in the poll, then what is left of the one in hand |
| `LoopsRunDown` | `LoopsEnd` | the nodes left on the list |
| `LoaderRunsDown` | `LoaderReturns` | the nodes still to be reached from here, the characters left of the name, the nodes that could be pruned; while freeing, the nodes the walk has not come to and its frames |
| `CallRunsDown` | `CallReturns` | the digits, exchanges, parameters and pieces of the answer left |
| `StartRunsDown` | `ServesInTheEnd` | the settings and the entries of the two tables left |
| `ParserRunsDown` | (no run) | the headers and members left |

`LoaderRunsDown` is the one that needs an invariant: that a row is never walked in a
circle, and that the walk that frees comes to a node once, is the shape of the tree.

**Model-checked only.** The liveness properties `StopObeyed`, `SleepWakes`, `LoopsEnd`,
`LoaderReturns`, `HandlesFreed`, `RequestsHandled`, `ServesInTheEnd`, `CallReturns`: that a step is
taken at all, and for `SleepWakes`, `HandlesFreed` and `RequestsHandled` also the turns of several
actors it takes. Of `RequestsHandled` and `ServesInTheEnd` the safety half is proved
(`NoneTwiceNoneLost`, `WellTypedIsRead`). Every safety property of a run is stated by a theorem.

## Findings

1. `reads_held_up`: `src/README.md` 78 announces a parsing thread for every message;
   `on_reply` calls `new_thread` on the loop's thread, and a plugin that does not
   return holds up every later event.
2. `notice_stale`: `quit.txt` is never removed, so a process that was restarted after a
   crash, or by hand after a quit that wrote nothing, announces an old sleep or update.
3. `update_dies`: after an update `gen.py` always sends a report. If it has no chat to
   report to, or the gateway does not answer, the exception ends the supervisor
   and the bot is not started again.
4. `null_code`: when a master, a blocked user or the backlog in `config.json` has another type,
   `getJsonValue` gives no error code to show, and the line that prints it
   (`main.c` 99) follows a NULL pointer: the process dies before it says what is wrong.

Met while modelling, in the models as the code has them, without a run of their own:

- the limit of the path is compared with that of the method (`hakuMind.c` 280): a
  path of exactly 8 characters is refused, and one of the full length is not;
- a request without an event and with a path other than `/QUIT` leaves with no error and no
  type (`hakuMind.c` 468-473);
- `200 OK` is sent before the request is handled (`server.c` 43-50), so a client is told
  nothing of an error;
- the warning of a missing `INDEX` is overwritten by what `BACKLOG` gives (`main.c` 126-147);
- a server that cannot bind or listen ends with the status of a quit (`server.c` 146-155,
  `main.c` 225), so `gen.py` leaves instead of trying again (`BindFails` in `Startup` and
  `HakuLife`); what `uv_ip4_addr` says of the address is not looked at;
- no digit is counted when a chat's number is written into `QQ_ID_LEN` (16) bytes, and a
  number that is zero or negative is written as nothing (`api.c` 51-55, 84-88);
- `messageNumPerSecond` (`hakuMind.c` 11: "message num per second") counts the messages of
  the last minute and those since the last heartbeat, which the log reply shows;
- the list of a group's members is asked for with `user_id` and without the token
  (`api.c` 182);
- an address is cut at 62 characters (`api.c` 36);
- never freed: the read buffer of every request (`server.c` 59), the last token (`api.c`
  14-28), the URL and the answer of a call.

## Abstractions and what is not modelled

- *Events for text.* In `HakuLife` a request is the event it becomes (`HttpEvent` says which),
  and one that is no event is `bad`. One request leaves the
  event's type uninitialised with no error (`hakuMind.c` 468-473, body empty and path
  not `/QUIT`); the memory is a recycled allocation whose first bytes are the
  allocator's links, so it is taken to name none of the types, as `bad`.
- *Texts.* In `HttpEvent` and `ApiRequest` a text is its length and what the code compares in
  it; in `Startup` a text longer than the buffer is one whose object does not end within
  the first 1023 bytes. The cut of `quit.txt` is taken to fall in the body: the method,
  path and headers of a gateway fit in 4095 bytes.
- *Outside.* libuv, curl, the JSON library, python, the dynamic loader, the shell and the
  user appear as what this code sees of them. 139 stands for any death by a signal.
- *Numbers.* The digits of a chat are a sequence that may be longer than `QQ_ID_LEN`, written
  and read back all the same. A 64-bit number has at most 19 digits, 20 bytes with the
  end, and glibc's `malloc(16)` hands out 24, so on the platform the Makefile is for nothing
  else is written over; on another allocator it might be. That numbers have
  fewer digits than that, as the gateway's do, is assumed nowhere.
- *Names.* `strncpy` cuts the type and the name of an event, and the text of a message, at
  their fields (`hakuMind.c` 377-438). A type or name that is cut is longer than all those
  the code compares it with, so it is one of the others; the commands a text holds are
  those of what is left of it.
- *Errors that cannot come.* The branches of `getData` for a bad number of arguments, and for a
  failing `malloc`, are left out: no call of `api.c` takes the first, and the second is
  modelled only where its result is followed (`MallocFails`).
- *`quit.txt` read back.* An event whose text does not fit in the 4095 bytes
  read (`fits = FALSE`) cannot be answered. An empty file has no newline to find;
  what an uninitialised buffer may hold in its place is no stop line of this bot.
  When the text is longer than the stream's buffer a part of it may be in the file
  before `fclose` (`StopCommand`).
- *Missing return.* `global_init` ends without a `return` when all is well
  (`main.c` 173-175). As the Makefile compiles it (no optimisation) the value is
  the 0 that `data_preload` returned, so success is modelled as success. Another compiler
  or another option may leave something else there; no property speaks of that.
- *Uptime.* `uptime` turns from zero once and stays; a clock that steps back to exactly
  `wakeTime` later is left out.
- *Failures.* `fopen` returning NULL, a bad pointer, SIGFPE, a kill: all are `Crash`, a
  status `gen.py` does not know. `gen.py` itself is taken to end only by itself.
- *Heartbeats* change nothing in `HakuLife`; their work is `MessageWindow`'s.
- *Heap.* `free` resets the model's fields of a cell, so a use after free would show as
  a wrong value and as a pointer outside `alloc`; contents of freed memory are not
  modelled. A pointer to a freed plugin is (`Stale`).
- *Memory leaks* of strings and buffers (`parse_plugin_command` 500, `open_plugin` 112,
  `getData`) are outside these modules; `ServerConn` counts the read buffers.
- *Plugins* (`pluginsrc/`) are not modelled: web look-ups, the layout of their answers, and a
  calculator on floating-point numbers, which TLC does not have. What the bot relies on,
  that a plugin is loaded once, called, and returns or does not, is in `PluginTrie` and
  `HakuLife`.
