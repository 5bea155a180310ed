------------------------------ MODULE Startup ------------------------------
(***************************************************************************)
(* From gen.py's first line to a running process: gen.py finds or writes    *)
(* config.json, checks it and starts hakuBot until it ends with the quit    *)
(* code; hakuBot reads the settings one by one (data_preload), attaches     *)
(* masters and blocked users and opens its server.  The user may write      *)
(* config.json and start gen.py again.                                      *)
(***************************************************************************)
EXTENDS Integers, Sequences

CONSTANTS
  MasterMax,  \* MASTER_NUM_MAX
  Files,      \* the texts config.json may hold: see Text
  Defaults,   \* what defaultJson of config.py may be, of Files or none
  None,       \* no file, no default
  MaxEdits    \* bound on what the user does

Strings == {"URL", "TOKEN", "INDEX"}
Numerals == {"PORT", "SEND_PORT", "BACKLOG"}
Members == Strings \union Numerals

(* What a member is: an integer ("low": no port), another number, a string. *)
Kinds == {"missing", "int", "low", "float", "string"}

(* A text: is it JSON, is it longer than CONFIG_FILE_LEN - 1 bytes, what    *)
(* are its members, and those called MASTER0, MASTER1, ... and BLOCK0, ...  *)
Text == [json: BOOLEAN, long: BOOLEAN, is: [Members -> Kinds],
         MASTER: Seq(Kinds), BLOCK: Seq(Kinds)]

(* initConfigData, which names no BACKLOG *)
InitConfig ==
  [json |-> TRUE, long |-> FALSE,
   is |-> [m \in Members |-> IF m = "BACKLOG" THEN "missing"
                             ELSE IF m \in Strings THEN "string" ELSE "int"],
   MASTER |-> <<"int">>, BLOCK |-> <<"int">>]

ASSUME StartupAssumption ==
  /\ MasterMax \in Nat \ {0} /\ MaxEdits \in Nat
  /\ Files \subseteq Text /\ InitConfig \in Files
  /\ None \notin Text /\ Defaults \subseteq Files \union {None}

Required == {"URL", "PORT", "SEND_PORT", "TOKEN"}
Lists == {"MASTER", "BLOCK"}

Value ==
  [NO_ERROR |-> 0, INIT_CONFIG |-> 1, MULTIPLE_ERRORS |-> -3, INIT_CONFIG_ERROR |-> -5,
   JSON_PARSE_ERROR |-> -17, NO_SUCH_MEMBER_ERROR |-> -18, CURL_GLOBAL_INIT_ERROR |-> -19,
   WARNING |-> -20, PYTHON_INIT_ERROR |-> -23]
Codes == DOMAIN Value

VARIABLES
  file,      \* config.json: a text or None
  default,   \* defaultJson
  built,     \* hakuBot is there
  edits,     \* what the user has done
  gen,       \* gen.py: "start", "first", "load", "waits" (for hakuBot), "rest" (it sleeps
             \* or updates), "again" or "ended"
  rtCode,    \* what the shell says of the last process
  cause,     \* how that process ended: see Causes
  stage,     \* hakuBot: "none" or a place in global_init or main
  text,      \* configData
  res,       \* res of data_preload, then of main
  got,       \* the settings that were read from text
  num,       \* mstNum and blkNum
  attached   \* masterNum and blockNum of hakuMind.c

userVars == <<default, built, edits>>
preload == <<text, res, got, num, attached>>
vars == <<file, userVars, gen, rtCode, cause, stage, preload>>

(* A history: no process has ended, or the last one is "absent" (there is   *)
(* no hakuBot), failed in global_init, died of a signal, could not bind or  *)
(* listen, or its server "returned" after it had served.                    *)
Causes == {"none", "absent", "init", "died", "bind", "returned"}

TypeOK ==
  /\ file \in Text \union {None} /\ default \in Text \union {None} /\ built \in BOOLEAN
  /\ edits \in 0..MaxEdits
  /\ gen \in {"start", "first", "load", "waits", "rest", "again", "ended"}
  /\ rtCode \in 0..255 /\ cause \in Causes
  /\ stage \in {"none", "open", "main", "attach", "server", "serves"} \union Members \union Lists
  /\ text \in Text /\ res \in Codes /\ got \subseteq Members
  /\ num \in [Lists -> 0..MasterMax] /\ attached \in [Lists -> 0..MasterMax]

Nobody == [list \in Lists |-> 0]

Init ==
  /\ file \in Files \union {None} /\ default \in Defaults /\ built \in BOOLEAN /\ edits = 0
  /\ gen = "start" /\ rtCode = 0 /\ cause = "none" /\ stage = "none"
  /\ text = InitConfig /\ res = "NO_ERROR" /\ got = {}
  /\ num = Nobody /\ attached = Nobody
-----------------------------------------------------------------------------
(* gen.py *)

(* What gen.py asks of a text: that the five members are there and the two  *)
(* ports are numbers in their range ("float" stands for one in the range).  *)
Loads(t) ==
  /\ t.json
  /\ \A m \in Required : t.is[m] # "missing"
  /\ Len(t.MASTER) > 0 /\ t.MASTER[1] # "missing"
  /\ \A m \in {"PORT", "SEND_PORT"} : t.is[m] \in {"int", "float"}

GenStarts ==
  /\ gen = "start" /\ gen' = IF file = None THEN "first" ELSE "load"
  /\ UNCHANGED <<file, userVars, rtCode, cause, stage, preload>>

(* No config.json: build if need be; "Where is haku?" *)
GenBuilds ==
  /\ gen = "first" /\ ~built
  /\ built' \in BOOLEAN /\ gen' = IF built' THEN "first" ELSE "ended"
  /\ UNCHANGED <<file, default, edits, rtCode, cause, stage, preload>>

UsesDefault == default # None /\ Loads(default)

GenWritesDefault ==
  /\ gen = "first" /\ built /\ UsesDefault
  /\ file' = default /\ gen' = "load"
  /\ UNCHANGED <<userVars, rtCode, cause, stage, preload>>

(* hakuBot is run once, which writes its own config.json; then gen.py ends. *)
GenAsksUser ==
  /\ gen = "first" /\ built /\ ~UsesDefault
  /\ stage' = "open" /\ gen' = "ended"
  /\ UNCHANGED <<file, userVars, rtCode, cause, preload>>

(* subprocess.call: the shell says 127 when there is no hakuBot.            *)
Calls ==
  /\ gen' = "waits"
  /\ \/ built /\ stage' = "open" /\ UNCHANGED rtCode
     \/ ~built /\ rtCode' = 127 /\ UNCHANGED stage
  /\ cause' = IF built THEN "none" ELSE "absent"
  /\ UNCHANGED <<file, userVars, preload>>

GenLoads == gen = "load" /\ Loads(file) /\ Calls

GenRefuses ==
  /\ gen = "load" /\ ~Loads(file) /\ gen' = "ended"
  /\ UNCHANGED <<file, userVars, rtCode, cause, stage, preload>>

(* The process has ended: gen.py quits, sleeps or updates, or tries again.  *)
GenGoes ==
  /\ gen = "waits" /\ stage = "none"
  /\ gen' = CASE rtCode = 0 -> "ended" [] rtCode \in {109, 110} -> "rest" [] OTHER -> "again"
  /\ UNCHANGED <<file, userVars, rtCode, cause, stage, preload>>

(* The sleep is over or the update is done; what an update does is in       *)
(* HakuLife, where requests.get may raise and end gen.py.                   *)
GenResumes ==
  /\ gen = "rest" /\ gen' \in {"again"} \union (IF rtCode = 110 THEN {"ended"} ELSE {})
  /\ UNCHANGED <<file, userVars, rtCode, cause, stage, preload>>

GenTriesAgain == gen = "again" /\ Calls

(* The user writes config.json at any time, has hakuBot built, or starts    *)
(* gen.py anew.                                                             *)
UserActs ==
  /\ edits < MaxEdits /\ edits' = edits + 1
  /\ \/ file' \in Files /\ UNCHANGED <<built, gen, cause>>
     \/ built' = TRUE /\ UNCHANGED <<file, gen, cause>>
     \/ /\ gen = "ended" /\ stage = "none" /\ gen' = "start" /\ cause' = "none"
        /\ UNCHANGED <<file, built>>
  /\ UNCHANGED <<default, rtCode, stage, preload>>
-----------------------------------------------------------------------------
(* hakuBot *)

At(s) == stage = s /\ UNCHANGED <<userVars, gen>>

(* The end of the process with what main or a signal returns. *)
Ends(how, status) == stage' = "none" /\ cause' = how /\ rtCode' = status

(* The variables of a process are new. *)
Fresh == got' = {} /\ num' = Nobody /\ attached' = Nobody

(* global_init may fail before any setting is read. *)
InitFails ==
  /\ At("open") /\ stage' = "main" /\ Fresh
  /\ res' \in {"PYTHON_INIT_ERROR", "CURL_GLOBAL_INIT_ERROR"}
  /\ UNCHANGED <<file, rtCode, cause, text>>

(* No file: initConfigData is written, or it cannot be.                     *)
WriteConfig ==
  /\ At("open") /\ file = None /\ stage' = "main" /\ Fresh
  /\ \/ res' = "INIT_CONFIG" /\ file' = InitConfig
     \/ res' = "INIT_CONFIG_ERROR" /\ UNCHANGED file
  /\ UNCHANGED <<rtCode, cause, text>>

ReadConfig ==
  /\ At("open") /\ file # None
  /\ text' = file /\ stage' = "URL" /\ res' = "NO_ERROR" /\ Fresh
  /\ UNCHANGED <<file, rtCode, cause>>

Parses(data) == data.json /\ ~data.long

getJsonValue(data, kind, good) ==
  CASE ~Parses(data) -> "JSON_PARSE_ERROR"
    [] Parses(data) /\ kind = "missing" -> "NO_SUCH_MEMBER_ERROR"
    [] Parses(data) /\ kind # "missing" /\ kind \notin good -> "MULTIPLE_ERRORS"
    [] OTHER -> "NO_ERROR"

Integers64 == {"int", "low"}
Code(m) == getJsonValue(text, text.is[m], IF m \in Strings THEN {"string"} ELSE Integers64)

After(m) == [URL |-> "PORT", PORT |-> "SEND_PORT", SEND_PORT |-> "TOKEN", TOKEN |-> "MASTER",
             INDEX |-> "BACKLOG", BACKLOG |-> "main"][m]

(* The four members that must be there: without one data_preload returns.   *)
Setting(m) ==
  /\ At(m) /\ res' = Code(m)
  /\ IF res' = "NO_ERROR" THEN stage' = After(m) /\ got' = got \union {m}
                          ELSE stage' = "main" /\ UNCHANGED got
  /\ UNCHANGED <<file, rtCode, cause, text, num, attached>>

(* What getJsonValue says of the n-th master or blocked user, from 0. *)
Entry(data, list, n) ==
  getJsonValue(data, IF n < Len(data[list]) THEN data[list][n + 1] ELSE "missing", Integers64)

(* Mutant: one more is read when the table is full. *)
Room_Past(list) == num[list] <= MasterMax
Room(list) == num[list] < MasterMax

NextEntry(list) ==
  /\ At(list) /\ Room(list) /\ Entry(text, list, num[list]) = "NO_ERROR"
  /\ num' = [num EXCEPT ![list] = @ + 1]
  /\ UNCHANGED <<file, rtCode, cause, stage, text, res, got, attached>>

(* The table is full, or the next is not there. *)
ListEnds(list) ==
  /\ At(list)
  /\ Room(list) => Entry(text, list, num[list]) \in {"NO_SUCH_MEMBER_ERROR", "JSON_PARSE_ERROR"}
  /\ stage' = IF list = "MASTER" THEN "BLOCK" ELSE "INDEX"
  /\ UNCHANGED <<file, rtCode, cause, text, res, got, num, attached>>

(* getJsonValue gives no result for a member of another type, and the       *)
(* message that is to show its code follows the NULL.                       *)
NullRead ==
  \/ \E list \in Lists : stage = list /\ Room(list) /\ Entry(text, list, num[list]) = "MULTIPLE_ERRORS"
  \/ stage = "BACKLOG" /\ Code("BACKLOG") = "MULTIPLE_ERRORS"

MessageDies ==
  /\ NullRead /\ Ends("died", 139)
  /\ UNCHANGED <<file, userVars, gen, preload>>

(* Without INDEX or BACKLOG there is a warning and the default stays.       *)
Optional(m) ==
  /\ At(m) /\ ~NullRead /\ stage' = After(m)
  /\ res' = IF Code(m) = "NO_ERROR" THEN "NO_ERROR" ELSE "WARNING"
  /\ got' = IF Code(m) = "NO_ERROR" THEN got \union {m} ELSE got
  /\ UNCHANGED <<file, rtCode, cause, text, num, attached>>

(* Mutant: a warning is an error. *)
MainGoes_Strict == res = "NO_ERROR"
MainGoes == res \in {"NO_ERROR", "WARNING"}

(* Mutant: main returns quitFlag after an error, too. *)
FailStatus_Quit == 0
FailStatus == Value[res] % 256

(* global_init falls off its end with data_preload's 0 in the register.     *)
Main ==
  /\ At("main") /\ MainGoes /\ stage' = "attach"
  /\ UNCHANGED <<file, rtCode, cause, text, res, got, num, attached>>

MainFails ==
  /\ At("main") /\ ~MainGoes /\ Ends("init", FailStatus)
  /\ UNCHANGED <<file, preload>>

(* Mutant: the loop goes to the end of the masters for both. *)
AttachAll_Masters == attached' = [list \in Lists |-> num["MASTER"]]
AttachAll == attached' = num

(* set_server_data, set_api_data, the two loops, awake_haku *)
Attach ==
  /\ At("attach") /\ stage' = "server" /\ AttachAll
  /\ UNCHANGED <<file, rtCode, cause, text, res, got, num>>

(* new_server: main looks at nothing it returns, and a server that cannot   *)
(* bind or listen (the port is in use, the URL is no address: what          *)
(* uv_ip4_addr says of it is not looked at) ends in quitFlag's 0.           *)
BindFails ==
  /\ At("server") /\ Ends("bind", 0)
  /\ UNCHANGED <<file, preload>>

Listens ==
  /\ At("server") /\ stage' = "serves"
  /\ UNCHANGED <<file, rtCode, cause, preload>>

(* new_server returns after a /QUIT, a sleep or an update, or the process   *)
(* crashes while it serves.                                                 *)
Over ==
  /\ At("serves")
  /\ Ends("died", 139) \/ \E status \in {0, 109, 110} : Ends("returned", status)
  /\ UNCHANGED <<file, preload>>
-----------------------------------------------------------------------------
GenStep ==
  \/ GenStarts \/ GenBuilds \/ GenWritesDefault \/ GenAsksUser \/ GenLoads \/ GenRefuses
  \/ GenGoes \/ GenResumes \/ GenTriesAgain
Preload ==
  \/ WriteConfig \/ ReadConfig \/ MessageDies \/ Main \/ MainFails \/ Attach
  \/ BindFails \/ Listens
  \/ \E m \in Required : Setting(m)
  \/ \E list \in Lists : NextEntry(list) \/ ListEnds(list)
  \/ \E m \in {"INDEX", "BACKLOG"} : Optional(m)
Next == GenStep \/ Preload \/ InitFails \/ Over \/ UserActs

Spec == Init /\ [][Next]_vars

(* gen.py and the process go on; a file there is read in the end although   *)
(* Python or curl may fail to start now and then.                           *)
FairSpec == Spec /\ WF_vars(GenStep) /\ WF_vars(Preload) /\ SF_vars(ReadConfig)
-----------------------------------------------------------------------------
(* A bot that opens its server has every setting it must have, and knows    *)
(* exactly the masters and blocked users of its config.json up to the first *)
(* gap or the end of its tables.                                            *)
SettingsFromFile ==
  stage \in {"server", "serves"} =>
    /\ Required \subseteq got
    /\ \A list \in Lists :
         /\ \A n \in 0..attached[list] - 1 : Entry(text, list, n) = "NO_ERROR"
         /\ attached[list] < MasterMax => Entry(text, list, attached[list]) = "NO_SUCH_MEMBER_ERROR"

(* After a hakuBot that is not there, a start that global_init refuses with *)
(* any of its codes, or a death, gen.py tries again: it leaves its loop     *)
(* only for a process that had its settings and came to new_server, and     *)
(* sleeps or updates only after one that served.  (A failed bind is one it  *)
(* leaves for: it has the status of a quit.)                                *)
InitFailureRetried ==
  [][gen = "waits" /\ gen' # "waits" =>
       /\ cause \in {"absent", "init", "died"} => gen' = "again"
       /\ gen' = "ended" => cause \in {"bind", "returned"} /\ Required \subseteq got
       /\ gen' = "rest" => cause = "returned"]_vars

(* A config.json in which every member is of its type.  BACKLOG may be      *)
(* missing, INDEX may be anything.                                          *)
WellTyped(t) ==
  /\ t # None /\ Loads(t) /\ ~t.long
  /\ t.is["URL"] = "string" /\ t.is["TOKEN"] = "string"
  /\ t.is["PORT"] = "int" /\ t.is["SEND_PORT"] = "int"
  /\ t.is["BACKLOG"] \in Integers64 \union {"missing"}
  /\ \A list \in Lists : \A n \in 1..Len(t[list]) : t[list][n] \in Integers64 \union {"missing"}

(* With such a file the bot is up in the end, whatever start-ups fail in    *)
(* global_init before, unless the server cannot bind or listen - then it    *)
(* stays down until gen.py is started anew - or the user puts another file  *)
(* in its place.                                                            *)
ServesInTheEnd ==
  gen = "load" /\ built /\ WellTyped(file)
    ~> stage = "serves" \/ cause = "bind" \/ ~WellTyped(file)

(* "Failed to get MASTER%d. Code: %ld": there is a code to show.            *)
CodeToShow == ~NullRead
===========================================================================
