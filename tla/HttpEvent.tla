----------------------------- MODULE HttpEvent -----------------------------
(***************************************************************************)
(* httpMsgToEvent (hakuMind.c) with getJsonValue (json.c): the text of one  *)
(* read is scanned into method, path, protocol, headers and body, and the   *)
(* members of the body fill an event.  One step is one of its blocks; a     *)
(* loop over characters is one step, the loop over headers takes one step   *)
(* a header.  A stop command's text is kept in quit.txt and parsed again.   *)
(***************************************************************************)
EXTENDS Naturals, Sequences

CONSTANTS
  MethodLen, PathLen, ProtocolLen,        \* HTTP_METHOD_LEN, ...
  HeaderNum, HeaderLen, HeaderDataLen,    \* HTTP_HEADER_NUM, ...
  Requests    \* texts: see Text

States == {"good", "missing", "mistyped"}
MessageMembers == <<"message_type", "raw_message", "self_id", "user_id", "time">>
MetaMembers == <<"meta_event_type", "interval", "self_id", "time">>
Members == {"post_type", "message_type", "raw_message", "self_id", "user_id", "time",
            "group_id", "meta_event_type", "interval"}
Types == {"message", "meta_event", "other"}
Chats == {"private", "group", "other"}

(* A header: lengths of its name and value, the digits of a Content-Length  *)
(* (none in another header), and whether a blank follows the colon.         *)
Headers == [name: Nat, data: Nat, digits: Seq(0..9), blank: BOOLEAN]

(* A text: lengths of its tokens; whether the path is /QUIT; the number of  *)
(* bytes that follow the headers and, of those, of the JSON object they     *)
(* begin with (0: none), what its members are and what two of them say.  A  *)
(* post_type of "QUIT" is what new_thread takes for the path /QUIT.         *)
Text == [method: {"GET", "POST", "other"}, length: Nat, path: Nat, quit: BOOLEAN,
         protocol: Nat, headers: Seq(Headers), body: Nat,
         object: Nat, is: [Members -> States], type: Types \union {"QUIT"}, name: Chats]

ASSUME LimitsAssumption ==
  /\ {MethodLen, PathLen, ProtocolLen, HeaderNum, HeaderLen, HeaderDataLen} \subseteq Nat \ {0}
  /\ Requests \subseteq Text

Errors == {"UNKOWN_METHOD", "METHOD_LENGTH_EXCEED", "PATH_LENGTH_EXCEED",
           "PROTOCOL_LENGTH_EXCEED", "HEADER_PARSE_ERROR", "DATA_PARSE_ERROR",
           "JSON_PARSE_ERROR", "NO_SUCH_MEMBER_ERROR", "MULTIPLE_ERRORS",
           "POINTER_NONEMPTY_ERROR"}

Digits == Seq(0..9)
strToInt[d \in Digits] ==
  IF d = <<>> THEN 0 ELSE 10 * strToInt[SubSeq(d, 1, Len(d) - 1)] + d[Len(d)]

(* The character after the colon is skipped, whatever it is. *)
ValueOf(h) == strToInt[IF h.blank THEN h.digits ELSE Tail(h.digits)]

Announced(r) == {0} \union {ValueOf(r.headers[k]) : k \in 1..Len(r.headers)}

VARIABLES
  stage,      \* the block the parser is in; "idle": no call
  msg,        \* the text
  from,       \* who calls: new_thread ("socket") or awake_haku ("file")
  event,      \* *newEvent: its type, name and which members are set
  error,      \* newEvent->error
  headerNum,  \* headers parsed
  held,       \* pairs of header strings malloc'd and not freed
  dataLen,    \* value of Content-Length
  httpData,   \* the copy of the body: "none" (NULL), "text" or "stale"
  jsonData,   \* jsonData is not NULL
  todo,       \* members still to be read
  file        \* quit.txt: the text, and (history) the event it was

heap == <<headerNum, held, httpData, jsonData>>
vars == <<stage, msg, from, event, error, headerNum, held, dataLen, httpData, jsonData,
          todo, file>>

Events == [type: Types \union {"QUIT", "unset"}, name: Chats \union {"unset"},
           has: SUBSET Members]
Unset == [type |-> "unset", name |-> "unset", has |-> {}]

Stages == {"method", "path", "protocol", "headers", "body", "post_type", "members", "free"}

TypeOK ==
  /\ stage \in Stages \union {"idle", "done"}
  /\ msg \in Text /\ from \in {"socket", "file"}
  /\ event \in Events /\ error \in Errors \union {"NO_ERROR"}
  /\ headerNum \in 0..HeaderNum /\ held \in 0..HeaderNum
  /\ dataLen \in Announced(msg) /\ httpData \in {"none", "text", "stale"} /\ jsonData \in BOOLEAN
  /\ todo \in Seq(Members)
  /\ file \in [text: Text, event: Events]

Init ==
  /\ stage = "idle" /\ msg \in Requests /\ from = "socket"
  /\ event = Unset /\ error = "NO_ERROR"
  /\ headerNum = 0 /\ held = 0 /\ dataLen = 0 /\ httpData = "none" /\ jsonData = FALSE
  /\ todo = <<>> /\ file = [text |-> msg, event |-> Unset]

Goes(f, t) ==
  /\ stage = f /\ stage' = t
  /\ UNCHANGED <<msg, from, file>>

Refuse(f, code) ==
  /\ Goes(f, "done")
  /\ error' = code
  /\ UNCHANGED <<event, dataLen, todo>>

(* new_thread or awake_haku calls: newEvent is malloc'd, only error is set. *)
Call(text, who) ==
  /\ stage = "idle" /\ stage' = "method"
  /\ msg' = text /\ from' = who
  /\ event' = Unset /\ error' = "NO_ERROR"
  /\ headerNum' = 0 /\ held' = 0 /\ dataLen' = 0 /\ httpData' = "none" /\ jsonData' = FALSE
  /\ todo' = <<>>
  /\ UNCHANGED file

NewRequest == \E r \in Requests : Call(r, "socket")

(* awake_haku parses the first 4095 bytes of quit.txt, which may end        *)
(* anywhere in the body; what follows them is not initialised.              *)
ReadBack ==
  /\ file.event # Unset
  /\ \E n \in 0..file.text.body : Call([file.text EXCEPT !.body = n], "file")
-----------------------------------------------------------------------------
(* The request line *)

MethodFits == msg.length < MethodLen

Method ==
  /\ Goes("method", "path") /\ MethodFits /\ msg.method # "other"
  /\ UNCHANGED <<event, error, heap, dataLen, todo>>

BadMethod ==
  /\ \/ ~MethodFits /\ Refuse("method", "METHOD_LENGTH_EXCEED")
     \/ MethodFits /\ msg.method = "other" /\ Refuse("method", "UNKOWN_METHOD")
  /\ UNCHANGED heap

(* The loop copies at most PathLen characters; what it compares the number  *)
(* it copied with is the limit of the method.                               *)
Copied == IF msg.path < PathLen THEN msg.path ELSE PathLen

(* Mutant: the path is compared with its own limit and one is missing. *)
PathRefused_Short == Copied >= PathLen - 1
PathRefused == Copied = MethodLen

Path ==
  /\ Goes("path", "protocol") /\ ~PathRefused
  /\ UNCHANGED <<event, error, heap, dataLen, todo>>

BadPath == PathRefused /\ Refuse("path", "PATH_LENGTH_EXCEED") /\ UNCHANGED heap

(* The rest of a path that was not copied is taken for the protocol. *)
ProtocolText == IF msg.path > PathLen THEN msg.path - PathLen + 1 + msg.protocol ELSE msg.protocol

Protocol ==
  /\ Goes("protocol", "headers") /\ ProtocolText < ProtocolLen
  /\ UNCHANGED <<event, error, heap, dataLen, todo>>

BadProtocol ==
  /\ ProtocolText >= ProtocolLen
  /\ Refuse("protocol", "PROTOCOL_LENGTH_EXCEED")
  /\ UNCHANGED heap
-----------------------------------------------------------------------------
(* Headers and body *)

(* Mutant: the table is filled to one past its end. *)
InTable_Past == headerNum <= HeaderNum
InTable == headerNum < HeaderNum

AtHeader == headerNum < Len(msg.headers) /\ InTable
This == msg.headers[headerNum + 1]
HeaderFits(h) == h.name < HeaderLen /\ h.data < HeaderDataLen

Header ==
  /\ Goes("headers", "headers") /\ AtHeader /\ HeaderFits(This)
  /\ headerNum' = headerNum + 1 /\ held' = held + 1
  /\ dataLen' = IF This.digits = <<>> THEN dataLen ELSE ValueOf(This)
  /\ UNCHANGED <<event, error, httpData, jsonData, todo>>

(* Mutant: the header that does not fit is not counted. *)
Reached_Not == headerNum
Reached == headerNum + 1

(* free of the first n pairs of strings *)
FreeHeaders(n) == held' = held - n

(* A name or a value too long: both strings of this header are malloc'd. *)
HeaderTooLong ==
  /\ AtHeader /\ ~HeaderFits(This)
  /\ Refuse("headers", "HEADER_PARSE_ERROR")
  /\ headerNum' = Reached
  /\ held' = held + 1 - headerNum'
  /\ UNCHANGED <<httpData, jsonData>>

(* The loop has filled the table, whether or not a header is left. *)
TooManyHeaders ==
  /\ ~InTable
  /\ Refuse("headers", "HEADER_PARSE_ERROR")
  /\ FreeHeaders(headerNum)
  /\ UNCHANGED <<headerNum, httpData, jsonData>>

HeadersEnd ==
  /\ Goes("headers", "body")
  /\ InTable /\ headerNum = Len(msg.headers)
  /\ UNCHANGED <<event, error, heap, dataLen, todo>>

(* The body is copied up to dataLen.  Past its last byte the buffer holds   *)
(* what the memory held before, which may go on without a NUL.              *)
Body ==
  /\ Goes("body", "post_type")
  /\ httpData' = IF dataLen = 0 THEN "none" ELSE IF dataLen <= msg.body THEN "text" ELSE "stale"
  /\ UNCHANGED <<event, error, headerNum, held, dataLen, jsonData, todo>>

BodyEnds ==
  /\ dataLen > msg.body
  /\ Refuse("body", "DATA_PARSE_ERROR")
  /\ FreeHeaders(headerNum)
  /\ UNCHANGED <<headerNum, httpData, jsonData>>
-----------------------------------------------------------------------------
(* The event *)

(* What getJsonValue returns for member m.  The copy parses when it is      *)
(* exactly the object: not cut short, not with other bytes behind it.       *)
getJsonValue(m) ==
  IF jsonData THEN "POINTER_NONEMPTY_ERROR"
  ELSE IF httpData # "text" \/ dataLen # msg.object THEN "JSON_PARSE_ERROR"
  ELSE CASE msg.is[m] = "good"     -> "NO_ERROR"
         [] msg.is[m] = "missing"  -> "NO_SUCH_MEMBER_ERROR"
         [] msg.is[m] = "mistyped" -> "MULTIPLE_ERRORS"

(* A result is malloc'd also for most errors. *)
Allocates(m) == getJsonValue(m) # "MULTIPLE_ERRORS"

(* Mutant: jsonData is freed but keeps pointing there. *)
JsonFreed_Kept(m) == jsonData' = Allocates(m)
JsonFreed(m) == jsonData' = FALSE

PostType ==
  /\ Goes("post_type", "members")
  /\ getJsonValue("post_type") = "NO_ERROR"
  /\ event' = [event EXCEPT !.type = msg.type]
  /\ JsonFreed("post_type")
  /\ todo' = CASE msg.type = "message" -> MessageMembers
               [] msg.type = "meta_event" -> MetaMembers
               [] OTHER -> <<>>
  /\ UNCHANGED <<error, headerNum, held, dataLen, httpData>>

(* No post_type: the request for /QUIT, or nothing; the result is not freed. *)
NoPostType ==
  /\ Goes("post_type", "free")
  /\ getJsonValue("post_type") # "NO_ERROR"
  /\ event' = IF msg.quit THEN [event EXCEPT !.type = "QUIT"] ELSE event
  /\ error' = "NO_ERROR"
  /\ jsonData' = Allocates("post_type")
  /\ UNCHANGED <<headerNum, held, dataLen, httpData, todo>>

(* Mutant: a later member that is there resets the error. *)
ErrorAfter_Last(code) == code
ErrorAfter(code) == IF code = "NO_ERROR" THEN error ELSE code

(* strcmp(eventName, "group"), also when eventName was not set *)
IsGroup(name) == IF name = "unset" THEN BOOLEAN ELSE {name = "group"}

(* The event with what member m says.  strncpy cuts a name that is longer   *)
(* than its field: it is then none of those the code compares it with.      *)
With(m) ==
  LET good == getJsonValue(m) = "NO_ERROR"
  IN [event EXCEPT !.name = IF good /\ m \in {"message_type", "meta_event_type"} THEN msg.name
                            ELSE @,
                   !.has = IF good THEN @ \union {m} ELSE @]

(* The next member.  After the last of a message comes group_id, which is   *)
(* read for a group and 0 for any other chat.                               *)
Member ==
  LET m == Head(todo)
      last == m = "time" /\ event.type = "message"
  IN /\ Goes("members", "members") /\ todo # <<>>
     /\ error' = ErrorAfter(getJsonValue(m))
     /\ JsonFreed(m)
     /\ \E group \in IsGroup(With(m).name) :
          /\ event' = IF last /\ ~group THEN [With(m) EXCEPT !.has = @ \union {"group_id"}]
                      ELSE With(m)
          /\ todo' = IF last /\ group THEN <<"group_id">> ELSE Tail(todo)
     /\ UNCHANGED <<headerNum, held, dataLen, httpData>>

MembersEnd ==
  /\ Goes("members", "free") /\ todo = <<>>
  /\ UNCHANGED <<event, error, heap, dataLen, todo>>

FreeAll ==
  /\ Goes("free", "done")
  /\ FreeHeaders(headerNum)
  /\ httpData' = "none"
  /\ UNCHANGED <<event, error, headerNum, dataLen, jsonData, todo>>

Return ==
  /\ stage = "done" /\ stage' = "idle"
  /\ UNCHANGED <<msg, from, event, error, heap, dataLen, todo>>

(* The caller is done with the event. *)
Handled == Return /\ UNCHANGED file

(* Mutant: new_thread does not look at the error. *)
Usable_Any == event.type = "message"
Usable == error = "NO_ERROR" /\ event.type = "message"

(* new_thread finds a stop command in a message and writes its text down. *)
StopCommand ==
  /\ Return
  /\ from = "socket" /\ Usable
  /\ file' = [text |-> msg, event |-> event]
-----------------------------------------------------------------------------
Parse ==
  \/ Method \/ BadMethod \/ Path \/ BadPath \/ Protocol \/ BadProtocol
  \/ Header \/ HeaderTooLong \/ TooManyHeaders \/ HeadersEnd \/ Body \/ BodyEnds
  \/ PostType \/ NoPostType \/ Member \/ MembersEnd \/ FreeAll

Next == NewRequest \/ ReadBack \/ Parse \/ Handled \/ StopCommand

Spec == Init /\ [][Next]_vars
-----------------------------------------------------------------------------
(* Properties *)

(* A message or heartbeat without an error has every member its handler     *)
(* reads from this very request: an error is not lost when a later member   *)
(* is found (hakuMind.c 381-466).                                           *)
EventComplete ==
  (stage = "done" /\ error = "NO_ERROR") =>
    /\ event.type = "message" =>
         /\ event.has = {"message_type", "raw_message", "self_id", "user_id", "time", "group_id"}
         /\ event.name = msg.name
    /\ event.type = "meta_event" =>
         /\ event.has = {"meta_event_type", "interval", "self_id", "time"}
         /\ event.name = msg.name

(* Whichever way the parser returns it has freed the headers and the body;  *)
(* a result of getJsonValue is left only when there was no post_type.       *)
NothingHeld ==
  stage = "done" =>
    /\ held = 0 /\ httpData = "none"
    /\ jsonData => event.type \in {"QUIT", "unset"}

(* What the gateway sends: its lines within the limits, a complete body of  *)
(* the length it says, and every member an event of its type has.           *)
Complete(r) ==
  /\ r.method = "POST" /\ r.length < MethodLen
  /\ r.path < PathLen /\ r.path # MethodLen /\ r.protocol < ProtocolLen
  /\ Len(r.headers) < HeaderNum
  /\ \A k \in 1..Len(r.headers) : HeaderFits(r.headers[k]) /\ r.headers[k].blank
  /\ \E k \in 1..Len(r.headers) :
       /\ r.headers[k].digits # <<>> /\ strToInt[r.headers[k].digits] = r.object
       /\ \A j \in 1..Len(r.headers) \ {k} : r.headers[j].digits = <<>>
  /\ r.object \in 1..r.body
  /\ \A m \in Members : r.is[m] = "good"

(* Every event the gateway sends is understood as what it is.               *)
GatewayUnderstood ==
  (stage = "done" /\ Complete(msg)) => error = "NO_ERROR" /\ event.type = msg.type

(* What awake_haku reads back from quit.txt is the command that was written *)
(* down if the whole text was read; wherever it was cut, it is that command *)
(* or has an error or is no event, never another event (hakuMind.c 84-91,   *)
(* 588-596).                                                                *)
ReadBackSame ==
  ( /\ stage = "done" /\ from = "file"
    /\ msg = file.text \/ (error = "NO_ERROR" /\ event.type \in Types) )
  => error = "NO_ERROR" /\ event = file.event
=============================================================================
