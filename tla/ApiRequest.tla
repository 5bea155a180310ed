---------------------------- MODULE ApiRequest ----------------------------
(***************************************************************************)
(* A call of api.c: the chat's number is turned into text, the request is   *)
(* put together name by value (getData), and curl hands over the answer in  *)
(* pieces (writeToString) until it is complete or the transfer fails.       *)
(***************************************************************************)
EXTENDS Integers, Sequences

CONSTANTS
  IdLen,        \* QQ_ID_LEN
  MaxParms,     \* MAX_PARMS_SIZE
  AddressSize,  \* MAX_ADDRESS_SIZE
  Chats,        \* numbers of users and groups
  Numbers,      \* those and what is left of them after some digits
  Decimal,      \* the digits of a number, none of one that is not positive
  Messages,     \* lengths of the texts to send, escaped
  HostLen, TokenLen,  \* lengths of "http://<host>:<port>/" and of the token
  Bytes, MaxChunk, MaxChunks,  \* the answer: bytes, bounds on its pieces
  ErrorText     \* what curl_easy_strerror says

(* Each call with the length of its path *)
Dir == [private |-> 16, group |-> 14, friends |-> 15, groups |-> 14, members |-> 21]
Replies == {"private", "group"}
Calls == DOMAIN Dir

(* The names and values of a call, in turn *)
Parameters ==
  [private |-> <<"access_token", "token", "user_id", "id", "message", "text", "auto_escape", "False">>,
   group |-> <<"access_token", "token", "group_id", "id", "message", "text", "auto_escape", "False">>,
   friends |-> <<"access_token", "token">>, groups |-> <<"access_token", "token">>,
   members |-> <<"user_id", "id">>]

Pieces ==
  {"access_token", "token", "user_id", "group_id", "id", "message", "text", "auto_escape", "False"}

ASSUME ApiAssumption ==
  /\ IdLen \in Nat \ {0} /\ MaxParms \in Nat /\ AddressSize \in 2..MaxParms
  /\ Messages \subseteq Nat /\ HostLen \in Nat /\ TokenLen \in Nat
  /\ MaxChunk \in Nat /\ MaxChunks \in Nat /\ ErrorText \in Seq(Bytes)
  /\ Numbers \subseteq Int /\ 0 \in Numbers /\ Chats \subseteq Numbers

ASSUME DecimalAssumption ==
  /\ Decimal \in [Numbers -> Seq(0..9)]
  /\ \A n \in Numbers :
       IF n > 0 THEN n \div 10 \in Numbers /\ Decimal[n] = Append(Decimal[n \div 10], n % 10)
                ELSE Decimal[n] = <<>>

VARIABLES
  pc,        \* "idle", "digits", "swap", "parms", "curl" or "over"
  fn, chat, msg,  \* the call: its chat and the length of its text
  qid,       \* what is left of the number
  id, j,     \* its digits so far; the loop that turns them round
  url,       \* the names and values that are complete
  length,    \* of urlFinal
  data, size,     \* respData->data and its allocated size, 0 for NULL
  received,  \* (history) the bytes curl handed over
  chunks,    \* (history) how often
  code       \* of the last call

call == <<fn, chat, msg>>
number == <<qid, id, j>>
request == <<url, length>>
answer == <<data, size, received, chunks>>
vars == <<pc, call, number, request, answer, code>>

Codes == {"NO_ERROR", "SEND_MESSAGE_ERROR", "MULTIPLE_ERRORS", "POINTER_NONEMPTY_ERROR"}

(* The digits written, and their end, are within the buffer of every number *)
(* that has fewer than QQ_ID_LEN digits; nothing keeps the others in it.    *)
DigitsFit == Len(Decimal[chat]) < IdLen => Len(id) < IdLen

TypeOK ==
  /\ pc \in {"idle", "digits", "swap", "parms", "curl", "over"}
  /\ fn \in Calls /\ chat \in Chats \union {0} /\ msg \in Messages \union {0}
  /\ qid \in Numbers /\ id \in Seq(0..9) /\ DigitsFit /\ j \in 0..Len(id)
  /\ url \in Seq(Pieces) /\ length \in 0..MaxParms + 1
  /\ data \in Seq(Bytes) /\ size \in Nat /\ (size > 0 => Len(data) < size) /\ (size = 0 => data = <<>>)
  /\ received \in Seq(Bytes) /\ chunks \in 0..MaxChunks
  /\ code \in Codes

Init ==
  /\ pc = "idle" /\ fn = "friends" /\ chat = 0 /\ msg = 0 /\ qid = 0 /\ id = <<>> /\ j = 0
  /\ url = <<>> /\ length = 0 /\ data = <<>> /\ size = 0 /\ received = <<>> /\ chunks = 0
  /\ code = "NO_ERROR"
-----------------------------------------------------------------------------
(* api.c *)

(* snprintf into the MAX_ADDRESS_SIZE - 1 bytes of get_url *)
AddressLen(f) ==
  IF HostLen + Dir[f] < AddressSize - 1 THEN HostLen + Dir[f] ELSE AddressSize - 2

(* A call with a chat begins with its number, one without with the request; *)
(* its variables are new.                                                   *)
Begin(f, c, m) ==
  /\ pc = "idle" /\ pc' = IF f \in {"friends", "groups"} THEN "parms" ELSE "digits"
  /\ fn' = f /\ chat' = c /\ msg' = m
  /\ qid' = c /\ id' = <<>> /\ j' = 0
  /\ url' = <<>> /\ length' = AddressLen(f)
  /\ data' = <<>> /\ size' = 0 /\ received' = <<>> /\ chunks' = 0
  /\ UNCHANGED code

(* reply_message: to the group of a group's event, to the sender of a       *)
(* private one, to nobody otherwise.                                        *)
Reply ==
  \E name \in Replies, user \in Chats, group \in Chats, m \in Messages :
    Begin(name, IF name = "group" THEN group ELSE user, m)

Refused(c) == pc = "idle" /\ code' = c /\ UNCHANGED <<pc, call, number, request, answer>>
ReplyRefused == Refused("MULTIPLE_ERRORS")

GetList == Begin("friends", 0, 0) \/ Begin("groups", 0, 0) \/ \E c \in Chats : Begin("members", c, 0)

(* The caller's pointer is not NULL. *)
ListRefused == Refused("POINTER_NONEMPTY_ERROR")

(* Mutant: the loop goes on at zero. *)
More_Zero == qid >= 0
More == qid > 0

Digit ==
  /\ pc = "digits" /\ More
  /\ id' = Append(id, qid % 10) /\ qid' = qid \div 10
  /\ UNCHANGED <<pc, call, j, request, answer, code>>

DigitsEnd ==
  /\ pc = "digits" /\ ~More /\ pc' = "swap"
  /\ UNCHANGED <<call, number, request, answer, code>>

Half == Len(id) \div 2

Swap ==
  /\ pc = "swap" /\ j < Half
  /\ id' = [id EXCEPT ![j + 1] = id[Len(id) - j], ![Len(id) - j] = id[j + 1]]
  /\ j' = j + 1
  /\ UNCHANGED <<pc, call, qid, request, answer, code>>

SwapEnd ==
  /\ pc = "swap" /\ ~(j < Half) /\ pc' = "parms"
  /\ UNCHANGED <<call, number, request, answer, code>>
-----------------------------------------------------------------------------
(* request.c *)

LenOf(piece) ==
  CASE piece = "token" -> TokenLen [] piece = "id" -> Len(id) [] piece = "text" -> msg
    [] piece = "access_token" -> 12 [] piece = "user_id" -> 7 [] piece = "group_id" -> 8
    [] piece = "message" -> 7 [] piece = "auto_escape" -> 11 [] piece = "False" -> 5

Unwritten == Len(url) < Len(Parameters[fn])
Piece == Parameters[fn][Len(url) + 1]

(* With its '?', '&' or '=' before it, and the check after each character. *)
Fits == LenOf(Piece) = 0 \/ length + 1 + LenOf(Piece) <= MaxParms

Write ==
  /\ pc = "parms" /\ Unwritten /\ Fits
  /\ url' = Append(url, Piece) /\ length' = length + 1 + LenOf(Piece)
  /\ UNCHANGED <<pc, call, number, answer, code>>

Ends(c) == pc' = "over" /\ code' = c

(* Mutant: the loop is left and what fits is sent. *)
OutOfRange_Sends == pc' = "curl" /\ UNCHANGED code
(* OUT_OF_RANGE_ERROR, which the caller turns into its own *)
OutOfRange == Ends("SEND_MESSAGE_ERROR")

TooLong ==
  /\ pc = "parms" /\ Unwritten /\ ~Fits /\ OutOfRange
  /\ UNCHANGED <<call, number, request, answer>>

(* curl_easy_init, which may fail *)
Connect ==
  /\ pc = "parms" /\ ~Unwritten
  /\ \/ pc' = "curl" /\ UNCHANGED code
     \/ Ends("SEND_MESSAGE_ERROR")
  /\ UNCHANGED <<call, number, request, answer>>

(* Mutant: each piece is written to the start of the buffer. *)
Stored_Start(piece) == piece
Stored(piece) == data \o piece

writeToString ==
  /\ pc = "curl" /\ chunks < MaxChunks /\ chunks' = chunks + 1
  /\ \E n \in 0..MaxChunk : \E piece \in [1..n -> Bytes] :
       /\ size' = n + Len(data) + 5
       /\ data' = Stored(piece)
       /\ received' = received \o piece
  /\ UNCHANGED <<pc, call, number, request, code>>

Done ==
  /\ pc = "curl" /\ Ends("NO_ERROR")
  /\ UNCHANGED <<call, number, request, answer>>

(* Mutant: curl is given no time limit. *)
GivesUp_Not == FALSE
(* The transfer takes 60 s, the connection 10 s, or anything else is wrong. *)
GivesUp == pc = "curl"

(* The error's text takes the place of what had been received. *)
Fails ==
  /\ GivesUp /\ Ends("SEND_MESSAGE_ERROR")
  /\ data' = ErrorText /\ size' = Len(ErrorText) + 1
  /\ UNCHANGED <<call, number, request, received, chunks>>

Return ==
  /\ pc = "over" /\ pc' = "idle"
  /\ UNCHANGED <<call, number, request, answer, code>>
-----------------------------------------------------------------------------
Call == Reply \/ ReplyRefused \/ GetList \/ ListRefused
Step ==
  \/ Digit \/ DigitsEnd \/ Swap \/ SwapEnd \/ Write \/ TooLong \/ Connect \/ Fails \/ Return
Next == Call \/ Step \/ writeToString \/ Done

Spec == Init /\ [][Next]_vars

(* The thread goes on and curl's limits hold; the other end promises        *)
(* nothing.                                                                 *)
FairSpec == Spec /\ WF_vars(Step)
-----------------------------------------------------------------------------
Sent == pc = "curl" \/ (pc = "over" /\ code = "NO_ERROR")

(* A request that is sent has every parameter of its call in full and the   *)
(* decimal digits of its chat, none for one that is not positive: a text    *)
(* that is too long is refused as a whole, never cut (api.c 51-60,          *)
(* request.c 45-74).                                                        *)
WholeRequest ==
  Sent =>
    /\ url = Parameters[fn]
    /\ fn \notin {"friends", "groups"} => id = Decimal[chat]

(* "store data in respData" (README.md 33): what a call without an error    *)
(* returns is all the bytes received, in order, and the text of the error   *)
(* and nothing of them otherwise (request.c 8-26, 91-100).                  *)
AnswerStored ==
  /\ Sent => data = received
  /\ pc = "over" /\ code # "NO_ERROR" => data \in {<<>>, ErrorText}

(* A call returns, whatever the other end does. *)
CallReturns == pc # "idle" ~> pc = "idle"
===========================================================================
