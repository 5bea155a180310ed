--------------------------- MODULE HttpEventProofs ---------------------------
(***************************************************************************)
(* Proofs about HttpEvent for every limit and every set of texts: types,    *)
(* what is held, what an event without an error has, and that the gateway's *)
(* events are understood.                                                   *)
(***************************************************************************)
EXTENDS HttpEvent, Integers, TLAPS

Before == {"method", "path", "protocol", "headers", "body", "post_type"}

(* The pairs of strings held are the headers counted, until they are freed. *)
HeapInv ==
  /\ stage \in {"method", "path", "protocol"} => headerNum = 0
  /\ stage \in Stages => held = headerNum
  /\ stage = "done" => held = 0 /\ httpData = "none"
  /\ stage \in Before \ {"post_type"} => httpData = "none"
  /\ stage \in Before \union {"members"} => ~jsonData
  /\ stage \in {"free", "done"} => (jsonData => event.type \in {"QUIT", "unset"})

(* How far the members of a message have been read: what is still to come,  *)
(* and, without an error, what is there.                                    *)
MessageAt(t, h) == todo = t /\ (error = "NO_ERROR" => event.has = h /\ event.name = msg.name)

MessageInv ==
  \/ todo = <<"message_type", "raw_message", "self_id", "user_id", "time">> /\ event.has = {}
  \/ MessageAt(<<"raw_message", "self_id", "user_id", "time">>, {"message_type"})
  \/ MessageAt(<<"self_id", "user_id", "time">>, {"message_type", "raw_message"})
  \/ MessageAt(<<"user_id", "time">>, {"message_type", "raw_message", "self_id"})
  \/ MessageAt(<<"time">>, {"message_type", "raw_message", "self_id", "user_id"})
  \/ MessageAt(<<"group_id">>, {"message_type", "raw_message", "self_id", "user_id", "time"})
  \/ MessageAt(<<>>, {"message_type", "raw_message", "self_id", "user_id", "time", "group_id"})

MetaInv ==
  \/ todo = <<"meta_event_type", "interval", "self_id", "time">> /\ event.has = {}
  \/ MessageAt(<<"interval", "self_id", "time">>, {"meta_event_type"})
  \/ MessageAt(<<"self_id", "time">>, {"meta_event_type", "interval"})
  \/ MessageAt(<<"time">>, {"meta_event_type", "interval", "self_id"})
  \/ MessageAt(<<>>, {"meta_event_type", "interval", "self_id", "time"})

EventInv ==
  /\ stage \in Before => event = Unset
  /\ stage = "members" =>
       \/ event.type = "message" /\ MessageInv
       \/ event.type = "meta_event" /\ MetaInv
       \/ event.type \in {"other", "QUIT"} /\ todo = <<>>
  /\ (stage \in {"free", "done"} /\ error = "NO_ERROR") =>
       /\ event.type = "message" =>
            /\ event.has = {"message_type", "raw_message", "self_id", "user_id", "time", "group_id"}
            /\ event.name = msg.name
       /\ event.type = "meta_event" =>
            /\ event.has = {"meta_event_type", "interval", "self_id", "time"}
            /\ event.name = msg.name

(* The length the first n headers of hs say: that of the last header that   *)
(* has digits, 0 when none has.                                             *)
Says(hs, n, d) ==
  \/ d = 0 /\ \A k \in 1..n : hs[k].digits = <<>>
  \/ \E k \in 1..n : /\ hs[k].digits # <<>> /\ d = ValueOf(hs[k])
                     /\ \A j \in 1..n : j > k => hs[j].digits = <<>>

(* What the request line, the headers and post_type must be for an event.   *)
LineFits(r) ==
  LET copied == IF r.path < PathLen THEN r.path ELSE PathLen
      rest == IF r.path > PathLen THEN r.path - PathLen + 1 + r.protocol ELSE r.protocol
  IN /\ r.length < MethodLen /\ r.method # "other"
     /\ copied # MethodLen /\ rest < ProtocolLen

HeadersFit(r) ==
  Len(r.headers) < HeaderNum /\ \A k \in 1..Len(r.headers) : HeaderFits(r.headers[k])

Typed(r) ==
  /\ LineFits(r) /\ HeadersFit(r)
  /\ r.object \in 1..r.body /\ Says(r.headers, Len(r.headers), r.object)
  /\ r.is["post_type"] = "good"

(* The members an event of the text's type must have. *)
Needed(r) ==
  CASE r.type = "message" -> {"message_type", "raw_message", "self_id", "user_id", "time"}
                               \union (IF r.name = "group" THEN {"group_id"} ELSE {})
    [] r.type = "meta_event" -> {"meta_event_type", "interval", "self_id", "time"}
    [] OTHER -> {}

(* The texts that are understood. *)
Sound(r) == Typed(r) /\ \A m \in Needed(r) : r.is[m] = "good"

(* How much of the text has been found to fit. *)
PassedInv ==
  /\ stage \in Stages \ {"method"} => msg.length < MethodLen /\ msg.method # "other"
  /\ stage \in Stages \ {"method", "path"} => ~PathRefused
  /\ stage \in Stages \ {"method", "path", "protocol"} =>
       /\ ProtocolText < ProtocolLen
       /\ headerNum <= Len(msg.headers) /\ Says(msg.headers, headerNum, dataLen)
       /\ \A k \in 1..headerNum : HeaderFits(msg.headers[k])
  /\ stage \in {"method", "path", "protocol"} => headerNum = 0 /\ dataLen = 0
  /\ stage \in {"body", "post_type", "members", "free"} =>
       headerNum = Len(msg.headers) /\ headerNum < HeaderNum
  /\ (stage \in {"post_type", "members", "free"} /\ httpData = "text") =>
       dataLen # 0 /\ dataLen <= msg.body

(* An event that has a type was read from a text that has one; a member is  *)
(* there only if the text has it, or it is the group of no group.           *)
ReadInv ==
  /\ (stage \in {"members", "free", "done"} /\ event.type \in Types) =>
       /\ Typed(msg) /\ event.type = msg.type
       /\ error = "NO_ERROR" =>
            \A m \in event.has : msg.is[m] = "good" \/ (m = "group_id" /\ msg.name # "group")
  /\ stage = "members" => event.type \in Types \union {"QUIT"}

(* A sound text meets no error, and every member still to be read is there. *)
SoundInv ==
  Sound(msg) =>
    /\ stage # "idle" => error = "NO_ERROR"
    /\ stage \in {"post_type", "members"} => dataLen = msg.object /\ httpData = "text"
    /\ stage = "members" => \A k \in 1..Len(todo) : msg.is[todo[k]] = "good"
    /\ stage \in {"members", "free", "done"} => event.type = msg.type

(* A command written down came from a sound text, with all that it says;    *)
(* what is read back is that text, cut somewhere in its body.               *)
FileInv ==
  /\ file.event # Unset =>
       /\ Sound(file.text) /\ file.text.type = "message"
       /\ file.event = [type |-> "message", name |-> file.text.name,
                        has |-> {"message_type", "raw_message", "self_id", "user_id", "time",
                                 "group_id"}]
  /\ (from = "file" /\ stage # "idle") =>
       /\ file.event # Unset
       /\ \E n \in 0..file.text.body : msg = [file.text EXCEPT !.body = n]

AllInv == TypeOK /\ HeapInv /\ EventInv /\ PassedInv /\ ReadInv /\ SoundInv /\ FileInv

(* What is understood, exactly: an event without an error is returned for   *)
(* the sound texts, and it is the event the text says.  QUIT is returned    *)
(* for a sound text that says so, but also for the path alone.              *)
UnderstoodExactly ==
  stage = "done" =>
    /\ (Sound(msg) /\ msg.type # "QUIT") <=> (error = "NO_ERROR" /\ event.type \in Types)
    /\ Sound(msg) => error = "NO_ERROR" /\ event.type = msg.type
-----------------------------------------------------------------------------
LEMMA CodesAreErrors ==
  ASSUME TypeOK, NEW m \in Members
  PROVE  getJsonValue(m) \in Errors \union {"NO_ERROR"}
<1>1. msg.is[m] \in {"good", "missing", "mistyped"}
  BY DEF TypeOK, Text, States
<1> QED
  BY <1>1 DEF getJsonValue, Errors


LEMMA AddMember ==
  ASSUME NEW e \in Events, NEW m \in Members
  PROVE  [e EXCEPT !.has = @ \union {m}] \in Events
<1>1. [e EXCEPT !.has = @ \union {m}] = [type |-> e.type, name |-> e.name, has |-> e.has \union {m}]
  BY DEF Events
<1> QED
  BY <1>1 DEF Events

(* Every text is one of Text, also what is read back from quit.txt. *)
LEMMA CutIsText ==
  ASSUME NEW r \in Text, NEW n \in Nat PROVE [r EXCEPT !.body = n] \in Text
  BY DEF Text

LEMMA HeadersTyped ==
  ASSUME TypeOK
  PROVE  msg.headers \in Seq(Headers) /\ Len(msg.headers) \in Nat
         /\ \A k \in 1..Len(msg.headers) : msg.headers[k] \in Headers
<1>1. msg.headers \in Seq(Headers)
  BY DEF TypeOK, Text
<1> QED
  BY <1>1

LEMMA InvInit == Init => AllInv
<1> SUFFICES ASSUME Init PROVE AllInv
  OBVIOUS
<1>1. msg \in Text /\ Unset \in Events
  BY LimitsAssumption DEF Init, Unset, Events
<1>2. TypeOK
  <2>1. [text |-> msg, event |-> Unset] \in [text: Text, event: Events]
    BY <1>1
  <2>2. 0 \in 0..HeaderNum /\ 0 \in Announced(msg) /\ <<>> \in Seq(Members)
    BY LimitsAssumption DEF Announced
  <2> QED
    BY <1>1, <2>1, <2>2 DEF Init, TypeOK
<1>3. HeapInv /\ EventInv
  BY DEF Init, HeapInv, EventInv, Stages, Before
<1>4. PassedInv /\ ReadInv /\ SoundInv /\ FileInv
  BY DEF Init, PassedInv, ReadInv, SoundInv, FileInv, Stages
<1> QED
  BY <1>2, <1>3, <1>4 DEF AllInv

LEMMA TypeStep == TypeOK /\ HeapInv /\ [Next]_vars => TypeOK'
<1> SUFFICES ASSUME TypeOK, HeapInv, [Next]_vars PROVE TypeOK'
  OBVIOUS
<1>1. CASE NewRequest
  <2>1. msg' \in Text /\ Unset \in Events
    BY <1>1, LimitsAssumption DEF NewRequest, Call, TypeOK, Unset, Events
  <2>2. 0 \in 0..HeaderNum /\ 0 \in Announced(msg') /\ <<>> \in Seq(Members)
    BY LimitsAssumption DEF Announced
  <2> QED
    BY <2>1, <2>2, <1>1 DEF NewRequest, Call, TypeOK, Stages
<1>2. CASE ReadBack
  <2>1. PICK n \in 0..file.text.body : Call([file.text EXCEPT !.body = n], "file")
    BY <1>2 DEF ReadBack
  <2>2. file.text \in Text /\ n \in Nat
    BY DEF TypeOK, Text
  <2>3. msg' \in Text /\ Unset \in Events
    BY <2>1, <2>2, CutIsText DEF Call, Unset, Events
  <2>4. 0 \in 0..HeaderNum /\ 0 \in Announced(msg') /\ <<>> \in Seq(Members)
    BY LimitsAssumption DEF Announced
  <2> QED
    BY <2>1, <2>3, <2>4 DEF Call, TypeOK, Stages
<1>3. CASE Method
  BY <1>3 DEF Method, Goes, heap, TypeOK, HeapInv, Stages, Events, Errors
<1>4. CASE BadMethod
  BY <1>4 DEF BadMethod, Refuse, Goes, heap, TypeOK, HeapInv, Stages, Events, Errors
<1>5. CASE Path
  BY <1>5 DEF Path, Goes, heap, TypeOK, HeapInv, Stages, Events, Errors
<1>6. CASE BadPath
  BY <1>6 DEF BadPath, Refuse, Goes, heap, TypeOK, HeapInv, Stages, Events, Errors
<1>7. CASE Protocol
  BY <1>7 DEF Protocol, Goes, heap, TypeOK, HeapInv, Stages, Events, Errors
<1>8. CASE BadProtocol
  BY <1>8 DEF BadProtocol, Refuse, Goes, heap, TypeOK, HeapInv, Stages, Events, Errors
<1>9. CASE Header
  <2>1. headerNum + 1 \in 1..Len(msg.headers) /\ headerNum < HeaderNum
    BY <1>9, HeadersTyped DEF Header, AtHeader, InTable, TypeOK
  <2>2. dataLen' \in Announced(msg)
    BY <1>9, <2>1 DEF Header, Goes, This, TypeOK, Announced
  <2>3. held = headerNum /\ stage' \in Stages
    BY <1>9 DEF Header, Goes, HeapInv, Stages
  <2>4. headerNum' \in 0..HeaderNum /\ held' \in 0..HeaderNum
    BY <1>9, <2>1, <2>3, LimitsAssumption DEF Header, TypeOK
  <2> QED
    BY <1>9, <2>2, <2>3, <2>4 DEF Header, Goes, TypeOK
<1>10. CASE HeaderTooLong
  <2>1. held = headerNum /\ headerNum < HeaderNum
    BY <1>10 DEF HeaderTooLong, Refuse, Goes, AtHeader, InTable, HeapInv, Stages
  <2>2. headerNum' \in 0..HeaderNum /\ held' \in 0..HeaderNum
    BY <1>10, <2>1, LimitsAssumption DEF HeaderTooLong, Reached, TypeOK
  <2> QED
    BY <1>10, <2>2 DEF HeaderTooLong, Refuse, Goes, TypeOK, Errors
<1>11. CASE TooManyHeaders
  <2>1. held = headerNum
    BY <1>11 DEF TooManyHeaders, Refuse, Goes, HeapInv, Stages
  <2>2. held' \in 0..HeaderNum
    BY <1>11, <2>1, LimitsAssumption DEF TooManyHeaders, FreeHeaders, TypeOK
  <2> QED
    BY <1>11, <2>2 DEF TooManyHeaders, Refuse, Goes, TypeOK, Errors
<1>12. CASE HeadersEnd
  BY <1>12 DEF HeadersEnd, Goes, heap, TypeOK, HeapInv, Stages, Events, Errors
<1>13. CASE Body
  BY <1>13 DEF Body, Goes, TypeOK, HeapInv, Stages, Events, Errors
<1>14. CASE BodyEnds
  <2>1. held = headerNum
    BY <1>14 DEF BodyEnds, Refuse, Goes, HeapInv, Stages
  <2>2. held' \in 0..HeaderNum
    BY <1>14, <2>1, LimitsAssumption DEF BodyEnds, FreeHeaders, TypeOK
  <2> QED
    BY <1>14, <2>2 DEF BodyEnds, Refuse, Goes, TypeOK, Errors
<1>15. CASE PostType
  <2>1. msg.type \in Types \union {"QUIT"}
    BY DEF TypeOK, Text
  <2>2. event' \in Events
    BY <1>15, <2>1 DEF PostType, TypeOK, Events
  <2>3. todo' \in Seq(Members)
    <3>1. MessageMembers \in Seq(Members) /\ MetaMembers \in Seq(Members) /\ <<>> \in Seq(Members)
      BY DEF MessageMembers, MetaMembers, Members
    <3>2. todo' \in {MessageMembers, MetaMembers, <<>>}
      BY <1>15 DEF PostType
    <3> QED
      BY <3>1, <3>2
  <2> QED
    BY <1>15, <2>2, <2>3 DEF PostType, Goes, JsonFreed, TypeOK, Stages
<1>16. CASE NoPostType
  BY <1>16 DEF NoPostType, Goes, Allocates, TypeOK, HeapInv, Stages, Events, Errors
<1>17. CASE Member
  <2>1. Head(todo) \in Members /\ Tail(todo) \in Seq(Members)
    BY <1>17 DEF Member, TypeOK
  <2>2. error' \in Errors \union {"NO_ERROR"}
    BY <1>17, <2>1, CodesAreErrors DEF Member, ErrorAfter, TypeOK
  <2>3. event.type \in Types \union {"QUIT", "unset"} /\ event.has \subseteq Members
        /\ event.name \in Chats \union {"unset"} /\ msg.name \in Chats
        /\ event = [type |-> event.type, name |-> event.name, has |-> event.has]
    BY DEF TypeOK, Text, Events
  <2>4. "group_id" \in Members /\ <<"group_id">> \in Seq(Members)
    BY DEF Members
  <2>5. With(Head(todo)) \in Events
    BY <2>1, <2>3 DEF With, Events
  <2>6. event' \in Events
    <3>1. event' = With(Head(todo))
          \/ event' = [With(Head(todo)) EXCEPT !.has = @ \union {"group_id"}]
      BY <1>17 DEF Member
    <3> QED
      BY <3>1, <2>4, <2>5, AddMember
  <2>7. todo' \in Seq(Members)
    BY <1>17, <2>1, <2>4 DEF Member
  <2> QED
    BY <1>17, <2>2, <2>6, <2>7 DEF Member, Goes, JsonFreed, TypeOK, Stages
<1>18. CASE MembersEnd
  BY <1>18 DEF MembersEnd, Goes, heap, TypeOK, HeapInv, Stages, Events, Errors
<1>19. CASE FreeAll
  <2>1. held = headerNum
    BY <1>19 DEF FreeAll, Goes, HeapInv, Stages
  <2>2. held' \in 0..HeaderNum
    BY <1>19, <2>1, LimitsAssumption DEF FreeAll, FreeHeaders, TypeOK
  <2> QED
    BY <1>19, <2>2 DEF FreeAll, Goes, TypeOK
<1>20. CASE Handled
  BY <1>20 DEF Handled, Return, heap, TypeOK, HeapInv, Stages, Events, Errors
<1>21. CASE StopCommand
  BY <1>21 DEF StopCommand, Return, heap, Usable, TypeOK, HeapInv, Stages, Events, Errors
<1>22. CASE UNCHANGED vars
  BY <1>22 DEF vars, heap, TypeOK, HeapInv, Stages, Events, Errors
<1> QED
  BY <1>1, <1>2, <1>3, <1>4, <1>5, <1>6, <1>7, <1>8, <1>9, <1>10, <1>11, <1>12, <1>13, <1>14, <1>15, <1>16, <1>17, <1>18, <1>19, <1>20, <1>21, <1>22 DEF Next, Parse

LEMMA HeapStep == TypeOK /\ HeapInv /\ EventInv /\ [Next]_vars => HeapInv'
<1> SUFFICES ASSUME TypeOK, HeapInv, EventInv, [Next]_vars PROVE HeapInv'
  OBVIOUS
<1>1. CASE NewRequest
  BY <1>1 DEF NewRequest, Call, TypeOK, HeapInv, EventInv, Stages, Before, Unset
<1>2. CASE ReadBack
  BY <1>2 DEF ReadBack, Call, TypeOK, HeapInv, EventInv, Stages, Before, Unset
<1>3. CASE Method
  BY <1>3 DEF Method, Goes, heap, TypeOK, HeapInv, EventInv, Stages, Before, Unset
<1>4. CASE BadMethod
  BY <1>4 DEF BadMethod, Refuse, Goes, heap, TypeOK, HeapInv, EventInv, Stages, Before, Unset
<1>5. CASE Path
  BY <1>5 DEF Path, Goes, heap, TypeOK, HeapInv, EventInv, Stages, Before, Unset
<1>6. CASE BadPath
  BY <1>6 DEF BadPath, Refuse, Goes, heap, TypeOK, HeapInv, EventInv, Stages, Before, Unset
<1>7. CASE Protocol
  BY <1>7 DEF Protocol, Goes, heap, TypeOK, HeapInv, EventInv, Stages, Before, Unset
<1>8. CASE BadProtocol
  BY <1>8 DEF BadProtocol, Refuse, Goes, heap, TypeOK, HeapInv, EventInv, Stages, Before, Unset
<1>9. CASE Header
  BY <1>9 DEF Header, Goes, AtHeader, InTable, This, TypeOK, HeapInv, EventInv, Stages, Before, Unset
<1>10. CASE HeaderTooLong
  BY <1>10 DEF HeaderTooLong, Refuse, Goes, AtHeader, InTable, Reached, TypeOK, HeapInv, EventInv, Stages, Before, Unset
<1>11. CASE TooManyHeaders
  BY <1>11 DEF TooManyHeaders, Refuse, Goes, InTable, FreeHeaders, TypeOK, HeapInv, EventInv, Stages, Before, Unset
<1>12. CASE HeadersEnd
  BY <1>12 DEF HeadersEnd, Goes, heap, TypeOK, HeapInv, EventInv, Stages, Before, Unset
<1>13. CASE Body
  BY <1>13 DEF Body, Goes, TypeOK, HeapInv, EventInv, Stages, Before, Unset
<1>14. CASE BodyEnds
  BY <1>14 DEF BodyEnds, Refuse, Goes, FreeHeaders, TypeOK, HeapInv, EventInv, Stages, Before, Unset
<1>15. CASE PostType
  BY <1>15 DEF PostType, Goes, JsonFreed, TypeOK, HeapInv, EventInv, Stages, Before, Unset
<1>16. CASE NoPostType
  BY <1>16 DEF NoPostType, Goes, Allocates, TypeOK, HeapInv, EventInv, Stages, Before, Unset
<1>17. CASE Member
  BY <1>17 DEF Member, Goes, JsonFreed, TypeOK, HeapInv, EventInv, Stages, Before, Unset
<1>18. CASE MembersEnd
  BY <1>18 DEF MembersEnd, Goes, heap, TypeOK, HeapInv, EventInv, Stages, Before, Unset
<1>19. CASE FreeAll
  BY <1>19 DEF FreeAll, Goes, FreeHeaders, TypeOK, HeapInv, EventInv, Stages, Before, Unset
<1>20. CASE Handled
  BY <1>20 DEF Handled, Return, heap, TypeOK, HeapInv, EventInv, Stages, Before, Unset
<1>21. CASE StopCommand
  BY <1>21 DEF StopCommand, Return, heap, Usable, TypeOK, HeapInv, EventInv, Stages, Before, Unset
<1>22. CASE UNCHANGED vars
  BY <1>22 DEF vars, heap, TypeOK, HeapInv, EventInv, Stages, Before, Unset
<1> QED
  BY <1>1, <1>2, <1>3, <1>4, <1>5, <1>6, <1>7, <1>8, <1>9, <1>10, <1>11, <1>12, <1>13, <1>14, <1>15, <1>16, <1>17, <1>18, <1>19, <1>20, <1>21, <1>22 DEF Next, Parse

LEMMA EventStep == TypeOK /\ EventInv /\ [Next]_vars => EventInv'
<1> SUFFICES ASSUME TypeOK, EventInv, [Next]_vars PROVE EventInv'
  OBVIOUS
<1>1. CASE NewRequest
  BY <1>1 DEF NewRequest, Call, TypeOK, EventInv, Stages, Before, Unset
<1>2. CASE ReadBack
  BY <1>2 DEF ReadBack, Call, TypeOK, EventInv, Stages, Before, Unset
<1>3. CASE Method
  BY <1>3 DEF Method, Goes, heap, TypeOK, EventInv, Stages, Before, Unset
<1>4. CASE BadMethod
  BY <1>4 DEF BadMethod, Refuse, Goes, heap, TypeOK, EventInv, Stages, Before, Unset
<1>5. CASE Path
  BY <1>5 DEF Path, Goes, heap, TypeOK, EventInv, Stages, Before, Unset
<1>6. CASE BadPath
  BY <1>6 DEF BadPath, Refuse, Goes, heap, TypeOK, EventInv, Stages, Before, Unset
<1>7. CASE Protocol
  BY <1>7 DEF Protocol, Goes, heap, TypeOK, EventInv, Stages, Before, Unset
<1>8. CASE BadProtocol
  BY <1>8 DEF BadProtocol, Refuse, Goes, heap, TypeOK, EventInv, Stages, Before, Unset
<1>9. CASE Header
  BY <1>9 DEF Header, Goes, AtHeader, InTable, This, TypeOK, EventInv, Stages, Before, Unset
<1>10. CASE HeaderTooLong
  BY <1>10 DEF HeaderTooLong, Refuse, Goes, AtHeader, InTable, Reached, TypeOK, EventInv, Stages, Before, Unset
<1>11. CASE TooManyHeaders
  BY <1>11 DEF TooManyHeaders, Refuse, Goes, InTable, FreeHeaders, TypeOK, EventInv, Stages, Before, Unset
<1>12. CASE HeadersEnd
  BY <1>12 DEF HeadersEnd, Goes, heap, TypeOK, EventInv, Stages, Before, Unset
<1>13. CASE Body
  BY <1>13 DEF Body, Goes, TypeOK, EventInv, Stages, Before, Unset
<1>14. CASE BodyEnds
  BY <1>14 DEF BodyEnds, Refuse, Goes, FreeHeaders, TypeOK, EventInv, Stages, Before, Unset
<1>15. CASE PostType
  <2>1. msg.type \in Types \union {"QUIT"} /\ event.has = {}
    BY <1>15 DEF PostType, Goes, TypeOK, Text, EventInv, Before, Unset
  <2>2. event' = [event EXCEPT !.type = msg.type] /\ event \in Events
    BY <1>15 DEF PostType, TypeOK
  <2>3. event'.type = msg.type /\ event'.has = {}
    BY <2>1, <2>2 DEF Events
  <2> QED
    BY <1>15, <2>1, <2>3 DEF PostType, Goes, EventInv, Before, MessageInv, MetaInv, MessageMembers,
                          MetaMembers, Types
<1>16. CASE NoPostType
  BY <1>16 DEF NoPostType, Goes, Allocates, TypeOK, EventInv, Stages, Before, Unset
<1>17. CASE Member
  <2>0. event.type \in Types \union {"QUIT", "unset"} /\ event.has \subseteq Members
        /\ event = [type |-> event.type, name |-> event.name, has |-> event.has]
        /\ error' = (IF getJsonValue(Head(todo)) = "NO_ERROR" THEN error
                     ELSE getJsonValue(Head(todo)))
        /\ stage = "members" /\ stage' = "members" /\ todo # <<>> /\ msg' = msg
    BY <1>17 DEF TypeOK, Events, Member, Goes, ErrorAfter
  <2>1. event'.type = event.type
    BY <1>17, <2>0 DEF Member, With
  <2>2. CASE event.type = "message"
    <3>1. MessageInv
      BY <2>0, <2>2 DEF EventInv
    <3>2. CASE /\ todo = <<"message_type", "raw_message", "self_id", "user_id", "time">>
                /\ (error = "NO_ERROR" => event.has = {})
      <4>1. Head(todo) = "message_type" /\ Tail(todo) = <<"raw_message", "self_id", "user_id", "time">>
        BY <3>2
      <4>2. error' = "NO_ERROR" => error = "NO_ERROR" /\ getJsonValue("message_type") = "NO_ERROR"
        BY <4>1, <2>0
      <4>3. /\ todo' = <<"raw_message", "self_id", "user_id", "time">>
            /\ error' = "NO_ERROR" => event'.has = {"message_type"} /\ event'.name = msg.name
        BY <1>17, <2>0, <2>2, <3>2, <4>1, <4>2 DEF Member, With
      <4> QED
        BY <4>3, <2>0, <2>1, <2>2 DEF EventInv, MessageInv, MessageAt, Before
    <3>3. CASE /\ todo = <<"raw_message", "self_id", "user_id", "time">>
                /\ (error = "NO_ERROR" => event.has = {"message_type"} /\ event.name = msg.name)
      <4>1. Head(todo) = "raw_message" /\ Tail(todo) = <<"self_id", "user_id", "time">>
        BY <3>3
      <4>2. error' = "NO_ERROR" => error = "NO_ERROR" /\ getJsonValue("raw_message") = "NO_ERROR"
        BY <4>1, <2>0
      <4>3. /\ todo' = <<"self_id", "user_id", "time">>
            /\ error' = "NO_ERROR" => event'.has = {"message_type", "raw_message"} /\ event'.name = msg.name
        BY <1>17, <2>0, <2>2, <3>3, <4>1, <4>2 DEF Member, With
      <4> QED
        BY <4>3, <2>0, <2>1, <2>2 DEF EventInv, MessageInv, MessageAt, Before
    <3>4. CASE /\ todo = <<"self_id", "user_id", "time">>
                /\ (error = "NO_ERROR" => event.has = {"message_type", "raw_message"} /\ event.name = msg.name)
      <4>1. Head(todo) = "self_id" /\ Tail(todo) = <<"user_id", "time">>
        BY <3>4
      <4>2. error' = "NO_ERROR" => error = "NO_ERROR" /\ getJsonValue("self_id") = "NO_ERROR"
        BY <4>1, <2>0
      <4>3. /\ todo' = <<"user_id", "time">>
            /\ error' = "NO_ERROR" => event'.has = {"message_type", "raw_message", "self_id"} /\ event'.name = msg.name
        BY <1>17, <2>0, <2>2, <3>4, <4>1, <4>2 DEF Member, With
      <4> QED
        BY <4>3, <2>0, <2>1, <2>2 DEF EventInv, MessageInv, MessageAt, Before
    <3>5. CASE /\ todo = <<"user_id", "time">>
                /\ (error = "NO_ERROR" => event.has = {"message_type", "raw_message", "self_id"} /\ event.name = msg.name)
      <4>1. Head(todo) = "user_id" /\ Tail(todo) = <<"time">>
        BY <3>5
      <4>2. error' = "NO_ERROR" => error = "NO_ERROR" /\ getJsonValue("user_id") = "NO_ERROR"
        BY <4>1, <2>0
      <4>3. /\ todo' = <<"time">>
            /\ error' = "NO_ERROR" => event'.has = {"message_type", "raw_message", "self_id", "user_id"} /\ event'.name = msg.name
        BY <1>17, <2>0, <2>2, <3>5, <4>1, <4>2 DEF Member, With
      <4> QED
        BY <4>3, <2>0, <2>1, <2>2 DEF EventInv, MessageInv, MessageAt, Before
    <3>6. CASE /\ todo = <<"time">>
                /\ (error = "NO_ERROR" => event.has = {"message_type", "raw_message", "self_id", "user_id"} /\ event.name = msg.name)
      <4>1. Head(todo) = "time" /\ Tail(todo) = <<>>
        BY <3>6
      <4>2. error' = "NO_ERROR" => error = "NO_ERROR" /\ getJsonValue("time") = "NO_ERROR"
        BY <4>1, <2>0
      <4>3. \/ todo' = <<"group_id">> /\ (error' = "NO_ERROR" =>
                      event'.has = {"message_type", "raw_message", "self_id", "user_id", "time"}
                      /\ event'.name = msg.name)
            \/ todo' = <<>> /\ (error' = "NO_ERROR" =>
                      event'.has = {"message_type", "raw_message", "self_id", "user_id", "time",
                                    "group_id"}
                      /\ event'.name = msg.name)
        BY <1>17, <2>0, <2>2, <3>6, <4>1, <4>2 DEF Member, With
      <4>4. CASE todo' = <<"group_id">> /\ (error' = "NO_ERROR" =>
                      event'.has = {"message_type", "raw_message", "self_id", "user_id", "time"}
                      /\ event'.name = msg.name)
        BY <4>4, <2>0, <2>1, <2>2 DEF EventInv, MessageInv, MessageAt, Before
      <4>5. CASE todo' = <<>> /\ (error' = "NO_ERROR" =>
                      event'.has = {"message_type", "raw_message", "self_id", "user_id", "time",
                                    "group_id"}
                      /\ event'.name = msg.name)
        BY <4>5, <2>0, <2>1, <2>2 DEF EventInv, MessageInv, MessageAt, Before
      <4> QED
        BY <4>3, <4>4, <4>5
    <3>7. CASE /\ todo = <<"group_id">>
                /\ (error = "NO_ERROR" => event.has = {"message_type", "raw_message", "self_id", "user_id", "time"} /\ event.name = msg.name)
      <4>1. Head(todo) = "group_id" /\ Tail(todo) = <<>>
        BY <3>7
      <4>2. error' = "NO_ERROR" => error = "NO_ERROR" /\ getJsonValue("group_id") = "NO_ERROR"
        BY <4>1, <2>0
      <4>3. /\ todo' = <<>>
            /\ error' = "NO_ERROR" => event'.has = {"message_type", "raw_message", "self_id", "user_id", "time", "group_id"} /\ event'.name = msg.name
        BY <1>17, <2>0, <2>2, <3>7, <4>1, <4>2 DEF Member, With
      <4> QED
        BY <4>3, <2>0, <2>1, <2>2 DEF EventInv, MessageInv, MessageAt, Before
    <3> QED
      BY <2>0, <3>1, <3>2, <3>3, <3>4, <3>5, <3>6, <3>7 DEF MessageInv, MessageAt
  <2>3. CASE event.type = "meta_event"
    <3>1. MetaInv
      BY <2>0, <2>3 DEF EventInv
    <3>2. CASE /\ todo = <<"meta_event_type", "interval", "self_id", "time">>
                /\ (error = "NO_ERROR" => event.has = {})
      <4>1. Head(todo) = "meta_event_type" /\ Tail(todo) = <<"interval", "self_id", "time">>
        BY <3>2
      <4>2. error' = "NO_ERROR" => error = "NO_ERROR" /\ getJsonValue("meta_event_type") = "NO_ERROR"
        BY <4>1, <2>0
      <4>3. /\ todo' = <<"interval", "self_id", "time">>
            /\ error' = "NO_ERROR" => event'.has = {"meta_event_type"} /\ event'.name = msg.name
        BY <1>17, <2>0, <2>3, <3>2, <4>1, <4>2 DEF Member, With
      <4> QED
        BY <4>3, <2>0, <2>1, <2>3 DEF EventInv, MetaInv, MessageAt, Before
    <3>3. CASE /\ todo = <<"interval", "self_id", "time">>
                /\ (error = "NO_ERROR" => event.has = {"meta_event_type"} /\ event.name = msg.name)
      <4>1. Head(todo) = "interval" /\ Tail(todo) = <<"self_id", "time">>
        BY <3>3
      <4>2. error' = "NO_ERROR" => error = "NO_ERROR" /\ getJsonValue("interval") = "NO_ERROR"
        BY <4>1, <2>0
      <4>3. /\ todo' = <<"self_id", "time">>
            /\ error' = "NO_ERROR" => event'.has = {"meta_event_type", "interval"} /\ event'.name = msg.name
        BY <1>17, <2>0, <2>3, <3>3, <4>1, <4>2 DEF Member, With
      <4> QED
        BY <4>3, <2>0, <2>1, <2>3 DEF EventInv, MetaInv, MessageAt, Before
    <3>4. CASE /\ todo = <<"self_id", "time">>
                /\ (error = "NO_ERROR" => event.has = {"meta_event_type", "interval"} /\ event.name = msg.name)
      <4>1. Head(todo) = "self_id" /\ Tail(todo) = <<"time">>
        BY <3>4
      <4>2. error' = "NO_ERROR" => error = "NO_ERROR" /\ getJsonValue("self_id") = "NO_ERROR"
        BY <4>1, <2>0
      <4>3. /\ todo' = <<"time">>
            /\ error' = "NO_ERROR" => event'.has = {"meta_event_type", "interval", "self_id"} /\ event'.name = msg.name
        BY <1>17, <2>0, <2>3, <3>4, <4>1, <4>2 DEF Member, With
      <4> QED
        BY <4>3, <2>0, <2>1, <2>3 DEF EventInv, MetaInv, MessageAt, Before
    <3>5. CASE /\ todo = <<"time">>
                /\ (error = "NO_ERROR" => event.has = {"meta_event_type", "interval", "self_id"} /\ event.name = msg.name)
      <4>1. Head(todo) = "time" /\ Tail(todo) = <<>>
        BY <3>5
      <4>2. error' = "NO_ERROR" => error = "NO_ERROR" /\ getJsonValue("time") = "NO_ERROR"
        BY <4>1, <2>0
      <4>3. /\ todo' = <<>>
            /\ error' = "NO_ERROR" => event'.has = {"meta_event_type", "interval", "self_id", "time"} /\ event'.name = msg.name
        BY <1>17, <2>0, <2>3, <3>5, <4>1, <4>2 DEF Member, With
      <4> QED
        BY <4>3, <2>0, <2>1, <2>3 DEF EventInv, MetaInv, MessageAt, Before
    <3> QED
      BY <2>0, <3>1, <3>2, <3>3, <3>4, <3>5 DEF MetaInv, MessageAt
  <2> QED
    BY <2>0, <2>2, <2>3 DEF EventInv
<1>18. CASE MembersEnd
  BY <1>18 DEF MembersEnd, Goes, heap, EventInv, Before, MessageInv, MetaInv, MessageAt
<1>19. CASE FreeAll
  BY <1>19 DEF FreeAll, Goes, FreeHeaders, TypeOK, EventInv, Stages, Before, Unset
<1>20. CASE Handled
  BY <1>20 DEF Handled, Return, heap, TypeOK, EventInv, Stages, Before, Unset
<1>21. CASE StopCommand
  BY <1>21 DEF StopCommand, Return, heap, Usable, TypeOK, EventInv, Stages, Before, Unset
<1>22. CASE UNCHANGED vars
  BY <1>22 DEF vars, heap, EventInv, Before, Unset, MessageInv, MetaInv, MessageAt
<1> QED
  BY <1>1, <1>2, <1>3, <1>4, <1>5, <1>6, <1>7, <1>8, <1>9, <1>10, <1>11, <1>12, <1>13, <1>14, <1>15, <1>16, <1>17, <1>18, <1>19, <1>20, <1>21, <1>22 DEF Next, Parse

(* What Says says: of no headers, of one more, and that it is one length.   *)
LEMMA SaysNone == ASSUME NEW hs PROVE Says(hs, 0, 0)
  BY DEF Says

LEMMA SaysMore ==
  ASSUME NEW hs, NEW n \in Nat, NEW d, Says(hs, n, d)
  PROVE  Says(hs, n + 1, IF hs[n + 1].digits = <<>> THEN d ELSE ValueOf(hs[n + 1]))
<1> DEFINE h == hs[n + 1]
<1>1. CASE h.digits = <<>>
  <2>1. \A k \in 1..n + 1 : k \in 1..n \/ k = n + 1
    OBVIOUS
  <2>2. 1..n \subseteq 1..n + 1
    OBVIOUS
  <2> QED
    BY <1>1, <2>1, <2>2 DEF Says
<1>2. CASE h.digits # <<>>
  <2>1. n + 1 \in 1..n + 1 /\ \A j \in 1..n + 1 : ~(j > n + 1)
    OBVIOUS
  <2> QED
    BY <1>2, <2>1 DEF Says
<1> QED
  BY <1>1, <1>2

LEMMA SaysOne ==
  ASSUME NEW hs, NEW n \in Nat, NEW c, NEW d, Says(hs, n, c), Says(hs, n, d)
  PROVE  c = d
<1>1. ASSUME NEW k \in 1..n, NEW m \in 1..n,
             hs[k].digits # <<>>, \A j \in 1..n : j > k => hs[j].digits = <<>>,
             hs[m].digits # <<>>, \A j \in 1..n : j > m => hs[j].digits = <<>>
      PROVE  k = m
  BY <1>1
<1> QED
  BY <1>1 DEF Says

(* LineFits of a text is what the first three blocks look at.               *)
LEMMA LineIsPassed ==
  LineFits(msg) <=> MethodFits /\ msg.method # "other" /\ ~PathRefused /\ ProtocolText < ProtocolLen
BY DEF LineFits, MethodFits, PathRefused, Copied, ProtocolText

LEMMA ParseKeeps ==
  Parse \/ UNCHANGED vars => UNCHANGED <<msg, from, file>> /\ (stage' = "idle" => stage = "idle")
BY DEF Parse, Method, BadMethod, Path, BadPath, Protocol, BadProtocol, Header, HeaderTooLong,
       TooManyHeaders, HeadersEnd, Body, BodyEnds, PostType, NoPostType, Member, MembersEnd,
       FreeAll, Refuse, Goes, vars

LEMMA PassedStep == TypeOK /\ HeapInv /\ PassedInv /\ [Next]_vars => PassedInv'
<1> SUFFICES ASSUME TypeOK, HeapInv, PassedInv, [Next]_vars PROVE PassedInv'
  OBVIOUS
<1> USE DEF PassedInv, Stages, PathRefused, Copied, ProtocolText
<1>1. CASE NewRequest \/ ReadBack
  BY <1>1 DEF NewRequest, ReadBack, Call
<1>2. CASE Method \/ Path
  BY <1>2 DEF Method, Path, Goes, heap, MethodFits
<1>3. CASE Protocol
  <2>1. /\ stage = "protocol" /\ stage' = "headers" /\ headerNum = 0 /\ dataLen = 0
        /\ UNCHANGED <<msg, headerNum, dataLen>> /\ ProtocolText < ProtocolLen
    BY <1>3 DEF Protocol, Goes, heap
  <2>2. Says(msg.headers, headerNum, dataLen)
    BY <2>1, SaysNone
  <2>3. headerNum <= Len(msg.headers)
    BY <2>1, HeadersTyped
  <2> QED
    BY <2>1, <2>2, <2>3
<1>4. CASE Header
  <2> DEFINE h == headerNum + 1
  <2>1. /\ stage = "headers" /\ stage' = "headers" /\ UNCHANGED <<msg, httpData>>
        /\ headerNum' = h /\ headerNum \in Nat /\ h <= Len(msg.headers) /\ HeaderFits(msg.headers[h])
    BY <1>4, HeadersTyped DEF Header, Goes, AtHeader, This, TypeOK
  <2>2. dataLen' = IF msg.headers[h].digits = <<>> THEN dataLen ELSE ValueOf(msg.headers[h])
    BY <1>4 DEF Header, This
  <2>3. Says(msg.headers, h, dataLen')
    BY <2>1, <2>2, SaysMore
  <2>4. \A k \in 1..h : k \in 1..headerNum \/ k = h
    BY <2>1
  <2>5. \A k \in 1..h : HeaderFits(msg.headers[k])
    BY <2>1, <2>4
  <2> HIDE DEF h
  <2> QED
    BY <2>1, <2>3, <2>5
<1>5. CASE BadMethod \/ BadPath \/ BadProtocol \/ HeaderTooLong \/ TooManyHeaders \/ BodyEnds
  BY <1>5 DEF BadMethod, BadPath, BadProtocol, HeaderTooLong, TooManyHeaders, BodyEnds, Refuse, Goes
<1>6. CASE HeadersEnd
  BY <1>6 DEF HeadersEnd, Goes, heap, InTable
<1>7. CASE Body
  BY <1>7 DEF Body, Goes
<1>8. CASE PostType \/ NoPostType \/ Member \/ MembersEnd
  BY <1>8 DEF PostType, NoPostType, Member, MembersEnd, Goes, heap
<1>9. CASE FreeAll \/ Handled \/ StopCommand
  BY <1>9 DEF FreeAll, Handled, StopCommand, Return, Goes
<1>10. CASE UNCHANGED vars
  BY <1>10 DEF vars, heap
<1> QED
  BY <1>1, <1>2, <1>3, <1>4, <1>5, <1>6, <1>7, <1>8, <1>9, <1>10 DEF Next, Parse

(* A member is found only in a copy of the whole object.                    *)
LEMMA FoundInText ==
  ASSUME TypeOK, NEW m \in Members, getJsonValue(m) = "NO_ERROR"
  PROVE  httpData = "text" /\ dataLen = msg.object /\ msg.is[m] = "good"
<1>1. msg.is[m] \in {"good", "missing", "mistyped"} /\ httpData \in {"none", "text", "stale"}
  BY DEF TypeOK, Text, States
<1> QED
  BY <1>1 DEF getJsonValue

LEMMA ReadStep ==
  TypeOK /\ HeapInv /\ EventInv /\ PassedInv /\ ReadInv /\ [Next]_vars => ReadInv'
<1> SUFFICES ASSUME TypeOK, HeapInv, EventInv, PassedInv, ReadInv, [Next]_vars PROVE ReadInv'
  OBVIOUS
<1>1. CASE NewRequest \/ ReadBack
  BY <1>1 DEF NewRequest, ReadBack, Call, ReadInv
<1>2. CASE \/ Method \/ BadMethod \/ Path \/ BadPath \/ Protocol \/ BadProtocol \/ Header
           \/ HeaderTooLong \/ TooManyHeaders \/ HeadersEnd \/ Body \/ BodyEnds
  <2>1. stage \in Before /\ UNCHANGED event /\ stage' # "members"
    BY <1>2 DEF Method, BadMethod, Path, BadPath, Protocol, BadProtocol, Header, HeaderTooLong,
                TooManyHeaders, HeadersEnd, Body, BodyEnds, Refuse, Goes, Before
  <2>2. event'.type = "unset" /\ "unset" \notin Types
    BY <2>1 DEF EventInv, Unset, Types
  <2> QED
    BY <2>1, <2>2 DEF ReadInv
<1>3. CASE PostType
  <2>1. /\ stage = "post_type" /\ stage' = "members" /\ UNCHANGED msg
        /\ "post_type" \in Members /\ getJsonValue("post_type") = "NO_ERROR"
    BY <1>3 DEF PostType, Goes, Members
  <2>2. httpData = "text" /\ dataLen = msg.object /\ msg.is["post_type"] = "good"
    BY <2>1, FoundInText
  <2>3. MethodFits /\ msg.method # "other" /\ ~PathRefused /\ ProtocolText < ProtocolLen
    BY <2>1 DEF PassedInv, Stages, MethodFits
  <2>4. HeadersFit(msg) /\ Says(msg.headers, Len(msg.headers), msg.object)
    BY <2>1, <2>2 DEF PassedInv, Stages, HeadersFit
  <2>5. msg.object \in 1..msg.body
    BY <2>1, <2>2 DEF PassedInv, TypeOK, Text
  <2>6. Typed(msg)
    BY <2>2, <2>3, <2>4, <2>5, LineIsPassed DEF Typed
  <2>7. event'.type = msg.type /\ event'.has = {} /\ msg.type \in Types \union {"QUIT"}
    BY <1>3, <2>1 DEF PostType, EventInv, Before, Unset, TypeOK, Text
  <2> QED
    BY <2>1, <2>6, <2>7 DEF ReadInv
<1>4. CASE NoPostType
  <2>1. stage' = "free" /\ event = Unset
    BY <1>4 DEF NoPostType, Goes, EventInv, Before
  <2>2. event'.type \in {"QUIT", "unset"}
    BY <1>4, <2>1 DEF NoPostType, Unset
  <2> QED
    BY <2>1, <2>2 DEF ReadInv, Types
<1>5. CASE Member
  <2> DEFINE m == Head(todo)
  <2>1. m \in Members /\ stage = "members" /\ stage' = "members" /\ UNCHANGED msg
    BY <1>5 DEF Member, Goes, TypeOK
  <2>2. PICK group \in IsGroup(With(m).name) :
          event' = IF m = "time" /\ event.type = "message" /\ ~group
                   THEN [With(m) EXCEPT !.has = @ \union {"group_id"}] ELSE With(m)
    BY <1>5 DEF Member
  <2>3. event'.type = event.type
    BY <2>2 DEF With, TypeOK, Events
  <2>4. ASSUME error' = "NO_ERROR"
        PROVE  error = "NO_ERROR" /\ getJsonValue(m) = "NO_ERROR"
    BY <1>5, <2>4, <2>1, CodesAreErrors DEF Member, ErrorAfter, Errors
  <2>5. ASSUME error = "NO_ERROR", m = "time", event.type = "message", ~group
        PROVE  msg.name # "group"
    <3>1. event.name = msg.name /\ msg.name \in Chats
      BY <2>1, <2>5 DEF EventInv, MessageInv, MessageAt, TypeOK, Text
    <3>2. With(m).name = event.name
      BY <2>5 DEF With, TypeOK, Events
    <3> QED
      BY <2>5, <2>2, <3>1, <3>2 DEF IsGroup, Chats
  <2>6. With(m).has = IF getJsonValue(m) = "NO_ERROR" THEN event.has \union {m} ELSE event.has
    BY DEF With, TypeOK, Events
  <2>7. ASSUME error' = "NO_ERROR", NEW k \in event'.has
        PROVE  msg.is[k] = "good" \/ (k = "group_id" /\ msg.name # "group")
    <3>1. error = "NO_ERROR" /\ msg.is[m] = "good"
      BY <2>1, <2>4, <2>7, FoundInText
    <3>2. k \in event.has \/ k = m
          \/ (k = "group_id" /\ m = "time" /\ event.type = "message" /\ ~group)
      BY <2>2, <2>6, <2>7 DEF TypeOK, Events, With
    <3>3. event.type \in Types
      BY <1>5, <2>1 DEF Member, EventInv, Types
    <3> QED
      BY <2>1, <2>5, <3>1, <3>2, <3>3 DEF ReadInv
  <2> HIDE DEF m
  <2> QED
    BY <2>1, <2>3, <2>7 DEF ReadInv
<1>6. CASE MembersEnd \/ FreeAll
  BY <1>6 DEF MembersEnd, FreeAll, Goes, heap, ReadInv
<1>7. CASE Handled \/ StopCommand
  BY <1>7 DEF Handled, StopCommand, Return, ReadInv
<1>8. CASE UNCHANGED vars
  BY <1>8 DEF vars, ReadInv
<1> QED
  BY <1>1, <1>2, <1>3, <1>4, <1>5, <1>6, <1>7, <1>8 DEF Next, Parse

LEMMA SoundStep ==
  TypeOK /\ HeapInv /\ EventInv /\ PassedInv /\ SoundInv /\ [Next]_vars => SoundInv'
<1> SUFFICES ASSUME TypeOK, HeapInv, EventInv, PassedInv, SoundInv, [Next]_vars, Sound(msg)'
             PROVE  SoundInv!2'
  BY DEF SoundInv
<1> USE DEF SoundInv
<1>1. CASE NewRequest \/ ReadBack
  BY <1>1 DEF NewRequest, ReadBack, Call
<1>2. CASE Handled \/ StopCommand
  BY <1>2 DEF Handled, StopCommand, Return
<1>3. CASE UNCHANGED vars
  BY <1>3 DEF vars
<1>4. CASE Parse
  <2>1. UNCHANGED msg /\ Sound(msg)
    BY <1>4, ParseKeeps
  <2>2. /\ LineFits(msg) /\ HeadersFit(msg) /\ Says(msg.headers, Len(msg.headers), msg.object)
        /\ msg.object \in 1..msg.body /\ msg.body \in Nat
        /\ msg.is["post_type"] = "good" /\ \A m \in Needed(msg) : msg.is[m] = "good"
    BY <2>1 DEF Sound, Typed, TypeOK, Text
  <2>3. CASE Method \/ Path \/ Protocol \/ Header \/ HeadersEnd
    <3>1. /\ error' = error /\ stage # "idle"
          /\ stage' \in {"path", "protocol", "headers", "body"}
      BY <2>3 DEF Method, Path, Protocol, Header, HeadersEnd, Goes
    <3> QED
      BY <2>1, <3>1
  <2>4. CASE BadMethod \/ BadPath \/ BadProtocol
    <3>1. MethodFits /\ msg.method # "other" /\ ~PathRefused /\ ProtocolText < ProtocolLen
      BY <2>2, LineIsPassed
    <3>2. ~(ProtocolText >= ProtocolLen)
      <4>1. msg.path \in Nat /\ msg.protocol \in Nat /\ PathLen \in Nat /\ ProtocolLen \in Nat
        BY LimitsAssumption DEF TypeOK, Text
      <4>2. ProtocolText \in Int
        BY <4>1 DEF ProtocolText
      <4> QED
        BY <4>1, <4>2, <3>1
    <3> QED
      BY <2>4, <3>1, <3>2 DEF BadMethod, BadPath, BadProtocol
  <2>5. CASE HeaderTooLong \/ TooManyHeaders
    <3>1. headerNum <= Len(msg.headers) /\ Len(msg.headers) \in Nat /\ headerNum \in Nat
      BY <2>5, HeadersTyped DEF HeaderTooLong, TooManyHeaders, Refuse, Goes, TypeOK, PassedInv, Stages
    <3>2. AtHeader => HeaderFits(This)
      BY <3>1, <2>2 DEF AtHeader, This, HeadersFit
    <3>3. InTable
      BY <3>1, <2>2, LimitsAssumption DEF InTable, HeadersFit
    <3> QED
      BY <2>5, <3>2, <3>3 DEF HeaderTooLong, TooManyHeaders
  <2>6. CASE Body \/ BodyEnds
    <3>1. stage = "body" /\ headerNum = Len(msg.headers) /\ Says(msg.headers, headerNum, dataLen)
      BY <2>6 DEF Body, BodyEnds, Refuse, Goes, PassedInv, Stages
    <3>2. dataLen = msg.object
      BY <3>1, <2>2, HeadersTyped, SaysOne
    <3>3. ~(dataLen > msg.body) /\ dataLen # 0 /\ dataLen <= msg.body
      BY <3>2, <2>2
    <3>4. Body
      BY <2>6, <3>3 DEF BodyEnds
    <3> QED
      BY <3>1, <3>2, <3>3, <3>4, <2>1 DEF Body, Goes
  <2>7. ASSUME stage \in {"post_type", "members"}, NEW m \in Members, msg.is[m] = "good"
        PROVE  getJsonValue(m) = "NO_ERROR"
    BY <2>7, <2>1 DEF getJsonValue, HeapInv, Before
  <2>8. CASE PostType \/ NoPostType
    <3>1. "post_type" \in Members /\ stage = "post_type"
      BY <2>8 DEF PostType, NoPostType, Goes, Members
    <3>2. PostType
      BY <2>8, <3>1, <2>2, <2>7 DEF NoPostType
    <3>3. event'.type = msg.type
      BY <3>2 DEF PostType, TypeOK, Events
    <3>4. \A k \in 1..Len(todo') : todo'[k] \in Needed(msg)
      BY <3>2 DEF PostType, MessageMembers, MetaMembers, Needed
    <3> QED
      BY <3>1, <3>2, <3>3, <3>4, <2>1, <2>2 DEF PostType, Goes
  <2>9. CASE Member
    <3> DEFINE m == Head(todo)
    <3>1. /\ m \in Members /\ stage = "members" /\ stage' = "members"
          /\ todo \in Seq(Members) /\ todo # <<>> /\ m = todo[1]
      BY <2>9 DEF Member, Goes, TypeOK
    <3>2. \A k \in 1..Len(todo) : msg.is[todo[k]] = "good"
      BY <3>1, <2>1
    <3>3. getJsonValue(m) = "NO_ERROR"
      BY <3>1, <3>2, <2>7
    <3>4. error' = error /\ UNCHANGED <<dataLen, httpData>>
      BY <2>9, <3>3 DEF Member, ErrorAfter
    <3>5. event'.type = event.type
      BY <2>9 DEF Member, With, TypeOK, Events
    <3>6. /\ error = "NO_ERROR" /\ dataLen = msg.object /\ httpData = "text"
          /\ event.type = msg.type
      BY <3>1, <2>1
    <3>7. ASSUME NEW k \in 1..Len(todo') PROVE msg.is[todo'[k]] = "good"
      <4>1. PICK group \in IsGroup(With(m).name) :
              todo' = IF m = "time" /\ event.type = "message" /\ group THEN <<"group_id">>
                      ELSE Tail(todo)
        BY <2>9 DEF Member
      <4>2. CASE todo' = Tail(todo)
        <5>1. k + 1 \in 1..Len(todo) /\ todo'[k] = todo[k + 1]
          BY <3>1, <4>2
        <5> QED
          BY <5>1, <3>2
      <4>3. CASE m = "time" /\ event.type = "message" /\ group /\ todo' = <<"group_id">>
        <5>1. event.name = msg.name /\ msg.name \in Chats
          BY <3>1, <3>6, <4>3 DEF EventInv, MessageInv, MessageAt, TypeOK, Text
        <5>2. With(m).name = event.name
          BY <4>3 DEF With, TypeOK, Events
        <5>3. msg.name = "group"
          BY <4>3, <4>1, <5>1, <5>2 DEF IsGroup, Chats
        <5>4. "group_id" \in Needed(msg)
          BY <5>3, <4>3, <3>6 DEF Needed
        <5> QED
          BY <5>4, <4>3, <2>2
      <4> QED
        BY <4>1, <4>2, <4>3
    <3> HIDE DEF m
    <3> QED
      BY <3>1, <3>4, <3>5, <3>6, <3>7, <2>1
  <2>10. CASE MembersEnd \/ FreeAll
    BY <2>10, <2>1 DEF MembersEnd, FreeAll, Goes, heap
  <2> QED
    BY <1>4, <2>3, <2>4, <2>5, <2>6, <2>8, <2>9, <2>10 DEF Parse
<1> QED
  BY <1>1, <1>2, <1>3, <1>4 DEF Next

(* A message without an error comes from a sound text and says what it says. *)
LEMMA ReturnedIsSound ==
  ASSUME TypeOK, EventInv, ReadInv, stage = "done", error = "NO_ERROR", event.type \in Types
  PROVE  Sound(msg) /\ event.type = msg.type
<1>1. /\ Typed(msg) /\ event.type = msg.type
      /\ \A m \in event.has : msg.is[m] = "good" \/ (m = "group_id" /\ msg.name # "group")
  BY DEF ReadInv
<1>2. CASE event.type = "message"
  <2>1. event.has = {"message_type", "raw_message", "self_id", "user_id", "time", "group_id"}
    BY <1>2 DEF EventInv
  <2> QED
    BY <1>1, <1>2, <2>1 DEF Sound, Needed
<1>3. CASE event.type = "meta_event"
  <2>1. event.has = {"meta_event_type", "interval", "self_id", "time"}
    BY <1>3 DEF EventInv
  <2> QED
    BY <1>1, <1>3, <2>1 DEF Sound, Needed
<1>4. CASE event.type = "other"
  BY <1>1, <1>4 DEF Sound, Needed
<1> QED
  BY <1>2, <1>3, <1>4 DEF Types

(* The event of a message that was returned without an error.               *)
LEMMA MessageIs ==
  ASSUME TypeOK, EventInv, stage = "done", error = "NO_ERROR", event.type = "message"
  PROVE  event = [type |-> "message", name |-> msg.name,
                  has |-> {"message_type", "raw_message", "self_id", "user_id", "time",
                           "group_id"}]
<1>1. event = [type |-> event.type, name |-> event.name, has |-> event.has]
  BY DEF TypeOK, Events
<1> QED
  BY <1>1 DEF EventInv

LEMMA FileStep ==
  TypeOK /\ EventInv /\ ReadInv /\ FileInv /\ [Next]_vars => FileInv'
<1> SUFFICES ASSUME TypeOK, EventInv, ReadInv, FileInv, [Next]_vars PROVE FileInv'
  OBVIOUS
<1>1. CASE NewRequest
  BY <1>1 DEF NewRequest, Call, FileInv
<1>2. CASE ReadBack
  BY <1>2 DEF ReadBack, Call, FileInv
<1>3. CASE Parse \/ UNCHANGED vars
  <2>1. UNCHANGED <<msg, from, file>> /\ (stage' # "idle" => stage # "idle" \/ stage' = stage)
    BY <1>3, ParseKeeps DEF Parse, Method, BadMethod, Path, BadPath, Protocol, BadProtocol, Header,
         HeaderTooLong, TooManyHeaders, HeadersEnd, Body, BodyEnds, PostType, NoPostType, Member,
         MembersEnd, FreeAll, Refuse, Goes, vars
  <2> QED
    BY <2>1 DEF FileInv
<1>4. CASE Handled
  BY <1>4 DEF Handled, Return, FileInv
<1>5. CASE StopCommand
  <2>1. /\ stage = "done" /\ stage' = "idle" /\ error = "NO_ERROR" /\ event.type = "message"
        /\ file' = [text |-> msg, event |-> event]
    BY <1>5 DEF StopCommand, Return, Usable
  <2>2. Sound(msg) /\ event.type = msg.type
    BY <2>1, ReturnedIsSound DEF Types
  <2>3. event = [type |-> "message", name |-> msg.name,
                 has |-> {"message_type", "raw_message", "self_id", "user_id", "time", "group_id"}]
    BY <2>1, MessageIs
  <2>4. file'.text = msg /\ file'.event = event
    BY <2>1
  <2> QED
    BY <2>1, <2>2, <2>3, <2>4 DEF FileInv
<1> QED
  BY <1>1, <1>2, <1>3, <1>4, <1>5 DEF Next

(* What the gateway sends is sound.                                         *)
LEMMA CompleteIsSound == TypeOK /\ Complete(msg) => Sound(msg)
<1> SUFFICES ASSUME TypeOK, Complete(msg) PROVE Sound(msg)
  OBVIOUS
<1>1. msg.path \in Nat /\ PathLen \in Nat /\ msg.path < PathLen /\ msg.path # MethodLen
  BY LimitsAssumption DEF Complete, TypeOK, Text
<1>2. LineFits(msg)
  BY <1>1 DEF Complete, LineFits
<1>3. HeadersFit(msg)
  BY DEF Complete, HeadersFit
<1>4. Says(msg.headers, Len(msg.headers), msg.object)
  <2>1. PICK k \in 1..Len(msg.headers) :
          /\ msg.headers[k].digits # <<>> /\ strToInt[msg.headers[k].digits] = msg.object
          /\ \A j \in 1..Len(msg.headers) \ {k} : msg.headers[j].digits = <<>>
    BY DEF Complete
  <2>2. ValueOf(msg.headers[k]) = msg.object
    BY <2>1 DEF Complete, ValueOf
  <2>3. \A j \in 1..Len(msg.headers) : j > k => j # k
    OBVIOUS
  <2> QED
    BY <2>1, <2>2, <2>3 DEF Says
<1>5. "post_type" \in Members /\ Needed(msg) \subseteq Members
  BY DEF Members, Needed
<1> QED
  BY <1>2, <1>3, <1>4, <1>5 DEF Complete, Sound, Typed
-----------------------------------------------------------------------------
LEMMA AllInvariant == Spec => []AllInv
<1>1. AllInv /\ [Next]_vars => AllInv'
  BY TypeStep, HeapStep, EventStep, PassedStep, ReadStep, SoundStep, FileStep DEF AllInv
<1> QED
  BY InvInit, <1>1, PTL DEF Spec

(* The variables of the parser keep their types: never more headers than    *)
(* the table has places, never more freed than held (hakuMind.c 298-335).   *)
THEOREM TypeCorrect == Spec => []TypeOK
<1>1. AllInv => TypeOK
  BY DEF AllInv
<1> QED
  BY AllInvariant, <1>1, PTL

(* A message or a heartbeat without an error has every member its handler   *)
(* reads (hakuMind.c 381-466).                                              *)
THEOREM EventsAreComplete == Spec => []EventComplete
<1>1. AllInv => EventComplete
  BY DEF AllInv, EventInv, EventComplete
<1> QED
  BY AllInvariant, <1>1, PTL

(* Every return of the parser has freed what it holds (hakuMind.c 328-354,  *)
(* 475-482).                                                                *)
THEOREM NothingStaysHeld == Spec => []NothingHeld
<1>1. AllInv => NothingHeld
  BY DEF AllInv, HeapInv, NothingHeld
<1> QED
  BY AllInvariant, <1>1, PTL

(* What the gateway sends is understood, for any limits it keeps to and any *)
(* number and order of headers (hakuMind.c 242-483).                        *)
THEOREM GatewayIsUnderstood == Spec => []GatewayUnderstood
<1>1. AllInv => GatewayUnderstood
  BY CompleteIsSound DEF AllInv, SoundInv, GatewayUnderstood
<1> QED
  BY AllInvariant, <1>1, PTL

(* And nothing else is: an event without an error is returned exactly for   *)
(* the sound texts, and has the type the text says (hakuMind.c 242-483).    *)
THEOREM OnlySoundIsUnderstood == Spec => []UnderstoodExactly
<1>1. AllInv => UnderstoodExactly
  <2> SUFFICES ASSUME AllInv, stage = "done"
               PROVE  /\ (Sound(msg) /\ msg.type # "QUIT")
                            <=> (error = "NO_ERROR" /\ event.type \in Types)
                      /\ Sound(msg) => error = "NO_ERROR" /\ event.type = msg.type
    BY DEF UnderstoodExactly
  <2>1. ASSUME Sound(msg) PROVE error = "NO_ERROR" /\ event.type = msg.type
    BY <2>1 DEF AllInv, SoundInv
  <2>2. msg.type \in Types \union {"QUIT"} /\ "QUIT" \notin Types
    BY DEF AllInv, TypeOK, Text, Types
  <2>3. ASSUME error = "NO_ERROR", event.type \in Types
        PROVE  Sound(msg) /\ event.type = msg.type
    BY <2>3, ReturnedIsSound DEF AllInv
  <2> QED
    BY <2>1, <2>2, <2>3
<1> QED
  BY AllInvariant, <1>1, PTL

(* The stop command that is read back after the restart is the one that was *)
(* written down, wherever the first 4095 bytes of quit.txt end (hakuMind.c  *)
(* 84-91, 588-596).                                                         *)
THEOREM ReadBackIsSame == Spec => []ReadBackSame
<1>1. AllInv => ReadBackSame
  <2> SUFFICES ASSUME AllInv, stage = "done", from = "file",
                      msg = file.text \/ (error = "NO_ERROR" /\ event.type \in Types)
               PROVE  error = "NO_ERROR" /\ event = file.event
    BY DEF ReadBackSame
  <2>1. PICK n \in 0..file.text.body : msg = [file.text EXCEPT !.body = n]
    BY DEF AllInv, FileInv
  <2>2. /\ Sound(file.text) /\ file.text.type = "message"
        /\ file.event = [type |-> "message", name |-> file.text.name,
                         has |-> {"message_type", "raw_message", "self_id", "user_id", "time",
                                  "group_id"}]
    BY DEF AllInv, FileInv
  <2>3. msg.type = "message" /\ msg.name = file.text.name
    BY <2>1, <2>2 DEF AllInv, TypeOK, Text
  <2>4. error = "NO_ERROR" /\ event.type = "message"
    <3>1. CASE msg = file.text
      BY <3>1, <2>2, <2>3 DEF AllInv, SoundInv
    <3>2. CASE error = "NO_ERROR" /\ event.type \in Types
      BY <3>2, <2>3, ReturnedIsSound DEF AllInv
    <3> QED
      BY <3>1, <3>2
  <2> QED
    BY <2>2, <2>3, <2>4, MessageIs DEF AllInv
<1> QED
  BY AllInvariant, <1>1, PTL
-----------------------------------------------------------------------------
(* The members still to be read, with the group that may follow the time.   *)
MembersLeft ==
  IF event.type = "message" /\ todo # <<>> /\ todo # <<"group_id">> THEN Len(todo) + 1 ELSE Len(todo)

(* The blocks a call still has to go through *)
ParseLeft ==
  CASE stage = "idle" -> 0
    [] stage = "done" -> 1
    [] stage = "free" -> 2
    [] stage = "members" -> 3 + MembersLeft
    [] stage = "post_type" -> 10
    [] stage = "body" -> 11
    [] stage = "headers" -> 12 + (HeaderNum - headerNum)
    [] stage = "protocol" -> 13 + HeaderNum
    [] stage = "path" -> 14 + HeaderNum
    [] stage = "method" -> 15 + HeaderNum

(* The parser comes to its end in a number of steps that the size of the    *)
(* header table alone fixes, whatever the text: no block is entered twice,  *)
(* and the loops over headers and members get shorter with every turn       *)
(* (hakuMind.c 298-335, 381-466).                                           *)
ParseFits == ParseLeft \in 0..15 + HeaderNum
ParseShrinks == [][(stage # "idle") => (ParseLeft' < ParseLeft)]_vars

(* No type has more than five members to be read at once. *)
LEMMA MembersAreFew ==
  ASSUME TypeOK, EventInv, stage = "members"
  PROVE  /\ Len(todo) \in 0..5 /\ (todo # <<>> => Len(todo) >= 1)
         /\ MembersLeft \in 0..6
<1>1. Len(todo) \in 0..5
  <2>1. \A a, b, c, d, e : /\ Len(<<a, b, c, d, e>>) = 5 /\ Len(<<a, b, c, d>>) = 4
                           /\ Len(<<a, b, c>>) = 3 /\ Len(<<a, b>>) = 2 /\ Len(<<a>>) = 1
    OBVIOUS
  <2>2. Len(<<>>) = 0
    OBVIOUS
  <2>3. CASE event.type = "message" /\ MessageInv
    BY <2>1, <2>2, <2>3 DEF MessageInv, MessageAt
  <2>4. CASE event.type = "meta_event" /\ MetaInv
    BY <2>1, <2>2, <2>4 DEF MetaInv, MessageAt
  <2> QED
    BY <2>2, <2>3, <2>4 DEF EventInv
<1>2. todo # <<>> => Len(todo) >= 1
  BY DEF TypeOK
<1>3. \A n \in 0..5 : n \in 0..6 /\ n + 1 \in 0..6
  OBVIOUS
<1>4. MembersLeft = Len(todo) \/ MembersLeft = Len(todo) + 1
  BY DEF MembersLeft
<1> QED
  BY <1>1, <1>2, <1>3, <1>4

LEMMA BlocksLeft == TypeOK /\ HeapInv /\ EventInv => ParseFits
<1> SUFFICES ASSUME TypeOK, HeapInv, EventInv PROVE ParseFits
  OBVIOUS
<1>1. HeaderNum \in Nat \ {0} /\ headerNum \in 0..HeaderNum /\ stage \in Stages \union {"idle", "done"}
  BY LimitsAssumption DEF TypeOK
<1>2. CASE stage = "members"
  <2>1. MembersLeft \in 0..6 /\ ParseLeft = 3 + MembersLeft
    BY <1>2, MembersAreFew DEF ParseLeft
  <2> QED
    BY <1>1, <2>1 DEF ParseFits
<1>3. CASE stage = "headers"
  <2>1. ParseLeft = 12 + (HeaderNum - headerNum)
    BY <1>3 DEF ParseLeft
  <2> QED
    BY <1>1, <2>1 DEF ParseFits
<1>4. CASE stage \in {"idle", "done", "free", "post_type", "body", "protocol", "path", "method"}
  <2>1. ParseLeft \in {0, 1, 2, 10, 11, 13 + HeaderNum, 14 + HeaderNum, 15 + HeaderNum}
    BY <1>4 DEF ParseLeft
  <2> QED
    BY <1>1, <2>1 DEF ParseFits
<1> QED
  BY <1>1, <1>2, <1>3, <1>4 DEF Stages

LEMMA MemberIsOneLess ==
  ASSUME TypeOK, HeapInv, EventInv, Member
  PROVE  ParseLeft' < ParseLeft
<1>1. /\ stage = "members" /\ stage' = "members" /\ todo # <<>>
      /\ event' \in {With(Head(todo)), [With(Head(todo)) EXCEPT !.has = @ \union {"group_id"}]}
  BY DEF Member, Goes
<1>2. event'.type = event.type
  <2>1. event \in [type: Types \union {"QUIT", "unset"}, name: Chats \union {"unset"}, has: SUBSET Members]
    BY DEF TypeOK, Events
  <2>2. With(Head(todo)).type = event.type
    BY <2>1 DEF With
  <2>3. [With(Head(todo)) EXCEPT !.has = @ \union {"group_id"}].type = With(Head(todo)).type
    BY <2>1 DEF With
  <2> QED
    BY <1>1, <2>2, <2>3
<1>3. \/ todo' = Tail(todo)
      \/ todo' = <<"group_id">> /\ Head(todo) = "time" /\ event.type = "message"
  BY DEF Member
<1>4. MembersLeft' < MembersLeft /\ MembersLeft' \in Int /\ MembersLeft \in Int
  <2>1. Len(todo) \in Nat /\ Len(todo) >= 1 /\ todo \in Seq(Members)
    BY <1>1, MembersAreFew DEF TypeOK
  <2>2. CASE todo' = Tail(todo)
    <3>1. Len(todo') = Len(todo) - 1
      BY <1>1, <2>1, <2>2
    <3>2. todo = <<"group_id">> => todo' = <<>>
      BY <2>2
    <3> QED
      BY <1>1, <1>2, <2>1, <3>1, <3>2 DEF MembersLeft
  <2>3. CASE todo' = <<"group_id">> /\ Head(todo) = "time" /\ event.type = "message"
    <3>1. todo # <<"group_id">> /\ Len(todo') = 1
      BY <2>3
    <3>2. MembersLeft' = 1 /\ MembersLeft = Len(todo) + 1
      BY <1>1, <2>3, <3>1 DEF MembersLeft
    <3> QED
      BY <2>1, <3>2
  <2> QED
    BY <1>3, <2>2, <2>3
<1> QED
  BY <1>1, <1>4 DEF ParseLeft

LEMMA ParseSteps ==
  ASSUME TypeOK, HeapInv, EventInv, Next, stage # "idle"
  PROVE  ParseLeft' < ParseLeft
<1>1. HeaderNum \in Nat \ {0} /\ headerNum \in 0..HeaderNum
  BY LimitsAssumption DEF TypeOK
<1>2. ~NewRequest /\ ~ReadBack
  BY DEF NewRequest, ReadBack, Call
<1>3. CASE Method \/ BadMethod \/ Path \/ BadPath \/ BadProtocol
  BY <1>1, <1>3 DEF Method, BadMethod, Path, BadPath, BadProtocol, Refuse, Goes, ParseLeft
<1>4. CASE Protocol
  <2>1. headerNum' = 0
    BY <1>4 DEF Protocol, Goes, HeapInv, heap
  <2> QED
    BY <1>1, <1>4, <2>1 DEF Protocol, Goes, ParseLeft
<1>5. CASE Header
  BY <1>1, <1>5 DEF Header, Goes, AtHeader, InTable, ParseLeft
<1>6. CASE HeaderTooLong \/ TooManyHeaders \/ HeadersEnd
  BY <1>1, <1>6 DEF HeaderTooLong, TooManyHeaders, HeadersEnd, Refuse, Goes, AtHeader, InTable, ParseLeft
<1>7. CASE Body \/ BodyEnds \/ NoPostType
  BY <1>7 DEF Body, BodyEnds, NoPostType, Refuse, Goes, ParseLeft
<1>8. CASE PostType
  <2>1. /\ stage = "post_type" /\ stage' = "members"
        /\ todo' \in {MessageMembers, MetaMembers, <<>>}
    BY <1>8 DEF PostType, Goes
  <2>2. Len(todo') \in 0..5
    <3>1. Len(MessageMembers) = 5 /\ Len(MetaMembers) = 4 /\ Len(<<>>) = 0
      BY DEF MessageMembers, MetaMembers
    <3> QED
      BY <2>1, <3>1
  <2>3. MembersLeft' \in 0..6
    <3>1. \A n \in 0..5 : n \in 0..6 /\ n + 1 \in 0..6
      OBVIOUS
    <3>2. MembersLeft' = Len(todo') \/ MembersLeft' = Len(todo') + 1
      BY DEF MembersLeft
    <3> QED
      BY <2>2, <3>1, <3>2
  <2> QED
    BY <2>1, <2>3 DEF ParseLeft
<1>9. CASE Member
  BY <1>9, MemberIsOneLess
<1>10. CASE MembersEnd
  <2>1. stage = "members" /\ stage' = "free"
    BY <1>10 DEF MembersEnd, Goes
  <2> QED
    BY <2>1, MembersAreFew DEF ParseLeft
<1>11. CASE FreeAll \/ Handled \/ StopCommand
  BY <1>11 DEF FreeAll, Handled, StopCommand, Return, Goes, ParseLeft
<1> QED
  BY <1>2, <1>3, <1>4, <1>5, <1>6, <1>7, <1>8, <1>9, <1>10, <1>11 DEF Next, Parse

(* Any text, however malformed, is parsed to an end: the loop thread, which *)
(* serves nobody else meanwhile, is never kept (hakuMind.c 216-483).        *)
THEOREM ParserRunsDown == Spec => []ParseFits /\ ParseShrinks
<1>1. AllInv => ParseFits
  BY BlocksLeft DEF AllInv
<1>2. AllInv /\ [Next]_vars => ((stage # "idle") => (ParseLeft' < ParseLeft)) \/ UNCHANGED vars
  BY ParseSteps DEF AllInv
<1> QED
  BY AllInvariant, <1>1, <1>2, PTL DEF Spec, ParseShrinks
=============================================================================
