------------------------- MODULE ServerConnProofs -------------------------
(***************************************************************************)
(* Proofs about ServerConn for any clients, requests and buffer: types, no  *)
(* freed handle is used, what stays allocated, and that the server is an    *)
(* EventFeed.                                                               *)
(***************************************************************************)
EXTENDS ServerConn, TLAPS

(* A body to be sent belongs to a request. *)
BodyInv == \A c \in Clients : body[c] => sent[c] \in Numbers

(* Pieces are on the wire in the order they were sent. *)
InOrder(p, q) == p.req < q.req \/ (p.req = q.req /\ p.part = "head" /\ q.part = "body")

WireInv(c) ==
  LET w == wire[c] IN
  /\ Feed!LastOf(handled[c]) \in 0..sent[c]
  /\ \A i \in 1..Len(w) :
       /\ w[i].req <= sent[c]
       /\ w[i].part # "body" => w[i].req > Feed!LastOf(handled[c])
       /\ body[c] => w[i].req < sent[c] \/ w[i].part = "head"
  /\ \A i, j \in 1..Len(w) : i < j => InOrder(w[i], w[j])

(* A patient client of whole requests has at most one on the way. *)
OneOnTheWay(c) ==
  LET w == wire[c] IN
  /\ ~body[c] /\ Len(w) <= 1
  /\ Len(w) = 1 => /\ w[1].part = "whole" /\ w[1].req = sent[c]
                   /\ Feed!LastOf(handled[c]) = sent[c] - 1
  /\ peer[c] = "away" => Len(w) = 0
  /\ peer[c] \in {"away", "here"} => acks[c] = sent[c] - Len(w)
  /\ peer[c] # "reset" => Feed!LastOf(handled[c]) = sent[c] - Len(w)

FeedInv == \A c \in Clients : WireInv(c) /\ (c \in Patient => OneOnTheWay(c))
-----------------------------------------------------------------------------
LEMMA TakenRange ==
  ASSUME TypeOK, NEW c \in Clients, wire[c] # <<>>
  PROVE  /\ wire[c] \in Seq(Pieces) /\ Taken(c) \in 1..Len(wire[c])
         /\ \A i \in 1..Len(wire[c]) : wire[c][i] \in Pieces
<1>1. wire[c] \in Seq(Pieces) /\ Len(wire[c]) \in Nat /\ Len(wire[c]) > 0
  BY DEF TypeOK
<1> QED
  BY <1>1, ServerAssumption DEF Taken

LEMMA TypeInit == Init => TypeOK /\ BodyInv
<1> SUFFICES ASSUME Init PROVE TypeOK /\ BodyInv
  OBVIOUS
<1>1. 0 \in 0..MaxRequests /\ <<>> \in Seq(Pieces) /\ <<>> \in Seq(Numbers)
  BY ServerAssumption
<1> QED
  BY <1>1 DEF Init, TypeOK, BodyInv

LEMMA TypeStep == TypeOK /\ BodyInv /\ [Next]_vars => TypeOK' /\ BodyInv'
<1> SUFFICES ASSUME TypeOK, BodyInv, [Next]_vars PROVE TypeOK' /\ BodyInv'
  OBVIOUS
<1> USE DEF TypeOK, BodyInv
<1>1. ASSUME NEW c \in Clients, Connect(c) PROVE TypeOK' /\ BodyInv'
  BY <1>1 DEF Connect, Serverless
<1>2. ASSUME NEW c \in Clients, MaySend(c), NEW part \in {"whole", "head"},
             Piece(c, sent[c] + 1, part), sent' = [sent EXCEPT ![c] = @ + 1]
      PROVE  /\ sent' \in [Clients -> 0..MaxRequests] /\ wire' \in [Clients -> Seq(Pieces)]
             /\ sent'[c] \in Numbers /\ \A d \in Clients \ {c} : sent'[d] = sent[d]
  <2>1. sent[c] + 1 \in Numbers
    BY <1>2, ServerAssumption DEF MaySend, Numbers
  <2>2. [req |-> sent[c] + 1, part |-> part] \in Pieces
    BY <2>1 DEF Pieces
  <2> QED
    BY <1>2, <2>1, <2>2, ServerAssumption DEF Piece, Numbers
<1>3. ASSUME NEW c \in Clients, SendWhole(c) PROVE TypeOK' /\ BodyInv'
  BY <1>2, <1>3 DEF SendWhole, Serverless
<1>4. ASSUME NEW c \in Clients, SendHead(c) PROVE TypeOK' /\ BodyInv'
  BY <1>2, <1>4 DEF SendHead, Serverless
<1>5. ASSUME NEW c \in Clients, SendBody(c) PROVE TypeOK' /\ BodyInv'
  <2>1. [req |-> sent[c], part |-> "body"] \in Pieces
    BY <1>5 DEF Pieces, SendBody
  <2> QED
    BY <1>5, <2>1 DEF SendBody, Piece, Serverless
<1>6. ASSUME NEW c \in Clients, Leave(c) PROVE TypeOK' /\ BodyInv'
  BY <1>6 DEF Leave, Serverless
<1>7. ASSUME NEW c \in Clients, Reset(c) PROVE TypeOK' /\ BodyInv'
  <2>1. PICK n \in 0..Len(wire[c]) : wire' = [wire EXCEPT ![c] = SubSeq(@, 1, n)]
    BY <1>7 DEF Reset
  <2>2. wire[c] \in Seq(Pieces)
    OBVIOUS
  <2>3. SubSeq(wire[c], 1, n) \in Seq(Pieces)
    BY <2>2
  <2> QED
    BY <1>7, <2>1, <2>3 DEF Reset, Serverless
<1>8. CASE Poll
  BY <1>8 DEF Poll, clientVars
<1>9. CASE CloseHandles
  BY <1>9 DEF CloseHandles, clientVars
<1>10. ASSUME NEW c \in Clients, OnNewConnection(c) PROVE TypeOK' /\ BodyInv'
  BY <1>10 DEF OnNewConnection, Callback, clientVars
<1>11. ASSUME NEW c \in Clients, OnRead(c) PROVE TypeOK' /\ BodyInv'
  <2>1. /\ wire[c] \in Seq(Pieces) /\ Taken(c) \in 1..Len(wire[c]) /\ Len(wire[c]) \in Nat
        /\ wire[c][1] \in Pieces
    BY <1>11, TakenRange DEF OnRead
  <2>2. SubSeq(wire[c], Taken(c) + 1, Len(wire[c])) \in Seq(Pieces)
    BY <2>1
  <2>3. wire' \in [Clients -> Seq(Pieces)]
    BY <1>11, <2>2 DEF OnRead
  <2>4. wire[c][1].req \in Numbers
    BY <2>1 DEF Pieces
  <2>5. handled' \in [Clients -> Seq(Numbers)]
    BY <1>11, <2>4 DEF OnRead, NewThread
  <2>6. stop' \in BOOLEAN /\ ready' \subseteq Clients
    BY <1>11 DEF OnRead
  <2>7. /\ writes' \in [Clients -> Nat] /\ buffers' \in [Clients -> Nat]
        /\ reads' \in [Clients -> Nat] /\ acks' \in [Clients -> Nat]
    BY <1>11 DEF OnRead
  <2>8. UNCHANGED <<peer, sent, body, handle, phase>>
    BY <1>11 DEF OnRead, clientVars
  <2> QED
    BY <2>3, <2>5, <2>6, <2>7, <2>8
<1>12. ASSUME NEW c \in Clients, OnEnd(c) \/ OnNothing(c) PROVE TypeOK' /\ BodyInv'
  BY <1>12 DEF OnEnd, OnNothing, Close, FreeBuffer, Callback, clientVars
<1>13. ASSUME NEW c \in Clients, OnWrite(c) PROVE TypeOK' /\ BodyInv'
  BY <1>13 DEF OnWrite, clientVars
<1>14. CASE UNCHANGED vars
  BY <1>14 DEF vars
<1> QED
  BY <1>1, <1>3, <1>4, <1>5, <1>6, <1>7, <1>8, <1>9, <1>10, <1>11, <1>12, <1>13, <1>14
     DEF Next, ClientStep, LoopStep

(* The variables of the server and its clients keep their types.            *)
THEOREM TypeCorrect == Spec => []TypeOK
<1> QED
  BY TypeInit, TypeStep, PTL DEF Spec

LEMMA Typed == Spec => [](TypeOK /\ BodyInv)
<1> QED
  BY TypeInit, TypeStep, PTL DEF Spec
-----------------------------------------------------------------------------
(* No callback uses a freed handle (server.c 18-21, 29-35, 68).             *)
THEOREM HandlesStayAlive == Spec => []HandleAlive
<1>1. Init => HandleAlive
  <2> SUFFICES ASSUME Init PROVE HandleAlive
    OBVIOUS
  <2>1. \A c \in Clients : writes[c] = 0
    BY DEF Init
  <2>2. ready = {}
    BY DEF Init
  <2>3. ASSUME NEW c \in Clients PROVE ~(writes[c] > 0)
    <3>1. writes[c] = 0
      BY <2>1
    <3> QED
      BY <3>1, SMT
  <2> QED
    BY <2>1, <2>2, <2>3 DEF HandleAlive
<1>2. TypeOK /\ HandleAlive /\ [Next]_vars => HandleAlive'
  <2> SUFFICES ASSUME TypeOK, HandleAlive, [Next]_vars PROVE HandleAlive'
    OBVIOUS
  <2> USE DEF HandleAlive, TypeOK
  <2>1. CASE ClientStep \/ UNCHANGED vars
    <3>1. UNCHANGED <<handle, writes, ready>>
      BY <2>1 DEF ClientStep, vars, Connect, SendWhole, SendHead, SendBody, Leave, Reset, Serverless
    <3> QED
      BY <3>1
  <2>2. CASE Poll
    <3>1. \A c \in ready' : handle[c] \in {"none", "open"}
      BY <2>2 DEF Poll, Readable
    <3> QED
      BY <2>2, <3>1 DEF Poll
  <2>3. CASE CloseHandles
    BY <2>3 DEF CloseHandles
  <2>4. ASSUME NEW c \in Clients, OnNewConnection(c) PROVE HandleAlive'
    <3>1. ready' = ready \ {c} /\ writes' = writes /\ writes[c] = 0
      BY <2>4 DEF OnNewConnection, Callback
    <3> QED
      BY <2>4, <3>1 DEF OnNewConnection
  <2>5. ASSUME NEW c \in Clients, OnRead(c) PROVE HandleAlive'
    BY <2>5 DEF OnRead
  <2>6. ASSUME NEW c \in Clients, OnEnd(c) PROVE HandleAlive'
    BY <2>6 DEF OnEnd, Callback, Close
  <2>7. ASSUME NEW c \in Clients, OnNothing(c) PROVE HandleAlive'
    BY <2>7 DEF OnNothing, Callback
  <2>8. ASSUME NEW c \in Clients, OnWrite(c) PROVE HandleAlive'
    BY <2>8 DEF OnWrite
  <2> QED
    BY <2>1, <2>2, <2>3, <2>4, <2>5, <2>6, <2>7, <2>8 DEF Next, LoopStep
<1> QED
  BY Typed, <1>1, <1>2, PTL DEF Spec

(* A connection leaves one buffer for each read with data (server.c 59, 73). *)
THEOREM LeaksAreRequests == Spec => []OnlyRequestsLeak
<1>1. Init => OnlyRequestsLeak
  BY DEF Init, OnlyRequestsLeak
<1>2. TypeOK /\ OnlyRequestsLeak /\ [Next]_vars => OnlyRequestsLeak'
  <2> SUFFICES ASSUME TypeOK, OnlyRequestsLeak, [Next]_vars PROVE OnlyRequestsLeak'
    OBVIOUS
  <2>1. CASE UNCHANGED <<buffers, reads>>
    BY <2>1 DEF OnlyRequestsLeak
  <2>2. ASSUME NEW c \in Clients, OnRead(c) PROVE OnlyRequestsLeak'
    BY <2>2 DEF OnRead, OnlyRequestsLeak, TypeOK
  <2>3. UNCHANGED <<buffers, reads>> \/ \E c \in Clients : OnRead(c)
    BY DEF Next, LoopStep, ClientStep, vars, Connect, SendWhole, SendHead, SendBody, Leave, Reset,
           Serverless, Poll, CloseHandles, OnNewConnection, OnEnd, OnNothing, OnWrite, FreeBuffer
  <2> QED
    BY <2>1, <2>2, <2>3
<1> QED
  BY Typed, <1>1, <1>2, PTL DEF Spec
-----------------------------------------------------------------------------
(* A step of another connection, or one that leaves these alone. *)
LEMMA FeedSame ==
  ASSUME NEW c \in Clients, WireInv(c), c \in Patient => OneOnTheWay(c),
         UNCHANGED <<wire[c], handled[c], sent[c], body[c], acks[c]>>,
         \/ peer'[c] = peer[c]
         \/ peer[c] = "here" /\ peer'[c] = "left"
         \/ peer[c] = "away" /\ peer'[c] = "here"
  PROVE  WireInv(c)' /\ (c \in Patient => OneOnTheWay(c))'
  BY DEF WireInv, OneOnTheWay, InOrder, Feed!LastOf

LEMMA LastOfTyped ==
  ASSUME NEW s, s \in Seq(Numbers) PROVE Feed!LastOf(s) \in Nat
<1>1. CASE s = <<>>
  BY <1>1 DEF Feed!LastOf
<1>2. CASE s # <<>>
  <2>1. s[Len(s)] \in Numbers
    BY <1>2
  <2> QED
    BY <1>2, <2>1, ServerAssumption DEF Feed!LastOf, Numbers
<1> QED
  BY <1>1, <1>2

LEMMA LastOfAppend ==
  ASSUME NEW s, s \in Seq(Numbers), NEW n \in Numbers PROVE Feed!LastOf(Append(s, n)) = n
<1>1. Len(Append(s, n)) = Len(s) + 1 /\ Append(s, n)[Len(s) + 1] = n /\ Append(s, n) # <<>>
  OBVIOUS
<1> QED
  BY <1>1 DEF Feed!LastOf

(* One more piece on the wire of c, as the three ways to send one do.       *)
LEMMA PieceSent ==
  ASSUME TypeOK, BodyInv, NEW c \in Clients, WireInv(c),
         NEW n \in Numbers, NEW part \in {"whole", "head", "body"}, Piece(c, n, part),
         n = sent'[c], sent[c] \in Nat, sent'[c] \in Nat, UNCHANGED handled,
         \/ part = "whole" /\ n = sent[c] + 1 /\ ~body'[c] /\ ~body[c]
         \/ part = "head" /\ n = sent[c] + 1 /\ ~body[c]
         \/ part = "body" /\ n = sent[c] /\ body[c] /\ ~body'[c]
  PROVE  WireInv(c)'
<1> DEFINE w == wire[c]
           p == [req |-> n, part |-> part]
<1>1. w \in Seq(Pieces) /\ Len(w) \in Nat /\ \A i \in 1..Len(w) : w[i] \in Pieces
  BY DEF TypeOK
<1>2. p \in Pieces /\ n \in Nat
  BY ServerAssumption DEF Pieces, Numbers
<1>3. wire'[c] = Append(w, p)
  BY DEF Piece, TypeOK
<1>4. /\ Len(wire'[c]) = Len(w) + 1 /\ wire'[c][Len(w) + 1] = p
      /\ \A i \in 1..Len(w) : wire'[c][i] = w[i]
  BY <1>1, <1>2, <1>3
<1>5. Feed!LastOf(handled[c]) \in 0..sent[c] /\ Feed!LastOf(handled'[c]) = Feed!LastOf(handled[c])
  BY DEF WireInv
<1>6. \A i \in 1..Len(w) : w[i].req \in Nat /\ w[i].part \in {"whole", "head", "body"}
  BY <1>1, ServerAssumption DEF Pieces, Numbers
<1>7. Feed!LastOf(handled[c])' \in 0..sent'[c]
  BY <1>5
<1>8. ASSUME NEW i \in 1..Len(wire'[c])
      PROVE  /\ wire'[c][i].req <= sent'[c]
             /\ wire'[c][i].part # "body" => wire'[c][i].req > Feed!LastOf(handled'[c])
             /\ body'[c] => wire'[c][i].req < sent'[c] \/ wire'[c][i].part = "head"
  <2>1. CASE i = Len(w) + 1
    BY <2>1, <1>2, <1>4, <1>5
  <2>2. CASE i \in 1..Len(w)
    <3>1. wire'[c][i] = w[i] /\ w[i].req \in Nat
      BY <2>2, <1>4, <1>6
    <3>2. /\ w[i].req <= sent[c]
          /\ w[i].part # "body" => w[i].req > Feed!LastOf(handled[c])
      BY <2>2 DEF WireInv
    <3>3. body'[c] => sent'[c] = sent[c] + 1
      OBVIOUS
    <3>4. sent[c] <= sent'[c]
      OBVIOUS
    <3> QED
      BY <3>1, <3>2, <3>3, <3>4, <1>5
  <2> QED
    BY <2>1, <2>2, <1>1, <1>4
<1>9. ASSUME NEW i \in 1..Len(wire'[c]), NEW j \in 1..Len(wire'[c]), i < j
      PROVE  InOrder(wire'[c][i], wire'[c][j])
  <2>1. CASE j = Len(w) + 1
    <3>1. i \in 1..Len(w) /\ wire'[c][i] = w[i] /\ wire'[c][j] = p
      BY <2>1, <1>1, <1>4, <1>9
    <3>2. w[i].req <= sent[c] /\ (body[c] => w[i].req < sent[c] \/ w[i].part = "head")
      BY <3>1 DEF WireInv
    <3> QED
      BY <3>1, <3>2, <1>2, <1>6 DEF InOrder
  <2>2. CASE j \in 1..Len(w)
    <3>1. i \in 1..Len(w) /\ wire'[c][i] = w[i] /\ wire'[c][j] = w[j]
      BY <2>2, <1>1, <1>4, <1>9
    <3>2. InOrder(w[i], w[j])
      BY <2>2, <3>1, <1>9 DEF WireInv
    <3> QED
      BY <3>1, <3>2
  <2> QED
    BY <2>1, <2>2, <1>1, <1>4
<1> QED
  BY <1>7, <1>8, <1>9 DEF WireInv

LEMMA FeedInit == Init => FeedInv
<1> SUFFICES ASSUME Init, NEW c \in Clients PROVE WireInv(c) /\ OneOnTheWay(c)
  BY DEF FeedInv
<1>1. wire[c] = <<>> /\ handled[c] = <<>> /\ sent[c] = 0 /\ ~body[c] /\ acks[c] = 0
  BY DEF Init
<1>2. Feed!LastOf(handled[c]) = 0 /\ Len(wire[c]) = 0
  BY <1>1 DEF Feed!LastOf
<1>3. WireInv(c)
  BY <1>1, <1>2 DEF WireInv
<1>4. 0 = 0 - 0 /\ 0 <= 1 /\ 0 # 1
  OBVIOUS
<1>5. OneOnTheWay(c)
  <2> DEFINE len == Len(wire[c])
             last == Feed!LastOf(handled[c])
  <2>1. len = 0 /\ last = 0 /\ sent[c] = 0 /\ acks[c] = 0 /\ ~body[c]
    BY <1>1, <1>2
  <2>2. len <= 1 /\ ~(len = 1) /\ acks[c] = sent[c] - len /\ last = sent[c] - len
    <3> HIDE DEF len, last
    <3> QED
      BY <2>1, <1>4
  <2> QED
    BY <2>1, <2>2 DEF OneOnTheWay
<1> QED
  BY <1>3, <1>5

(* A read takes the first pieces and handles at most the first request.     *)
LEMMA ReadKeeps ==
  ASSUME TypeOK, NEW c \in Clients, WireInv(c), c \in Patient => OneOnTheWay(c), OnRead(c)
  PROVE  WireInv(c)' /\ (c \in Patient => OneOnTheWay(c))'
<1> DEFINE w == wire[c]
           t == Taken(c)
           n == w[1].req
<1>1. w \in Seq(Pieces) /\ Len(w) \in Nat /\ t \in 1..Len(w) /\ \A i \in 1..Len(w) : w[i] \in Pieces
  BY TakenRange DEF OnRead, TypeOK
<1>2. /\ Len(wire'[c]) = Len(w) - t
      /\ \A i \in 1..Len(wire'[c]) : wire'[c][i] = w[i + t] /\ i + t \in 1..Len(w) /\ i + t > 1
  <2>1. wire'[c] = SubSeq(w, t + 1, Len(w))
    BY DEF OnRead, TypeOK
  <2>2. t \in Nat /\ t + 1 >= 1 /\ t + 1 <= Len(w) + 1
    BY <1>1
  <2> HIDE DEF w, t
  <2>3. /\ Len(SubSeq(w, t + 1, Len(w))) = Len(w) - t
        /\ \A i \in 1..Len(w) - t : SubSeq(w, t + 1, Len(w))[i] = w[i + t]
    BY <1>1, <2>2
  <2>4. \A i \in 1..Len(w) - t : i + t \in 1..Len(w) /\ i + t > 1
    BY <1>1, <2>2
  <2> QED
    BY <2>1, <2>3, <2>4
<1>3. \A i \in 1..Len(w) : w[i].req \in Nat /\ w[i].req \in Numbers /\ w[i].part \in {"whole", "head", "body"}
  BY <1>1, ServerAssumption DEF Pieces, Numbers
<1>4. UNCHANGED <<sent, body, peer>> /\ 1 \in 1..Len(w)
  BY <1>1 DEF OnRead, clientVars
<1>5. Feed!LastOf(handled[c])' = IF Understood(c) THEN n ELSE Feed!LastOf(handled[c])
  BY <1>3, <1>4, LastOfAppend DEF OnRead, NewThread, TypeOK
<1>6. Understood(c) => w[1].part # "body"
  BY DEF Understood
<1>7. WireInv(c)'
  <2>1. Feed!LastOf(handled[c])' \in 0..sent'[c]
    BY <1>3, <1>4, <1>5 DEF WireInv
  <2>2. ASSUME NEW i \in 1..Len(wire'[c])
        PROVE  /\ wire'[c][i].req <= sent'[c]
               /\ wire'[c][i].part # "body" => wire'[c][i].req > Feed!LastOf(handled'[c])
               /\ body'[c] => wire'[c][i].req < sent'[c] \/ wire'[c][i].part = "head"
    <3>1. wire'[c][i] = w[i + t] /\ i + t \in 1..Len(w) /\ 1 < i + t
      BY <1>2
    <3>2. InOrder(w[1], w[i + t])
      BY <3>1, <1>4 DEF WireInv
    <3> QED
      BY <3>1, <3>2, <1>3, <1>4, <1>5 DEF WireInv, InOrder
  <2>3. ASSUME NEW i \in 1..Len(wire'[c]), NEW j \in 1..Len(wire'[c]), i < j
        PROVE  InOrder(wire'[c][i], wire'[c][j])
    <3>1. wire'[c][i] = w[i + t] /\ wire'[c][j] = w[j + t] /\ i + t < j + t
          /\ i + t \in 1..Len(w) /\ j + t \in 1..Len(w)
      BY <1>1, <1>2, <2>3
    <3> QED
      BY <3>1 DEF WireInv
  <2> QED
    BY <2>1, <2>2, <2>3 DEF WireInv
<1>8. ASSUME c \in Patient PROVE OneOnTheWay(c)'
  <2>0. OneOnTheWay(c)
    BY <1>8
  <2>1. Len(w) = 1 /\ t = 1 /\ w[1].part = "whole" /\ n = sent[c] /\ Len(wire'[c]) = 0 /\ ~body[c]
    <3>1. Len(w) <= 1 /\ ~body[c]
      BY <2>0 DEF OneOnTheWay
    <3>2. Len(w) = 1 /\ t = 1
      <4>1. \A a, b \in Int : a <= 1 /\ b \in 1..a => a = 1 /\ b = 1
        OBVIOUS
      <4>2. Len(w) \in Int /\ t \in Int
        BY <1>1
      <4> HIDE DEF w, t
      <4> QED
        BY <3>1, <1>1, <4>1, <4>2
    <3> QED
      BY <3>1, <3>2, <2>0, <1>2 DEF OneOnTheWay
  <2>2. Feed!LastOf(handled[c])' = sent[c]
    BY <1>5, <2>1 DEF Understood
  <2>3. peer[c] = "here" => acks'[c] = sent[c]
    BY <1>8, <2>1 DEF OneOnTheWay, OnRead, TypeOK
  <2>4. peer[c] # "away"
    BY <2>0, <2>1 DEF OneOnTheWay
  <2> QED
    BY <1>4, <2>1, <2>2, <2>3, <2>4 DEF OneOnTheWay, TypeOK
<1> QED
  BY <1>7, <1>8
LEMMA FeedStep == TypeOK /\ BodyInv /\ FeedInv /\ [Next]_vars => FeedInv'
<1> SUFFICES ASSUME TypeOK, BodyInv, FeedInv, [Next]_vars, NEW c \in Clients
             PROVE  WireInv(c)' /\ (c \in Patient => OneOnTheWay(c))'
  BY DEF FeedInv
<1>0. WireInv(c) /\ (c \in Patient => OneOnTheWay(c))
  BY DEF FeedInv
<1>1. CASE /\ UNCHANGED <<wire[c], handled[c], sent[c], body[c], acks[c]>>
           /\ \/ peer'[c] = peer[c]
              \/ peer[c] = "here" /\ peer'[c] = "left"
              \/ peer[c] = "away" /\ peer'[c] = "here"
  BY <1>0, <1>1, FeedSame
<1>2. CASE SendWhole(c) \/ SendHead(c)
  <2>1. PICK part \in {"whole", "head"} : /\ Piece(c, sent[c] + 1, part)
                                          /\ part = "head" => c \notin Patient
                                          /\ part = "whole" => body'[c] = body[c]
    BY <1>2 DEF SendWhole, SendHead
  <2>2. /\ MaySend(c) /\ sent'[c] = sent[c] + 1 /\ sent[c] \in Nat /\ UNCHANGED <<handled, acks, peer>>
        /\ sent[c] + 1 \in Numbers
    BY <1>2, ServerAssumption DEF SendWhole, SendHead, Serverless, MaySend, TypeOK, Numbers
  <2>3. ~body[c]
    BY <2>2 DEF MaySend
  <2>4. WireInv(c)'
    BY <1>0, <2>1, <2>2, <2>3, PieceSent
  <2>5. ASSUME c \in Patient PROVE OneOnTheWay(c)'
    <3>1. /\ acks[c] = sent[c] - Len(wire[c]) /\ acks[c] >= sent[c] /\ Len(wire[c]) \in Nat
          /\ peer[c] = "here" /\ Feed!LastOf(handled[c]) = sent[c] - Len(wire[c])
      BY <1>0, <2>2, <2>5 DEF OneOnTheWay, MaySend, TypeOK
    <3>2. Len(wire[c]) = 0 /\ wire[c] \in Seq(Pieces)
      BY <3>1, <2>2 DEF TypeOK
    <3>3. part = "whole" /\ wire'[c] = Append(wire[c], [req |-> sent[c] + 1, part |-> "whole"])
      BY <2>1, <2>5 DEF Piece, TypeOK
    <3>4. Len(wire'[c]) = 1 /\ wire'[c][1] = [req |-> sent[c] + 1, part |-> "whole"]
      BY <3>2, <3>3
    <3>5. acks'[c] = sent'[c] - 1 /\ Feed!LastOf(handled[c])' = sent'[c] - 1
      BY <3>1, <3>2, <2>2
    <3> QED
      BY <2>1, <2>2, <2>3, <3>1, <3>3, <3>4, <3>5 DEF OneOnTheWay
  <2> QED
    BY <2>4, <2>5
<1>3. CASE SendBody(c)
  <2>1. /\ Piece(c, sent[c], "body") /\ body[c] /\ ~body'[c] /\ sent' = sent
        /\ sent[c] \in Numbers /\ sent[c] \in Nat /\ handled' = handled
    BY <1>3, ServerAssumption DEF SendBody, Serverless, BodyInv, TypeOK, Numbers
  <2>2. WireInv(c)'
    BY <1>0, <2>1, PieceSent
  <2>3. c \notin Patient
    BY <1>0, <2>1 DEF OneOnTheWay
  <2> QED
    BY <2>2, <2>3
<1>4. CASE Reset(c)
  <2>1. PICK n \in 0..Len(wire[c]) : wire'[c] = SubSeq(wire[c], 1, n)
    BY <1>4 DEF Reset, TypeOK
  <2>2. peer'[c] = "reset" /\ UNCHANGED <<sent, body, handled, acks>>
    BY <1>4 DEF Reset, Serverless, TypeOK
  <2>3. wire[c] \in Seq(Pieces) /\ Len(wire[c]) \in Nat
    BY DEF TypeOK
  <2>4. /\ Len(wire'[c]) = n /\ \A i \in 1..Len(wire'[c]) : wire'[c][i] = wire[c][i]
        /\ 1..Len(wire'[c]) \subseteq 1..Len(wire[c])
    BY <2>1, <2>3
  <2>5. WireInv(c)'
    BY <1>0, <2>2, <2>4 DEF WireInv
  <2>6. ASSUME c \in Patient PROVE OneOnTheWay(c)'
    <3>1. n <= 1 /\ (n = 1 => Len(wire[c]) = 1)
      <4>1. Len(wire[c]) <= 1
        BY <1>0, <2>6 DEF OneOnTheWay
      <4>2. \A a, b \in Nat : a <= 1 /\ b <= a => b <= 1 /\ (b = 1 => a = 1)
        OBVIOUS
      <4>3. n \in Nat /\ n <= Len(wire[c])
        BY <2>3
      <4> QED
        BY <4>1, <4>2, <4>3, <2>3
    <3>2. Len(wire'[c]) <= 1 /\ (Len(wire'[c]) = 1 => Len(wire[c]) = 1 /\ wire'[c][1] = wire[c][1])
      BY <2>4, <3>1
    <3> QED
      BY <1>0, <2>2, <2>6, <3>2 DEF OneOnTheWay
  <2> QED
    BY <2>5, <2>6
<1>5. CASE OnRead(c)
  BY <1>0, <1>5, ReadKeeps
<1>6. CASE ClientStep
  <2>1. ASSUME NEW d \in Clients, d # c,
               Connect(d) \/ SendWhole(d) \/ SendHead(d) \/ SendBody(d) \/ Leave(d) \/ Reset(d)
        PROVE  UNCHANGED <<wire[c], handled[c], sent[c], body[c], acks[c], peer[c]>>
    BY <2>1 DEF Connect, SendWhole, SendHead, SendBody, Leave, Reset, Piece, Serverless, TypeOK
  <2>2. CASE Connect(c) \/ Leave(c)
    <3>1. UNCHANGED <<wire[c], handled[c], sent[c], body[c], acks[c]>>
          /\ \/ peer[c] = "here" /\ peer'[c] = "left"
             \/ peer[c] = "away" /\ peer'[c] = "here"
      BY <2>2 DEF Connect, Leave, Serverless, TypeOK
    <3> QED
      BY <3>1, <1>1
  <2> QED
    BY <1>6, <2>1, <2>2, <1>1, <1>2, <1>3, <1>4 DEF ClientStep
<1>7. CASE LoopStep
  <2>1. ASSUME NEW d \in Clients, d # c, OnRead(d)
        PROVE  UNCHANGED <<wire[c], handled[c], sent[c], body[c], acks[c], peer[c]>>
    BY <2>1 DEF OnRead, NewThread, clientVars, TypeOK
  <2>2. CASE Poll \/ CloseHandles
             \/ \E d \in Clients : OnNewConnection(d) \/ OnEnd(d) \/ OnNothing(d)
    <3>1. UNCHANGED <<wire, handled, sent, body, acks, peer>>
      BY <2>2 DEF Poll, CloseHandles, OnNewConnection, OnEnd, OnNothing, Callback, clientVars
    <3> QED
      BY <3>1, <1>1
  <2> QED
    BY <1>7, <2>1, <2>2, <1>1, <1>5 DEF LoopStep
<1>8. CASE UNCHANGED vars \/ \E d \in Clients : OnWrite(d)
  <2>1. UNCHANGED <<wire, handled, sent, body, acks, peer>>
    BY <1>8 DEF vars, OnWrite, clientVars
  <2> QED
    BY <2>1, <1>1
<1> QED
  BY <1>6, <1>7, <1>8 DEF Next

LEMMA FeedInvariant == Spec => [](TypeOK /\ BodyInv /\ FeedInv)
<1>1. Init => TypeOK /\ BodyInv /\ FeedInv
  BY TypeInit, FeedInit
<1>2. TypeOK /\ BodyInv /\ FeedInv /\ [Next]_vars => (TypeOK /\ BodyInv /\ FeedInv)'
  BY TypeStep, FeedStep
<1> QED
  BY <1>1, <1>2, PTL DEF Spec

(* The server is an EventFeed: the requests of a connection are handled in  *)
(* order, none twice, and none of a patient client's whole ones is left out *)
(* (server.c 37-59).                                                        *)
THEOREM ServerFeedsInOrder == Spec => FeedsInOrder
<1>1. Init => Feed!Init
  BY DEF Init, Feed!Init
<1>2. TypeOK /\ BodyInv /\ FeedInv /\ [Next]_vars => [Feed!Next]_(Feed!vars)
  <2> SUFFICES ASSUME TypeOK, BodyInv, FeedInv, [Next]_vars PROVE [Feed!Next]_(Feed!vars)
    OBVIOUS
  <2>1. ASSUME NEW c \in Clients, SendWhole(c) \/ SendHead(c) PROVE Feed!Next
    BY <2>1 DEF SendWhole, SendHead, Serverless, Feed!Next, Feed!Send
  <2>2. ASSUME NEW c \in Clients, OnRead(c), Understood(c) PROVE Feed!Next
    <3> DEFINE n == wire[c][1].req
    <3>1. /\ 1 \in 1..Len(wire[c]) /\ wire[c][1] \in Pieces /\ n \in Numbers
      BY <2>2, TakenRange DEF OnRead, Pieces
    <3>2. WireInv(c) /\ (c \in Patient => OneOnTheWay(c)) /\ wire[c][1].part # "body"
      BY <2>2 DEF FeedInv, Understood
    <3>3. n <= sent[c] /\ n > Feed!LastOf(handled[c]) /\ n \in 1..sent[c]
      BY <3>1, <3>2, ServerAssumption DEF WireInv, Numbers, TypeOK
    <3>4. ASSUME c \in Patient PROVE n = Feed!LastOf(handled[c]) + 1
      <4>0. OneOnTheWay(c) /\ Len(wire[c]) \in Nat /\ sent[c] \in Nat
        BY <3>2, <3>4 DEF TypeOK
      <4>1. Len(wire[c]) = 1 /\ n = sent[c] /\ sent[c] \in Nat
        <5>1. Len(wire[c]) <= 1
          BY <4>0 DEF OneOnTheWay
        <5>2. Len(wire[c]) = 1
          <6>1. \A a \in Nat : a <= 1 /\ 1 \in 1..a => a = 1
            OBVIOUS
          <6> QED
            BY <6>1, <5>1, <4>0, <3>1
        <5> QED
          BY <5>2, <4>0 DEF OneOnTheWay
      <4>2. Feed!LastOf(handled[c]) = sent[c] - 1
        BY <3>2, <3>4, <4>1 DEF OneOnTheWay
      <4> QED
        BY <4>1, <4>2
    <3>5. handled' = [handled EXCEPT ![c] = Append(@, n)] /\ sent' = sent
      BY <2>2 DEF OnRead, NewThread, clientVars
    <3>6. Feed!Handle(c, n)
      BY <3>3, <3>4, <3>5, ServerAssumption DEF Feed!Handle
    <3> QED
      BY <3>3, <3>6 DEF Feed!Next
  <2>3. ASSUME NEW c \in Clients, OnRead(c), ~Understood(c) PROVE UNCHANGED Feed!vars
    BY <2>3 DEF OnRead, NewThread, clientVars, TypeOK, Feed!vars
  <2>4. ASSUME NEW c \in Clients, Connect(c) \/ SendBody(c) \/ Leave(c) \/ Reset(c)
        PROVE  UNCHANGED Feed!vars
    BY <2>4 DEF Connect, SendBody, Leave, Reset, Serverless, Feed!vars
  <2>5. CASE Poll \/ CloseHandles \/ UNCHANGED vars
             \/ \E c \in Clients : OnNewConnection(c) \/ OnEnd(c) \/ OnNothing(c) \/ OnWrite(c)
    BY <2>5 DEF Poll, CloseHandles, OnNewConnection, OnEnd, OnNothing, OnWrite, Callback, clientVars, vars, Feed!vars
  <2> QED
    BY <2>1, <2>2, <2>3, <2>4, <2>5 DEF Next, ClientStep, LoopStep
<1> QED
  BY FeedInvariant, <1>1, <1>2, PTL DEF Spec, FeedsInOrder, Feed!Spec
-----------------------------------------------------------------------------
(* What the order of EventFeed comes to: the requests handled of a client    *)
(* are some it has sent, each later than the one before; those of a patient  *)
(* client are all from the first on, and what it has sent is handled or      *)
(* still on the wire unless the connection was reset (server.c 37-59).       *)
EachInTurn ==
  \A c \in Clients :
    /\ \A i \in 1..Len(handled[c]) : handled[c][i] \in 1..sent[c]
    /\ \A i, j \in 1..Len(handled[c]) : i < j => handled[c][i] < handled[c][j]
    /\ c \in Patient =>
         /\ \A i \in 1..Len(handled[c]) : handled[c][i] = i
         /\ peer[c] # "reset" => Len(handled[c]) + Len(wire[c]) = sent[c]

(* Rising numbers, for a patient client 1, 2, 3 and so on.                   *)
InTurn(s, patient) ==
  /\ \A i, j \in 1..Len(s) : i < j => s[i] < s[j]
  /\ patient => \A i \in 1..Len(s) : s[i] = i

TurnInv == \A c \in Clients : InTurn(handled[c], c \in Patient)

LEMMA AppendInTurn ==
  ASSUME NEW s, s \in Seq(Numbers), NEW patient \in BOOLEAN, InTurn(s, patient),
         NEW n \in Numbers, n > Feed!LastOf(s), patient => n = Feed!LastOf(s) + 1
  PROVE  InTurn(Append(s, n), patient)
<1> DEFINE L == Len(s)
           t == Append(s, n)
<1>1. /\ L \in Nat /\ Len(t) = L + 1 /\ t[L + 1] = n
      /\ \A i \in 1..L : t[i] = s[i] /\ s[i] \in Nat
  BY ServerAssumption DEF Numbers
<1>2. n \in Nat
  BY ServerAssumption DEF Numbers
<1>3. L # 0 => s # <<>> /\ Feed!LastOf(s) = s[L] /\ L \in 1..L
  BY <1>1 DEF Feed!LastOf
<1>4. L = 0 => s = <<>> /\ Feed!LastOf(s) = 0
  BY DEF Feed!LastOf
<1>5. ASSUME NEW i \in 1..L PROVE s[i] < n
  <2>1. L # 0 /\ s[L] < n
    BY <1>1, <1>2, <1>3
  <2>2. i = L \/ i < L
    BY <1>1
  <2> QED
    BY <1>1, <1>2, <1>3, <2>1, <2>2 DEF InTurn
<1>6. patient => n = L + 1
  BY <1>1, <1>3, <1>4 DEF InTurn
<1> HIDE DEF t
<1>7. \A i \in 1..L + 1 : i = L + 1 \/ i \in 1..L
  BY <1>1
<1>8. ASSUME NEW i \in 1..L + 1, NEW j \in 1..L + 1, i < j PROVE t[i] < t[j]
  <2>1. i \in 1..L
    BY <1>1, <1>8
  <2>2. CASE j = L + 1
    BY <1>1, <1>5, <2>1, <2>2
  <2>3. CASE j \in 1..L
    BY <1>1, <1>8, <2>1, <2>3 DEF InTurn
  <2> QED
    BY <1>7, <2>2, <2>3
<1>9. ASSUME patient, NEW i \in 1..L + 1 PROVE t[i] = i
  BY <1>1, <1>6, <1>7, <1>9 DEF InTurn
<1>10. InTurn(t, patient)
  BY <1>1, <1>8, <1>9 DEF InTurn
<1> QED
  BY <1>10 DEF t

LEMMA TurnStep == TypeOK /\ TurnInv /\ [Feed!Next]_(Feed!vars) => TurnInv'
<1> SUFFICES ASSUME TypeOK, TurnInv, [Feed!Next]_(Feed!vars), NEW d \in Clients
             PROVE  InTurn(handled'[d], d \in Patient)
  BY DEF TurnInv
<1>1. InTurn(handled[d], d \in Patient) /\ handled[d] \in Seq(Numbers)
  BY DEF TurnInv, TypeOK
<1>2. CASE handled'[d] = handled[d]
  BY <1>1, <1>2
<1>3. ASSUME NEW c \in Clients, NEW n \in 1..sent[c], Feed!Handle(c, n)
      PROVE  InTurn(handled'[d], d \in Patient)
  <2>1. CASE c # d
    BY <1>2, <1>3, <2>1 DEF Feed!Handle, TypeOK
  <2>2. CASE c = d
    <3>1. n \in Numbers /\ n > Feed!LastOf(handled[d])
      BY <1>3, <2>2, ServerAssumption DEF Feed!Handle, TypeOK, Numbers
    <3>2. (d \in Patient) => n = Feed!LastOf(handled[d]) + 1
      BY <1>3, <2>2 DEF Feed!Handle
    <3>3. handled'[d] = Append(handled[d], n)
      BY <1>3, <2>2 DEF Feed!Handle, TypeOK
    <3>4. (d \in Patient) \in BOOLEAN
      OBVIOUS
    <3> QED
      BY <1>1, <3>1, <3>2, <3>3, <3>4, AppendInTurn
  <2> QED
    BY <2>1, <2>2
<1>4. CASE \E c \in Clients : Feed!Send(c)
  BY <1>2, <1>4 DEF Feed!Send
<1>5. CASE UNCHANGED Feed!vars
  BY <1>2, <1>5 DEF Feed!vars
<1> QED
  BY <1>3, <1>4, <1>5 DEF Feed!Next

(* No request is handled twice or out of turn, and none that a patient       *)
(* client sent is lost but with a reset: the safety half of RequestsHandled, *)
(* from the refinement of EventFeed.                                         *)
THEOREM NoneTwiceNoneLost == Spec => []EachInTurn
<1>1. Init => TurnInv
  <2> SUFFICES ASSUME Init, NEW c \in Clients PROVE InTurn(handled[c], c \in Patient)
    BY DEF TurnInv
  <2>1. handled[c] = <<>> /\ Len(handled[c]) = 0
    BY DEF Init
  <2> QED
    BY <2>1 DEF InTurn
<1>2. TypeOK /\ FeedInv /\ TurnInv => EachInTurn
  <2> SUFFICES ASSUME TypeOK, FeedInv, TurnInv, NEW c \in Clients
               PROVE  /\ \A i \in 1..Len(handled[c]) : handled[c][i] \in 1..sent[c]
                      /\ \A i, j \in 1..Len(handled[c]) : i < j => handled[c][i] < handled[c][j]
                      /\ c \in Patient =>
                           /\ \A i \in 1..Len(handled[c]) : handled[c][i] = i
                           /\ peer[c] # "reset" => Len(handled[c]) + Len(wire[c]) = sent[c]
    BY DEF EachInTurn
  <2> DEFINE h == handled[c]
             L == Len(handled[c])
  <2>1. /\ InTurn(h, c \in Patient) /\ WireInv(c) /\ (c \in Patient => OneOnTheWay(c))
        /\ h \in Seq(Numbers) /\ L \in Nat /\ sent[c] \in Nat /\ Len(wire[c]) \in Nat
        /\ \A i \in 1..L : h[i] \in Numbers /\ h[i] \in Nat /\ h[i] >= 1
    BY ServerAssumption DEF TurnInv, FeedInv, TypeOK, Numbers
  <2>2. Feed!LastOf(h) \in 0..sent[c]
    BY <2>1 DEF WireInv
  <2>3. L # 0 => Feed!LastOf(h) = h[L] /\ L \in 1..L
    BY <2>1 DEF Feed!LastOf
  <2>4. L = 0 => Feed!LastOf(h) = 0
    BY <2>1 DEF Feed!LastOf
  <2>5. ASSUME NEW i \in 1..L PROVE h[i] \in 1..sent[c]
    <3>1. L # 0 /\ (i = L \/ i < L)
      BY <2>1
    <3>2. h[i] <= h[L]
      BY <2>1, <2>3, <3>1 DEF InTurn
    <3> QED
      BY <2>1, <2>2, <2>3, <3>1, <3>2
  <2>6. ASSUME c \in Patient, peer[c] # "reset" PROVE L + Len(wire[c]) = sent[c]
    <3>1. Feed!LastOf(h) = sent[c] - Len(wire[c])
      BY <2>1, <2>6 DEF OneOnTheWay
    <3>2. Feed!LastOf(h) = L
      BY <2>1, <2>3, <2>4, <2>6 DEF InTurn
    <3> HIDE DEF L, h
    <3> QED
      BY <2>1, <3>1, <3>2
  <2> QED
    BY <2>1, <2>5, <2>6 DEF InTurn
<1> QED
  BY FeedInvariant, ServerFeedsInOrder, TurnStep, <1>1, <1>2, PTL DEF FeedsInOrder, Feed!Spec, Spec
=============================================================================
