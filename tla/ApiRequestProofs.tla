------------------------- MODULE ApiRequestProofs -------------------------
(***************************************************************************)
(* The type invariant of ApiRequest, and that a request is sent whole and   *)
(* its answer kept, for all numbers, texts, limits and answers.             *)
(***************************************************************************)
EXTENDS ApiRequest, TLAPS

(* The decimal digits of the call's chat *)
D == Decimal[chat]
WithChat == fn \notin {"friends", "groups"}

(* The digits found so far are the last of the number, back to front, and   *)
(* what is left of the number has the others.                               *)
DigitsInv ==
  pc = "digits" =>
    /\ chat \in Chats /\ j = 0
    /\ Len(Decimal[qid]) + Len(id) = Len(D)
    /\ \A k \in 1..Len(Decimal[qid]) : Decimal[qid][k] = D[k]
    /\ \A k \in 1..Len(id) : id[k] = D[Len(D) + 1 - k]

(* i digits at either end are in their places, the others turned round. *)
Turned(s, d, i) ==
  /\ Len(s) = Len(d) /\ 2 * i <= Len(s)
  /\ \A k \in 1..Len(s) :
       s[k] = IF k <= i \/ k > Len(s) - i THEN d[k] ELSE d[Len(s) + 1 - k]

SwapInv ==
  pc = "swap" =>
    chat \in Chats /\ Turned(id, D, j)

NumberInv ==
  /\ DigitsInv /\ SwapInv
  /\ pc \in {"digits", "swap"} => url = <<>> /\ WithChat
  /\ pc \in {"parms", "curl", "over"} /\ WithChat => id = D

(* The pieces written are the first of the call's; only an empty value can  *)
(* reach one past the limit.                                                *)
UrlInv ==
  /\ Len(url) <= Len(Parameters[fn])
  /\ \A k \in 1..Len(url) : url[k] = Parameters[fn][k]
  /\ Len(url) % 2 = 1 \/ Len(url) = 0 => length <= MaxParms
  /\ Sent => Len(url) = Len(Parameters[fn])

AnswerInv ==
  /\ pc \in {"digits", "swap", "parms"} => data = <<>> /\ received = <<>>
  /\ AnswerStored

IInv == TypeOK /\ NumberInv /\ UrlInv /\ AnswerInv
-----------------------------------------------------------------------------
(* Cutting the last digit off a number *)
LEMMA DigitCut ==
  ASSUME NEW n \in Numbers, n > 0
  PROVE /\ n \div 10 \in Numbers /\ n % 10 \in 0..9
        /\ Len(Decimal[n]) = Len(Decimal[n \div 10]) + 1
        /\ Decimal[n][Len(Decimal[n])] = n % 10
        /\ \A k \in 1..Len(Decimal[n \div 10]) : Decimal[n \div 10][k] = Decimal[n][k]
<1>1. n \in Int /\ n > 0
  BY ApiAssumption DEF ApiAssumption
<1>2. n \div 10 \in Numbers /\ Decimal[n] = Append(Decimal[n \div 10], n % 10)
  BY <1>1, DecimalAssumption DEF DecimalAssumption
<1>3. Decimal[n \div 10] \in Seq(0..9)
  BY <1>2, DecimalAssumption DEF DecimalAssumption
<1>4. n % 10 \in 0..9
  BY <1>1
<1> QED
  BY <1>2, <1>3, <1>4

LEMMA DecimalTypes ==
  /\ \A n \in Numbers : n \in Int /\ Decimal[n] \in Seq(0..9) /\ (~(n > 0) => Decimal[n] = <<>>)
  /\ Chats \subseteq Numbers /\ 0 \in Numbers
<1>1. ASSUME NEW n \in Numbers, ~(n > 0) PROVE Decimal[n] = <<>>
  BY <1>1, DecimalAssumption DEF DecimalAssumption
<1> QED
  BY <1>1, ApiAssumption, DecimalAssumption DEF ApiAssumption, DecimalAssumption

(* Of the digits of a chat's number the buffer holds no more than it has.   *)
LEMMA FitsIfFewer ==
  ASSUME NEW c \in Numbers, NEW s \in Seq(0..9), Len(s) <= Len(Decimal[c])
  PROVE  Len(Decimal[c]) < IdLen => Len(s) < IdLen
<1>1. Len(Decimal[c]) \in Nat /\ Len(s) \in Nat /\ IdLen \in Nat
  BY DecimalTypes, ApiAssumption DEF ApiAssumption
<1> QED
  BY <1>1

LEMMA AddressFits == ASSUME NEW f \in Calls PROVE AddressLen(f) \in 0..MaxParms
<1>1. Dir[f] \in Nat
  BY DEF Calls, Dir
<1> QED
  BY <1>1, ApiAssumption DEF AddressLen, ApiAssumption

(* The parameters of a call are pieces, and every other one is a name. *)
LEMMA ParametersArePieces ==
  ASSUME NEW f \in Calls
  PROVE /\ Parameters[f] \in Seq(Pieces)
        /\ \A k \in 1..Len(Parameters[f]) :
             k % 2 = 1 => Parameters[f][k] \in {"access_token", "user_id", "group_id", "message", "auto_escape"}
<1>1. f \in {"private", "group", "friends", "groups", "members"}
  BY DEF Calls, Dir
<1>2. CASE f = "private"
  <2>1. Parameters[f] = <<"access_token", "token", "user_id", "id", "message", "text", "auto_escape", "False">>
    BY <1>2 DEF Parameters
  <2> QED
    BY <2>1 DEF Pieces
<1>3. CASE f = "group"
  <2>1. Parameters[f] = <<"access_token", "token", "group_id", "id", "message", "text", "auto_escape", "False">>
    BY <1>3 DEF Parameters
  <2> QED
    BY <2>1 DEF Pieces
<1>4. CASE f = "friends" \/ f = "groups"
  <2>1. Parameters[f] = <<"access_token", "token">>
    BY <1>4 DEF Parameters
  <2> QED
    BY <2>1 DEF Pieces
<1>5. CASE f = "members"
  <2>1. Parameters[f] = <<"user_id", "id">>
    BY <1>5 DEF Parameters
  <2> QED
    BY <2>1 DEF Pieces
<1> QED
  BY <1>1, <1>2, <1>3, <1>4, <1>5

(* What a piece adds to the address: a name at least one character *)
LEMMA PieceLengths ==
  ASSUME TypeOK, NEW piece \in Pieces
  PROVE /\ LenOf(piece) \in Nat
        /\ piece \in {"access_token", "user_id", "group_id", "message", "auto_escape"} => LenOf(piece) > 0
<1>1. TokenLen \in Nat /\ msg \in Nat /\ Len(id) \in Nat
  BY ApiAssumption DEF ApiAssumption, TypeOK
<1> QED
  BY <1>1 DEF Pieces, LenOf

LEMMA Halves ==
  ASSUME NEW n \in Nat, NEW i \in Nat, i < n \div 2
  PROVE /\ 2 * (i + 1) <= n /\ i + 1 \in 1..n /\ n - i \in 1..n /\ i + 1 # n - i
        /\ ~(i + 1 <= i \/ i + 1 > n - i) /\ n + 1 - (i + 1) = n - i
        /\ ~(n - i <= i \/ n - i > n - i) /\ n + 1 - (n - i) = i + 1
        /\ \A k \in 1..n : k # n - i /\ k # i + 1 =>
             (k <= i + 1 \/ k > n - (i + 1) <=> k <= i \/ k > n - i)
<1>1. 2 * (i + 1) <= n
  OBVIOUS
<1> QED
  BY <1>1

(* Both ends of a sequence change places. *)
LEMMA SwapEnds ==
  ASSUME NEW d \in Seq(0..9), NEW s \in Seq(0..9), NEW i \in Nat, Turned(s, d, i), i < Len(s) \div 2
  PROVE LET t == [s EXCEPT ![i + 1] = s[Len(s) - i], ![Len(s) - i] = s[i + 1]]
        IN  t \in Seq(0..9) /\ Len(t) = Len(s) /\ Turned(t, d, i + 1)
<1> DEFINE n == Len(s)
           t == [s EXCEPT ![i + 1] = s[n - i], ![n - i] = s[i + 1]]
<1>1. n \in Nat /\ Len(d) = n
  BY DEF Turned
<1>2. /\ 2 * (i + 1) <= n /\ i + 1 \in 1..n /\ n - i \in 1..n /\ i + 1 # n - i
      /\ ~(i + 1 <= i \/ i + 1 > n - i) /\ n + 1 - (i + 1) = n - i
      /\ ~(n - i <= i \/ n - i > n - i) /\ n + 1 - (n - i) = i + 1
      /\ \A k \in 1..n : k # n - i /\ k # i + 1 =>
           (k <= i + 1 \/ k > n - (i + 1) <=> k <= i \/ k > n - i)
  BY <1>1, Halves
<1>3. t \in Seq(0..9) /\ Len(t) = n
  <2>1. s[n - i] \in 0..9 /\ s[i + 1] \in 0..9
    BY <1>2
  <2> DEFINE u == [s EXCEPT ![i + 1] = s[n - i]]
  <2>2. u \in Seq(0..9) /\ Len(u) = n
    BY <2>1
  <2>3. t = [u EXCEPT ![n - i] = s[i + 1]]
    OBVIOUS
  <2> HIDE DEF u, t
  <2> QED
    BY <2>1, <2>2, <2>3
<1>4. t[i + 1] = s[n - i] /\ t[n - i] = s[i + 1]
  <2>1. i + 1 \in DOMAIN s /\ n - i \in DOMAIN s /\ i + 1 # n - i
    BY <1>2
  <2> HIDE DEF n
  <2> QED
    BY <2>1
<1>5. \A k \in 1..n : k # n - i /\ k # i + 1 => t[k] = s[k]
  OBVIOUS
<1>6. \A k \in 1..n : s[k] = IF k <= i \/ k > n - i THEN d[k] ELSE d[n + 1 - k]
  BY DEF Turned
<1> HIDE DEF t, n
<1>7. s[i + 1] = d[n - i] /\ s[n - i] = d[i + 1]
  BY <1>2, <1>6
<1>8. ASSUME NEW k \in 1..n
      PROVE t[k] = IF k <= i + 1 \/ k > n - (i + 1) THEN d[k] ELSE d[n + 1 - k]
  <2>1. CASE k = n - i
    <3>1. k > n - (i + 1)
      BY <1>1, <2>1
    <3> QED
      BY <1>4, <1>7, <2>1, <3>1
  <2>2. CASE k = i + 1
    <3>1. k <= i + 1
      BY <2>2
    <3> QED
      BY <1>4, <1>7, <2>2, <3>1
  <2>3. CASE k # n - i /\ k # i + 1
    BY <1>2, <1>5, <1>6, <2>3
  <2> QED
    BY <2>1, <2>2, <2>3
<1>9. Turned(t, d, i + 1)
  BY <1>1, <1>2, <1>3, <1>8 DEF Turned
<1> QED
  BY <1>3, <1>9 DEF t, n
-----------------------------------------------------------------------------
LEMMA InitOK == Init => IInv
<1> SUFFICES ASSUME Init PROVE IInv
  OBVIOUS
<1>1. "friends" \in Calls /\ Len(Parameters["friends"]) \in Nat
  BY ParametersArePieces DEF Calls, Dir
<1>2. TypeOK
  <2>1. DigitsFit
    BY ApiAssumption DEF Init, DigitsFit, ApiAssumption
  <2> QED
    BY <1>1, <2>1, ApiAssumption DEF Init, TypeOK, Codes, ApiAssumption
<1>3. NumberInv
  BY DEF Init, NumberInv, DigitsInv, SwapInv
<1>4. UrlInv
  BY <1>1, ApiAssumption DEF Init, UrlInv, Sent, ApiAssumption
<1>5. AnswerInv
  BY DEF Init, AnswerInv, AnswerStored, Sent
<1> QED
  BY <1>2, <1>3, <1>4, <1>5 DEF IInv

(* A call starts with nothing of the one before. *)
LEMMA BeginOK ==
  ASSUME IInv, NEW f \in Calls, NEW c \in Chats \union {0}, NEW m \in Messages \union {0},
         f \notin {"friends", "groups"} => c \in Chats, Begin(f, c, m)
  PROVE IInv'
<1>1. c \in Numbers /\ Len(Parameters[f]) \in Nat
  BY DecimalTypes, ParametersArePieces
<1>2. AddressLen(f) \in 0..MaxParms
  BY AddressFits
<1>3. TypeOK'
  <2>1. DigitsFit'
    BY ApiAssumption DEF Begin, DigitsFit, ApiAssumption
  <2> QED
    BY <1>1, <1>2, <2>1, ApiAssumption DEF Begin, IInv, TypeOK, ApiAssumption
<1>4. NumberInv'
  <2>1. Decimal[c] \in Seq(0..9)
    BY <1>1, DecimalTypes
  <2>2. DigitsInv'
    BY <2>1 DEF Begin, DigitsInv, D
  <2> QED
    BY <2>2 DEF Begin, NumberInv, SwapInv, WithChat
<1>5. UrlInv'
  BY <1>1, <1>2, ApiAssumption DEF Begin, UrlInv, Sent, ApiAssumption
<1>6. AnswerInv'
  BY DEF Begin, AnswerInv, AnswerStored, Sent
<1> QED
  BY <1>3, <1>4, <1>5, <1>6 DEF IInv

LEMMA CallOK == IInv /\ Call => IInv'
<1> SUFFICES ASSUME IInv, Call PROVE IInv'
  OBVIOUS
<1>1. CASE Reply
  <2>1. PICK f \in Replies, u \in Chats, g \in Chats, m \in Messages :
          Begin(f, IF f = "group" THEN g ELSE u, m)
    BY <1>1 DEF Reply
  <2>2. f \in Calls
    BY DEF Replies, Calls, Dir
  <2> QED
    BY <2>1, <2>2, BeginOK
<1>2. CASE GetList
  <2>1. "friends" \in Calls /\ "groups" \in Calls /\ "members" \in Calls
    BY DEF Calls, Dir
  <2> QED
    BY <1>2, <2>1, BeginOK DEF GetList
<1>3. CASE ReplyRefused \/ ListRefused
  <2>1. /\ code' \in Codes /\ pc = "idle"
        /\ UNCHANGED <<pc, call, number, request, answer>>
    BY <1>3 DEF ReplyRefused, ListRefused, Refused, Codes
  <2>2. TypeOK'
    BY <2>1 DEF IInv, TypeOK, DigitsFit, call, number, request, answer
  <2>3. NumberInv'
    BY <2>1 DEF IInv, NumberInv, DigitsInv, SwapInv
  <2>4. UrlInv'
    BY <2>1 DEF IInv, UrlInv, Sent, call, request
  <2>5. AnswerInv'
    BY <2>1 DEF IInv, AnswerInv, AnswerStored, Sent
  <2> QED
    BY <2>2, <2>3, <2>4, <2>5 DEF IInv
<1> QED
  BY <1>1, <1>2, <1>3 DEF Call
-----------------------------------------------------------------------------
LEMMA DigitOK == IInv /\ Digit => IInv'
<1> SUFFICES ASSUME IInv, Digit PROVE IInv'
  OBVIOUS
<1>1. /\ pc = "digits" /\ pc' = "digits" /\ qid > 0 /\ qid \in Numbers
      /\ id' = Append(id, qid % 10) /\ qid' = qid \div 10
      /\ UNCHANGED <<fn, chat, msg, j, url, length, data, size, received, chunks, code>>
  BY DEF IInv, TypeOK, Digit, More, call, request, answer
<1>2. /\ qid \div 10 \in Numbers /\ qid % 10 \in 0..9
      /\ Len(Decimal[qid]) = Len(Decimal[qid \div 10]) + 1
      /\ Decimal[qid][Len(Decimal[qid])] = qid % 10
      /\ \A k \in 1..Len(Decimal[qid \div 10]) : Decimal[qid \div 10][k] = Decimal[qid][k]
  BY <1>1, DigitCut
<1>3. Decimal[qid \div 10] \in Seq(0..9) /\ Decimal[qid] \in Seq(0..9) /\ id \in Seq(0..9)
  BY <1>1, <1>2, DecimalTypes DEF IInv, TypeOK, DigitsFit
<1>4. /\ chat \in Chats /\ j = 0 /\ Len(Decimal[qid]) + Len(id) = Len(D)
      /\ \A k \in 1..Len(Decimal[qid]) : Decimal[qid][k] = D[k]
      /\ \A k \in 1..Len(id) : id[k] = D[Len(D) + 1 - k]
  BY <1>1 DEF IInv, NumberInv, DigitsInv
<1>5. D \in Seq(0..9) /\ D' = D /\ chat \in Numbers
  BY <1>1, <1>4, DecimalTypes DEF D
<1>6. id' \in Seq(0..9) /\ Len(id') = Len(id) + 1 /\ Len(Decimal[qid']) + Len(id') = Len(D)
  <2>1. id' \in Seq(0..9) /\ Len(id') = Len(id) + 1
    BY <1>1, <1>2, <1>3
  <2>2. Len(Decimal[qid]) + Len(id) = Len(D) /\ Len(Decimal[qid']) + 1 = Len(Decimal[qid])
    BY <1>1, <1>2, <1>4
  <2>3. Len(id) \in Nat /\ Len(Decimal[qid']) \in Nat /\ Len(Decimal[qid]) \in Nat
    BY <1>1, <1>3
  <2>4. Len(id') \in Nat
    BY <2>1, <2>3
  <2>5. \A a, b, a1, b1 \in Nat : a1 + 1 = a /\ b1 = b + 1 => a1 + b1 = a + b
    OBVIOUS
  <2>6. Len(Decimal[qid']) + Len(id') = Len(Decimal[qid]) + Len(id)
    BY <2>1, <2>2, <2>3, <2>4, <2>5
  <2> QED
    BY <2>1, <2>2, <2>6
<1>7. TypeOK'
  <2>1. Len(id') <= Len(Decimal[chat]) /\ j' \in 0..Len(id')
    <3>1. Len(D) \in Nat /\ Len(id') \in Nat /\ Len(Decimal[qid']) \in Nat /\ j' = 0
      BY <1>1, <1>3, <1>4, <1>5, <1>6
    <3>2. Len(Decimal[qid']) + Len(id') = Len(D)
      BY <1>6
    <3> QED
      BY <3>1, <3>2 DEF D
  <2>2. DigitsFit'
    BY <1>1, <1>5, <1>6, <2>1, FitsIfFewer DEF DigitsFit
  <2> QED
    BY <1>1, <1>2, <1>6, <2>1, <2>2 DEF IInv, TypeOK, DigitsFit
<1>8. NumberInv'
  <2>1. \A k \in 1..Len(Decimal[qid']) : Decimal[qid'][k] = D[k]
    BY <1>1, <1>2, <1>3, <1>4
  <2>2. ASSUME NEW k \in 1..Len(id') PROVE id'[k] = D[Len(D) + 1 - k]
    <3>1. CASE k = Len(id) + 1
      <4>1. id'[k] = Decimal[qid][Len(Decimal[qid])]
        BY <1>1, <1>2, <1>3, <3>1
      <4>2. Len(Decimal[qid]) = Len(D) + 1 - k /\ Len(Decimal[qid]) \in 1..Len(Decimal[qid])
        BY <1>2, <1>3, <1>4, <1>5, <3>1
      <4> QED
        BY <1>4, <4>1, <4>2
    <3>2. CASE k \in 1..Len(id)
      BY <1>1, <1>2, <1>3, <1>4, <3>2
    <3> QED
      <4>1. Len(id) \in Nat /\ Len(id') = Len(id) + 1
        BY <1>3, <1>6
      <4>2. k = Len(id) + 1 \/ k \in 1..Len(id)
        BY <4>1
      <4> QED
        BY <3>1, <3>2, <4>2
  <2>3. Len(Decimal[qid']) + Len(id') = Len(D)
    BY <1>6
  <2>4. chat' \in Chats /\ j' = 0
    BY <1>1, <1>4
  <2>5. DigitsInv'
    BY <1>5, <2>1, <2>2, <2>3, <2>4 DEF DigitsInv
  <2> QED
    BY <1>1, <2>5 DEF IInv, NumberInv, SwapInv, WithChat
<1>9. UrlInv' /\ AnswerInv'
  BY <1>1 DEF IInv, UrlInv, Sent, AnswerInv, AnswerStored
<1> QED
  BY <1>7, <1>8, <1>9 DEF IInv

LEMMA DigitsEndOK == IInv /\ DigitsEnd => IInv'
<1> SUFFICES ASSUME IInv, DigitsEnd PROVE IInv'
  OBVIOUS
<1>1. /\ pc = "digits" /\ pc' = "swap" /\ ~(qid > 0)
      /\ UNCHANGED <<fn, chat, msg, qid, id, j, url, length, data, size, received, chunks, code>>
  BY DEF DigitsEnd, More, call, number, request, answer
<1>2. qid \in Numbers /\ Decimal[qid] = <<>>
  BY <1>1, DecimalTypes DEF IInv, TypeOK, DigitsFit
<1>3. /\ chat \in Chats /\ j = 0 /\ Len(Decimal[qid]) + Len(id) = Len(D)
      /\ \A k \in 1..Len(id) : id[k] = D[Len(D) + 1 - k]
  BY <1>1, <1>2 DEF IInv, NumberInv, DigitsInv
<1>4. id \in Seq(0..9) /\ Len(Decimal[qid]) = 0 /\ D \in Seq(0..9) /\ D' = D
  BY <1>1, <1>2, <1>3, DecimalTypes DEF IInv, TypeOK, D
<1>5. SwapInv'
  BY <1>1, <1>3, <1>4 DEF SwapInv, Turned
<1>6. TypeOK'
  BY <1>1 DEF IInv, TypeOK, DigitsFit
<1>7. NumberInv'
  BY <1>1, <1>5 DEF IInv, NumberInv, DigitsInv, WithChat
<1>8. UrlInv' /\ AnswerInv'
  BY <1>1 DEF IInv, UrlInv, Sent, AnswerInv, AnswerStored
<1> QED
  BY <1>6, <1>7, <1>8 DEF IInv

LEMMA SwapOK == IInv /\ Swap => IInv'
<1> SUFFICES ASSUME IInv, Swap PROVE IInv'
  OBVIOUS
<1>1. /\ pc = "swap" /\ pc' = "swap" /\ j < Len(id) \div 2 /\ j' = j + 1
      /\ id' = [id EXCEPT ![j + 1] = id[Len(id) - j], ![Len(id) - j] = id[j + 1]]
      /\ UNCHANGED <<fn, chat, msg, qid, url, length, data, size, received, chunks, code>>
  BY DEF Swap, Half, call, request, answer
<1>2. chat \in Chats /\ Turned(id, D, j) /\ id \in Seq(0..9) /\ Len(id) \in Nat /\ j \in Nat
  BY <1>1 DEF IInv, NumberInv, SwapInv, TypeOK
<1>3. D \in Seq(0..9) /\ D' = D
  BY <1>1, <1>2, DecimalTypes DEF D
<1>4. id' \in Seq(0..9) /\ Len(id') = Len(id) /\ Turned(id', D, j')
  BY <1>1, <1>2, <1>3, SwapEnds
<1>5. TypeOK'
  <2>1. j' \in 0..Len(id')
    BY <1>1, <1>2, <1>4
  <2> QED
    BY <1>1, <1>4, <2>1 DEF IInv, TypeOK, DigitsFit
<1>6. NumberInv'
  <2>1. SwapInv'
    BY <1>1, <1>2, <1>3, <1>4 DEF SwapInv
  <2> QED
    BY <1>1, <2>1 DEF IInv, NumberInv, DigitsInv, WithChat
<1>7. UrlInv' /\ AnswerInv'
  BY <1>1 DEF IInv, UrlInv, Sent, AnswerInv, AnswerStored
<1> QED
  BY <1>5, <1>6, <1>7 DEF IInv

LEMMA SwapEndOK == IInv /\ SwapEnd => IInv'
<1> SUFFICES ASSUME IInv, SwapEnd PROVE IInv'
  OBVIOUS
<1>1. /\ pc = "swap" /\ pc' = "parms" /\ ~(j < Len(id) \div 2)
      /\ UNCHANGED <<fn, chat, msg, qid, id, j, url, length, data, size, received, chunks, code>>
  BY DEF SwapEnd, Half, call, number, request, answer
<1>2. /\ chat \in Chats /\ Len(id) = Len(D) /\ id \in Seq(0..9) /\ j \in Nat /\ 2 * j <= Len(id)
      /\ \A k \in 1..Len(id) : id[k] = IF k <= j \/ k > Len(id) - j THEN D[k] ELSE D[Len(id) + 1 - k]
  BY <1>1 DEF IInv, NumberInv, SwapInv, TypeOK, Turned
<1>3. D \in Seq(0..9) /\ D' = D
  BY <1>1, <1>2, DecimalTypes DEF D
<1>4. ASSUME NEW k \in 1..Len(id) PROVE id[k] = D[k]
  <2>1. \A n, i \in Nat : ~(i < n \div 2) /\ 2 * i <= n =>
          \A l \in 1..n : l <= i \/ l > n - i \/ n + 1 - l = l
    OBVIOUS
  <2>2. Len(id) \in Nat
    BY <1>2
  <2>3. k <= j \/ k > Len(id) - j \/ Len(id) + 1 - k = k
    BY <1>1, <1>2, <2>1, <2>2
  <2> QED
    BY <1>2, <2>3
<1>5. id = D
  BY <1>2, <1>3, <1>4
<1>6. TypeOK'
  BY <1>1 DEF IInv, TypeOK, DigitsFit
<1>7. NumberInv'
  BY <1>1, <1>3, <1>5 DEF IInv, NumberInv, DigitsInv, SwapInv, WithChat
<1>8. UrlInv' /\ AnswerInv'
  BY <1>1 DEF IInv, UrlInv, Sent, AnswerInv, AnswerStored
<1> QED
  BY <1>6, <1>7, <1>8 DEF IInv
-----------------------------------------------------------------------------
(* From here on the call and its number stay as they are. *)
LEMMA NumberStays ==
  ASSUME NumberInv, UNCHANGED <<fn, chat, id>>, pc \in {"parms", "curl", "over"},
         pc' \in {"idle", "parms", "curl", "over"}
  PROVE NumberInv'
BY DEF NumberInv, DigitsInv, SwapInv, WithChat, D

LEMMA WriteOK == IInv /\ Write => IInv'
<1> SUFFICES ASSUME IInv, Write PROVE IInv'
  OBVIOUS
<1> DEFINE n == Len(url) + 1
           x == Parameters[fn][n]
<1>1. /\ pc = "parms" /\ pc' = "parms" /\ Len(url) < Len(Parameters[fn])
      /\ LenOf(x) = 0 \/ length + 1 + LenOf(x) <= MaxParms
      /\ url' = Append(url, x) /\ length' = length + 1 + LenOf(x)
      /\ UNCHANGED <<fn, chat, msg, qid, id, j, data, size, received, chunks, code>>
  BY DEF Write, Unwritten, Fits, Piece, call, number, answer
<1>2. fn \in Calls /\ url \in Seq(Pieces) /\ length \in Nat /\ MaxParms \in Nat
  BY ApiAssumption DEF IInv, TypeOK, ApiAssumption
<1>3. Parameters[fn] \in Seq(Pieces)
  BY <1>2, ParametersArePieces
<1>4. n \in 1..Len(Parameters[fn]) /\ x \in Pieces
  <2>1. n \in 1..Len(Parameters[fn])
    BY <1>1, <1>2, <1>3
  <2> QED
    BY <1>3, <2>1
<1>5. LenOf(x) \in Nat /\ (n % 2 = 1 => LenOf(x) > 0)
  <2>1. n % 2 = 1 => x \in {"access_token", "user_id", "group_id", "message", "auto_escape"}
    BY <1>2, <1>4, ParametersArePieces
  <2>2. TypeOK
    BY DEF IInv
  <2> QED
    BY <1>4, <2>1, <2>2, PieceLengths
<1> HIDE DEF x
<1>6. Len(url') = n /\ url' \in Seq(Pieces) /\ n = Len(url) + 1 /\ Len(url) \in Nat
  BY <1>1, <1>2, <1>4
<1> HIDE DEF n
<1>7. (Len(url) % 2 = 1 \/ Len(url) = 0) => length <= MaxParms
  BY DEF IInv, UrlInv
<1>8. length' \in 0..MaxParms + 1 /\ (n % 2 = 1 => length' <= MaxParms) /\ n # 0
  <2>1. n % 2 = 1 \/ Len(url) % 2 = 1
    BY <1>6
  <2> QED
    BY <1>1, <1>2, <1>5, <1>6, <1>7, <2>1
<1>9. TypeOK'
  BY <1>1, <1>6, <1>8 DEF IInv, TypeOK, DigitsFit
<1>10. UrlInv'
  <2>1. \A k \in 1..Len(url) : url[k] = Parameters[fn][k]
    BY DEF IInv, UrlInv
  <2>2. \A k \in 1..Len(url') : url'[k] = Parameters[fn'][k]
    BY <1>1, <1>2, <1>6, <2>1 DEF x
  <2>3. Len(url') <= Len(Parameters[fn'])
    BY <1>1, <1>4, <1>6
  <2>4. ~Sent'
    BY <1>1 DEF Sent
  <2> QED
    BY <1>6, <1>8, <2>2, <2>3, <2>4 DEF UrlInv
<1>11. NumberInv'
  BY <1>1, NumberStays DEF IInv
<1>12. AnswerInv'
  BY <1>1 DEF IInv, AnswerInv, AnswerStored, Sent
<1> QED
  BY <1>9, <1>10, <1>11, <1>12 DEF IInv

LEMMA TooLongOK == IInv /\ TooLong => IInv'
<1> SUFFICES ASSUME IInv, TooLong PROVE IInv'
  OBVIOUS
<1>1. /\ pc = "parms" /\ pc' = "over" /\ code' = "SEND_MESSAGE_ERROR"
      /\ UNCHANGED <<fn, chat, msg, qid, id, j, url, length, data, size, received, chunks>>
  BY DEF TooLong, OutOfRange, Ends, call, number, request, answer
<1>2. TypeOK'
  BY <1>1 DEF IInv, TypeOK, DigitsFit, Codes
<1>3. NumberInv'
  BY <1>1, NumberStays DEF IInv
<1>4. UrlInv'
  BY <1>1 DEF IInv, UrlInv, Sent
<1>5. AnswerInv'
  BY <1>1 DEF IInv, AnswerInv, AnswerStored, Sent
<1> QED
  BY <1>2, <1>3, <1>4, <1>5 DEF IInv

LEMMA ConnectOK == IInv /\ Connect => IInv'
<1> SUFFICES ASSUME IInv, Connect PROVE IInv'
  OBVIOUS
<1>1. /\ pc = "parms" /\ ~(Len(url) < Len(Parameters[fn]))
      /\ \/ pc' = "curl" /\ code' = code
         \/ pc' = "over" /\ code' = "SEND_MESSAGE_ERROR"
      /\ UNCHANGED <<fn, chat, msg, qid, id, j, url, length, data, size, received, chunks>>
  BY DEF Connect, Unwritten, Ends, call, number, request, answer
<1>2. TypeOK'
  BY <1>1 DEF IInv, TypeOK, DigitsFit, Codes
<1>3. NumberInv'
  BY <1>1, NumberStays DEF IInv
<1>4. UrlInv'
  <2>1. Len(url) = Len(Parameters[fn])
    <3>1. Len(url) \in Nat /\ Len(Parameters[fn]) \in Nat
      BY ParametersArePieces DEF IInv, TypeOK, DigitsFit
    <3> QED
      BY <1>1, <3>1 DEF IInv, UrlInv
  <2> QED
    BY <1>1, <2>1 DEF IInv, UrlInv, Sent
<1>5. AnswerInv'
  BY <1>1 DEF IInv, AnswerInv, AnswerStored, Sent
<1> QED
  BY <1>2, <1>3, <1>4, <1>5 DEF IInv

LEMMA WriteToStringOK == IInv /\ writeToString => IInv'
<1> SUFFICES ASSUME IInv, writeToString PROVE IInv'
  OBVIOUS
<1>0. PICK n \in 0..MaxChunk :
        \E piece \in [1..n -> Bytes] :
          size' = n + Len(data) + 5 /\ data' = data \o piece /\ received' = received \o piece
  BY DEF writeToString, Stored
<1>1. PICK piece \in [1..n -> Bytes] :
        size' = n + Len(data) + 5 /\ data' = data \o piece /\ received' = received \o piece
  BY <1>0
<1>2. /\ pc = "curl" /\ pc' = "curl" /\ chunks < MaxChunks /\ chunks' = chunks + 1
      /\ UNCHANGED <<fn, chat, msg, qid, id, j, url, length, code>>
  BY DEF writeToString, call, number, request
<1>3. n \in Nat /\ data \in Seq(Bytes) /\ received \in Seq(Bytes) /\ data = received
  BY <1>2, ApiAssumption DEF IInv, TypeOK, AnswerInv, AnswerStored, Sent, ApiAssumption
<1>4. piece \in Seq(Bytes) /\ Len(piece) = n
  BY <1>3
<1>5. data' \in Seq(Bytes) /\ data' = received' /\ Len(data') < size' /\ size' \in Nat /\ size' > 0
  <2>1. data \o piece \in Seq(Bytes) /\ Len(data \o piece) = Len(data) + n
    BY <1>3, <1>4
  <2> QED
    BY <1>1, <1>3, <2>1
<1>6. TypeOK'
  <2>1. chunks' \in 0..MaxChunks
    BY <1>2, ApiAssumption DEF IInv, TypeOK, ApiAssumption
  <2> QED
    BY <1>2, <1>5, <2>1 DEF IInv, TypeOK, DigitsFit
<1>7. NumberInv'
  BY <1>2, NumberStays DEF IInv
<1>8. UrlInv'
  BY <1>2 DEF IInv, UrlInv, Sent
<1>9. AnswerInv'
  BY <1>2, <1>5 DEF AnswerInv, AnswerStored, Sent
<1> QED
  BY <1>6, <1>7, <1>8, <1>9 DEF IInv

LEMMA EndOK == IInv /\ (Done \/ Fails \/ Return) => IInv'
<1> SUFFICES ASSUME IInv, Done \/ Fails \/ Return PROVE IInv'
  OBVIOUS
<1>1. CASE Done
  <2>1. /\ pc = "curl" /\ pc' = "over" /\ code' = "NO_ERROR"
        /\ UNCHANGED <<fn, chat, msg, qid, id, j, url, length, data, size, received, chunks>>
    BY <1>1 DEF Done, Ends, call, number, request, answer
  <2>2. TypeOK'
    BY <2>1 DEF IInv, TypeOK, DigitsFit, Codes
  <2>3. NumberInv'
    BY <2>1, NumberStays DEF IInv
  <2>4. UrlInv' /\ AnswerInv'
    BY <2>1 DEF IInv, UrlInv, Sent, AnswerInv, AnswerStored
  <2> QED
    BY <2>2, <2>3, <2>4 DEF IInv
<1>2. CASE Fails
  <2>1. /\ pc = "curl" /\ pc' = "over" /\ code' = "SEND_MESSAGE_ERROR"
        /\ data' = ErrorText /\ size' = Len(ErrorText) + 1
        /\ UNCHANGED <<fn, chat, msg, qid, id, j, url, length, received, chunks>>
    BY <1>2 DEF Fails, GivesUp, Ends, call, number, request
  <2>2. ErrorText \in Seq(Bytes) /\ Len(ErrorText) \in Nat
    BY ApiAssumption DEF ApiAssumption
  <2>3. TypeOK'
    BY <2>1, <2>2 DEF IInv, TypeOK, DigitsFit, Codes
  <2>4. NumberInv'
    BY <2>1, NumberStays DEF IInv
  <2>5. UrlInv' /\ AnswerInv'
    BY <2>1 DEF IInv, UrlInv, Sent, AnswerInv, AnswerStored
  <2> QED
    BY <2>3, <2>4, <2>5 DEF IInv
<1>3. CASE Return
  <2>1. /\ pc = "over" /\ pc' = "idle"
        /\ UNCHANGED <<fn, chat, msg, qid, id, j, url, length, data, size, received, chunks, code>>
    BY <1>3 DEF Return, call, number, request, answer
  <2>2. TypeOK'
    BY <2>1 DEF IInv, TypeOK, DigitsFit
  <2>3. NumberInv'
    BY <2>1, NumberStays DEF IInv
  <2>4. UrlInv' /\ AnswerInv'
    BY <2>1 DEF IInv, UrlInv, Sent, AnswerInv, AnswerStored
  <2> QED
    BY <2>2, <2>3, <2>4 DEF IInv
<1> QED
  BY <1>1, <1>2, <1>3
-----------------------------------------------------------------------------
LEMMA NextOK == IInv /\ [Next]_vars => IInv'
<1> SUFFICES ASSUME IInv, [Next]_vars PROVE IInv'
  OBVIOUS
<1>1. CASE UNCHANGED vars
  BY <1>1 DEF vars, call, number, request, answer, IInv, TypeOK, NumberInv, DigitsInv, SwapInv,
    D, WithChat, DigitsFit, UrlInv, AnswerInv, AnswerStored, Sent
<1>2. CASE Next
  BY <1>2, CallOK, DigitOK, DigitsEndOK, SwapOK, SwapEndOK, WriteOK, TooLongOK, ConnectOK,
    WriteToStringOK, EndOK DEF Next, Step
<1> QED
  BY <1>1, <1>2

LEMMA Invariance == Spec => []IInv
BY InitOK, NextOK, PTL DEF Spec

(* For any numbers and texts, the request stays within one of its limit and *)
(* the answer, with its end, within what is allocated; the digits stay      *)
(* within their buffer if the number has fewer than QQ_ID_LEN of them,      *)
(* which nothing in the code sees to (api.c 44-55, request.c 40, 54, 67,    *)
(* 10-23).                                                                  *)
THEOREM TypeCorrect == Spec => []TypeOK
<1>1. IInv => TypeOK
  BY DEF IInv
<1> QED
  BY <1>1, Invariance, PTL

(* What is sent is the whole call, to the chat it is meant for: a text too  *)
(* long for the limit is refused, whatever the lengths of the others        *)
(* (api.c 51-60, request.c 45-76).                                          *)
THEOREM SentWhole == Spec => []WholeRequest
<1>1. IInv => WholeRequest
  <2> SUFFICES ASSUME IInv, Sent PROVE url = Parameters[fn] /\ (WithChat => id = Decimal[chat])
    BY DEF WholeRequest, WithChat
  <2>1. url \in Seq(Pieces) /\ Parameters[fn] \in Seq(Pieces)
    BY ParametersArePieces DEF IInv, TypeOK, DigitsFit
  <2>2. Len(url) = Len(Parameters[fn]) /\ \A k \in 1..Len(url) : url[k] = Parameters[fn][k]
    BY DEF IInv, UrlInv
  <2>3. url = Parameters[fn]
    BY <2>1, <2>2
  <2>4. WithChat => id = Decimal[chat]
    BY DEF IInv, NumberInv, Sent, D
  <2> QED
    BY <2>3, <2>4
<1> QED
  BY <1>1, Invariance, PTL

(* A call without an error has stored every byte curl handed over, in       *)
(* order, and one that failed none of them (request.c 8-26, 91-100).        *)
THEOREM AnswerKept == Spec => []AnswerStored
<1>1. IInv => AnswerStored
  BY DEF IInv, AnswerInv
<1> QED
  BY <1>1, Invariance, PTL
-----------------------------------------------------------------------------
(* The steps a call still has to make before it returns: what is left of    *)
(* the number and of turning it round, of the parameters and of the answer. *)
CallLeft ==
  CASE pc = "idle" -> 0
    [] pc = "over" -> 1
    [] pc = "curl" -> 2 + (MaxChunks - chunks)
    [] pc = "parms" -> 11 + MaxChunks - Len(url)
    [] pc = "swap" -> 12 + MaxChunks + (Len(id) - j)
    [] pc = "digits" -> 13 + MaxChunks + (Len(id) + 2 * Len(Decimal[qid]))

(* A call that has begun only gets nearer to its return, from a number of   *)
(* steps that the digits of its chat and the bound on the pieces of the     *)
(* answer fix: none of its loops, over the digits, the halves or the        *)
(* parameters, stands still or starts again (api.c 51-60, request.c 45-76). *)
CallFits == CallLeft \in 0..13 + MaxChunks + 2 * Len(Decimal[chat])
CallShrinks == [][(pc # "idle") => (CallLeft' < CallLeft)]_vars

LEMMA ParametersAreFew ==
  ASSUME NEW f \in Calls
  PROVE Len(Parameters[f]) \in 0..8
<1>1. f \in {"private", "group", "friends", "groups", "members"}
  BY DEF Calls, Dir
<1> QED
  BY <1>1 DEF Parameters

(* In every state of a call its steps left are known and bounded. *)
LEMMA LeftIsBounded ==
  ASSUME IInv
  PROVE /\ CallLeft \in Nat /\ CallLeft <= 13 + MaxChunks + 2 * Len(D)
        /\ Len(id) \in Nat /\ j \in Nat /\ j <= Len(id)
        /\ Len(url) \in 0..8 /\ chunks \in 0..MaxChunks /\ MaxChunks \in Nat
        /\ Len(Decimal[qid]) \in Nat /\ Len(D) \in Nat
<1>1. /\ MaxChunks \in Nat /\ Len(id) \in Nat /\ j \in Nat /\ j <= Len(id)
      /\ chunks \in 0..MaxChunks /\ pc \in {"idle", "digits", "swap", "parms", "curl", "over"}
  BY ApiAssumption DEF IInv, TypeOK, ApiAssumption
<1>2. Len(url) \in 0..8
  <2>1. fn \in Calls /\ Len(url) \in Nat /\ Len(url) <= Len(Parameters[fn])
    BY DEF IInv, TypeOK, UrlInv
  <2>2. Len(Parameters[fn]) \in 0..8
    BY <2>1, ParametersAreFew
  <2>3. \A a \in Nat, b \in 0..8 : a <= b => a \in 0..8
    OBVIOUS
  <2> QED
    BY <2>1, <2>2, <2>3
<1>3. Len(Decimal[qid]) \in Nat /\ Len(D) \in Nat
  <2>1. qid \in Numbers /\ chat \in Numbers
    BY DecimalTypes DEF IInv, TypeOK
  <2>2. Decimal[qid] \in Seq(0..9) /\ Decimal[chat] \in Seq(0..9)
    BY <2>1, DecimalTypes
  <2> QED
    BY <2>2 DEF D
<1>4. CallLeft \in Nat /\ CallLeft <= 13 + MaxChunks + 2 * Len(D)
  <2> DEFINE a == Len(id)
             b == Len(url)
             r == Len(Decimal[qid])
             d == Len(D)
  <2>1. CASE pc = "idle" \/ pc = "over"
    BY <1>1, <1>3, <2>1 DEF CallLeft
  <2>2. CASE pc = "curl"
    BY <1>1, <1>3, <2>2 DEF CallLeft
  <2>3. CASE pc = "parms"
    <3>1. CallLeft = 11 + MaxChunks - b
      BY <2>3 DEF CallLeft
    <3>2. b \in 0..8
      BY <1>2
    <3>3. Len(D) \in Nat
      BY <1>3
    <3> HIDE DEF b, d
    <3>4. \A c \in Nat, k \in 0..8, e \in Nat : 11 + c - k \in Nat /\ 11 + c - k <= 13 + c + 2 * e
      OBVIOUS
    <3> QED
      BY <1>1, <3>1, <3>2, <3>3, <3>4
  <2>4. CASE pc = "swap"
    <3>1. CallLeft = 12 + MaxChunks + (a - j) /\ a = d
      BY <2>4 DEF CallLeft, IInv, NumberInv, SwapInv, Turned
    <3> HIDE DEF a, d
    <3>2. a \in Nat /\ j <= a
      BY <1>1 DEF a
    <3>3. CallLeft \in Nat /\ CallLeft <= 13 + MaxChunks + 2 * d
      BY <1>1, <3>1, <3>2
    <3> QED
      BY <3>3 DEF d
  <2>5. CASE pc = "digits"
    <3>1. CallLeft = 13 + MaxChunks + (a + 2 * r) /\ r + a = d
      BY <2>5 DEF CallLeft, IInv, NumberInv, DigitsInv
    <3>2. a \in Nat /\ r \in Nat
      BY <1>1, <1>3
    <3> HIDE DEF a, d, r
    <3>3. CallLeft \in Nat /\ CallLeft <= 13 + MaxChunks + 2 * d
      BY <1>1, <3>1, <3>2
    <3> QED
      BY <3>3 DEF d
  <2> QED
    BY <1>1, <2>1, <2>2, <2>3, <2>4, <2>5
<1> QED
  BY <1>1, <1>2, <1>3, <1>4

LEMMA CallSteps ==
  ASSUME IInv, Next, pc # "idle"
  PROVE CallLeft' < CallLeft
<1> DEFINE a == Len(id)
           b == Len(url)
<1>0. IInv'
  BY NextOK
<1>1. /\ a \in Nat /\ j \in Nat /\ j <= a
      /\ b \in 0..8 /\ chunks \in 0..MaxChunks /\ MaxChunks \in Nat
  BY LeftIsBounded
<1>2. ~Call
  BY DEF Call, Reply, GetList, Begin, ReplyRefused, ListRefused, Refused
<1>3. CASE Digit
  <2>1. /\ pc = "digits" /\ pc' = "digits" /\ id \in Seq(0..9) /\ qid \in Numbers /\ qid > 0
        /\ id' = Append(id, qid % 10) /\ qid' = qid \div 10
    BY <1>3 DEF Digit, More, IInv, TypeOK
  <2>2. Len(Decimal[qid]) = Len(Decimal[qid']) + 1 /\ qid' \in Numbers /\ qid % 10 \in 0..9
    BY <2>1, DigitCut
  <2>3. Len(id') = a + 1
    BY <2>1, <2>2
  <2>4. Len(Decimal[qid']) \in Nat
    BY <2>2, DecimalTypes
  <2>5. /\ CallLeft = 13 + MaxChunks + (a + 2 * Len(Decimal[qid]))
        /\ CallLeft' = 13 + MaxChunks + (Len(id') + 2 * Len(Decimal[qid']))
    BY <2>1 DEF CallLeft
  <2>6. \A c, k, r \in Nat : 13 + c + ((k + 1) + 2 * r) < 13 + c + (k + 2 * (r + 1))
    OBVIOUS
  <2> HIDE DEF a
  <2> QED
    BY <1>1, <2>2, <2>3, <2>4, <2>5, <2>6
<1>4. CASE DigitsEnd
  <2>1. pc = "digits" /\ pc' = "swap" /\ id' = id /\ j' = j
    BY <1>4 DEF DigitsEnd, number
  <2>2. /\ CallLeft = 13 + MaxChunks + (a + 2 * Len(Decimal[qid]))
        /\ CallLeft' = 12 + MaxChunks + (a - j)
    BY <2>1 DEF CallLeft
  <2>3. Len(Decimal[qid]) \in Nat
    BY LeftIsBounded
  <2>4. \A c, k, r, i \in Nat : 12 + c + (k - i) < 13 + c + (k + 2 * r)
    OBVIOUS
  <2> HIDE DEF a
  <2> QED
    BY <1>1, <2>2, <2>3, <2>4
<1>5. CASE Swap
  <2>1. pc = "swap" /\ pc' = "swap" /\ j' = j + 1 /\ Len(id') = a
    BY <1>5 DEF Swap, IInv, TypeOK
  <2>2. CallLeft = 12 + MaxChunks + (a - j) /\ CallLeft' = 12 + MaxChunks + (a - (j + 1))
    BY <2>1 DEF CallLeft
  <2> HIDE DEF a
  <2> QED
    BY <1>1, <2>2
<1>6. CASE SwapEnd
  <2>1. pc = "swap" /\ pc' = "parms" /\ url' = url
    BY <1>6 DEF SwapEnd, request
  <2>2. CallLeft = 12 + MaxChunks + (a - j) /\ CallLeft' = 11 + MaxChunks - b
    BY <2>1 DEF CallLeft
  <2> HIDE DEF a, b
  <2> QED
    BY <1>1, <2>2
<1>7. CASE Write
  <2>1. pc = "parms" /\ pc' = "parms" /\ url \in Seq(Pieces) /\ url' = Append(url, Piece)
    BY <1>7 DEF Write, IInv, TypeOK
  <2>2. Len(url') = b + 1
    BY <2>1
  <2>3. CallLeft = 11 + MaxChunks - b /\ CallLeft' = 11 + MaxChunks - Len(url')
    BY <2>1 DEF CallLeft
  <2> HIDE DEF b
  <2> QED
    BY <1>1, <2>2, <2>3
<1>8. CASE Connect \/ TooLong
  <2>1. pc = "parms" /\ pc' \in {"curl", "over"} /\ chunks' = chunks
    BY <1>8 DEF Connect, TooLong, OutOfRange, Ends, answer
  <2>2. /\ CallLeft = 11 + MaxChunks - b
        /\ CallLeft' = 2 + (MaxChunks - chunks) \/ CallLeft' = 1
    BY <2>1 DEF CallLeft
  <2> HIDE DEF b
  <2> QED
    BY <1>1, <2>2
<1>9. CASE writeToString
  <2>1. pc = "curl" /\ pc' = "curl" /\ chunks' = chunks + 1
    BY <1>9 DEF writeToString
  <2> QED
    BY <1>1, <2>1 DEF CallLeft
<1>10. CASE Done \/ Fails
  <2>1. pc = "curl" /\ pc' = "over"
    BY <1>10 DEF Done, Fails, GivesUp, Ends
  <2> QED
    BY <1>1, <2>1 DEF CallLeft
<1>11. CASE Return
  BY <1>11 DEF Return, CallLeft
<1> QED
  BY <1>2, <1>3, <1>4, <1>5, <1>6, <1>7, <1>8, <1>9, <1>10, <1>11 DEF Next, Step

(* The argument under CallReturns: a call that was begun makes at most the  *)
(* steps that the digits of its chat, its parameters and the pieces of the  *)
(* answer allow, whatever the number and whatever the other end does.       *)
THEOREM CallRunsDown == Spec => []CallFits /\ CallShrinks
<1>1. IInv => CallFits
  BY LeftIsBounded DEF CallFits, D
<1>2. IInv /\ [Next]_vars =>
        ((pc # "idle") => CallLeft' < CallLeft) \/ UNCHANGED vars
  BY CallSteps
<1> QED
  BY <1>1, <1>2, Invariance, PTL DEF Spec, CallShrinks
===========================================================================
