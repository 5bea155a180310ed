----------------------------- MODULE ServerConn -----------------------------
(***************************************************************************)
(* server.c: connections, their handles, reads, replies and buffers.  What  *)
(* a client sends travels in pieces, a request whole or as head and body;   *)
(* a read takes the pieces that are there, up to the buffer's size, and is  *)
(* one reply and one call of new_thread.  One iteration of the loop runs    *)
(* the callbacks of writes, polls and closes handles.                       *)
(***************************************************************************)
EXTENDS Integers, Sequences

CONSTANTS
  Clients,      \* connections; each has a handle of its own
  MaxRequests,  \* bound on the requests of a client
  BufferLen,    \* pieces one read can take
  Patient,      \* clients that wait for the reply before the next request
                \* and whose requests arrive whole, as the gateway's do
  Stopping      \* the requests new_thread answers with QUIT_FLAG

Numbers == 1..MaxRequests
Pieces == [req: Numbers, part: {"whole", "head", "body"}]

ASSUME ServerAssumption ==
  /\ MaxRequests \in Nat /\ BufferLen \in Nat \ {0}
  /\ Patient \subseteq Clients
  /\ Stopping \subseteq Clients \X Numbers

VARIABLES
  peer,     \* the client's end: "away", "here", "left" (closed) or "reset"
  sent,     \* requests begun
  body,     \* the body of the last one is still to be sent
  acks,     \* replies that reached the client
  wire,     \* pieces sent and not read
  handle,   \* its uv_tcp_t: "none", "open", "closing" or "freed"
  writes,   \* write requests malloc'd and not freed by on_write
  buffers,  \* read buffers malloc'd and not freed
  reads,    \* (history) reads that brought data
  handled,  \* (history) requests new_thread understood, in order
  phase,    \* "callbacks", "poll" or "stopped" (uv_run returned)
  ready,    \* connections of this poll without their callback yet
  stop      \* uv_stop was called

clientVars == <<peer, sent, body>>
vars == <<peer, sent, body, acks, wire, handle, writes, buffers, reads, handled, phase,
          ready, stop>>

TypeOK ==
  /\ peer \in [Clients -> {"away", "here", "left", "reset"}]
  /\ sent \in [Clients -> 0..MaxRequests] /\ body \in [Clients -> BOOLEAN]
  /\ acks \in [Clients -> Nat] /\ wire \in [Clients -> Seq(Pieces)]
  /\ handle \in [Clients -> {"none", "open", "closing", "freed"}]
  /\ writes \in [Clients -> Nat] /\ buffers \in [Clients -> Nat] /\ reads \in [Clients -> Nat]
  /\ handled \in [Clients -> Seq(Numbers)]
  /\ phase \in {"callbacks", "poll", "stopped"}
  /\ ready \subseteq Clients /\ stop \in BOOLEAN

Init ==
  /\ peer = [c \in Clients |-> "away"] /\ sent = [c \in Clients |-> 0]
  /\ body = [c \in Clients |-> FALSE] /\ acks = [c \in Clients |-> 0]
  /\ wire = [c \in Clients |-> <<>>] /\ handle = [c \in Clients |-> "none"]
  /\ writes = [c \in Clients |-> 0] /\ buffers = [c \in Clients |-> 0]
  /\ reads = [c \in Clients |-> 0] /\ handled = [c \in Clients |-> <<>>]
  /\ phase = "callbacks" /\ ready = {} /\ stop = FALSE
-----------------------------------------------------------------------------
(* Clients *)

Serverless == UNCHANGED <<acks, handle, writes, buffers, reads, handled, phase, ready, stop>>

Connect(c) ==
  /\ peer[c] = "away" /\ peer' = [peer EXCEPT ![c] = "here"]
  /\ UNCHANGED <<sent, body, wire>> /\ Serverless

Piece(c, n, part) == wire' = [wire EXCEPT ![c] = Append(@, [req |-> n, part |-> part])]

MaySend(c) ==
  /\ peer[c] = "here" /\ ~body[c] /\ sent[c] < MaxRequests
  /\ c \in Patient => acks[c] >= sent[c]

SendWhole(c) ==
  /\ MaySend(c) /\ sent' = [sent EXCEPT ![c] = @ + 1]
  /\ Piece(c, sent[c] + 1, "whole")
  /\ UNCHANGED <<peer, body>> /\ Serverless

SendHead(c) ==
  /\ c \notin Patient /\ MaySend(c)
  /\ sent' = [sent EXCEPT ![c] = @ + 1] /\ body' = [body EXCEPT ![c] = TRUE]
  /\ Piece(c, sent[c] + 1, "head")
  /\ UNCHANGED peer /\ Serverless

SendBody(c) ==
  /\ peer[c] = "here" /\ body[c]
  /\ body' = [body EXCEPT ![c] = FALSE]
  /\ Piece(c, sent[c], "body")
  /\ UNCHANGED <<peer, sent>> /\ Serverless

Leave(c) ==
  /\ peer[c] = "here" /\ peer' = [peer EXCEPT ![c] = "left"]
  /\ UNCHANGED <<sent, body, wire>> /\ Serverless

(* What has arrived when the reset comes can still be read, the rest of     *)
(* what was sent is lost.                                                   *)
Reset(c) ==
  /\ peer[c] = "here" /\ peer' = [peer EXCEPT ![c] = "reset"]
  /\ \E n \in 0..Len(wire[c]) : wire' = [wire EXCEPT ![c] = SubSeq(@, 1, n)]
  /\ UNCHANGED <<sent, body>> /\ Serverless
-----------------------------------------------------------------------------
(* The loop *)

Readable(c) ==
  \/ handle[c] = "none" /\ peer[c] # "away"
  \/ handle[c] = "open" /\ (wire[c] # <<>> \/ peer[c] \in {"left", "reset"})

(* on_write, which frees a write that is done, when the loop comes to it    *)
(* and the client has taken the reply, if it ever does.                     *)
OnWrite(c) ==
  /\ phase # "stopped" /\ handle[c] = "open" /\ writes[c] > 0
  /\ writes' = [writes EXCEPT ![c] = @ - 1]
  /\ UNCHANGED <<clientVars, acks, wire, handle, buffers, reads, handled, phase, ready, stop>>

(* A poll waits until there is something to read. *)
Poll ==
  /\ phase = "callbacks" /\ phase' = "poll"
  /\ ready' = {c \in Clients : Readable(c)} /\ ready' # {}
  /\ UNCHANGED <<clientVars, acks, wire, handle, writes, buffers, reads, handled, stop>>

(* Handles being closed: writes left are cancelled, which frees them, then  *)
(* on_close frees the handle.  uv_run ends after this when it was stopped.  *)
CloseHandles ==
  /\ phase = "poll" /\ ready = {}
  /\ handle' = [c \in Clients |-> IF handle[c] = "closing" THEN "freed" ELSE handle[c]]
  /\ writes' = [c \in Clients |-> IF handle[c] = "closing" THEN 0 ELSE writes[c]]
  /\ phase' = IF stop THEN "stopped" ELSE "callbacks"
  /\ UNCHANGED <<clientVars, acks, wire, buffers, reads, handled, ready, stop>>

Callback(c) ==
  /\ phase = "poll" /\ c \in ready
  /\ ready' = ready \ {c}
  /\ UNCHANGED <<clientVars, phase>>
-----------------------------------------------------------------------------
(* Callbacks *)

(* on_new_connection; uv_listen reports an error: nothing is accepted.      *)
OnNewConnection(c) ==
  /\ Callback(c) /\ handle[c] = "none"
  /\ \E h \in {"open", "closing", "none"} : handle' = [handle EXCEPT ![c] = h]
  /\ UNCHANGED <<acks, wire, writes, buffers, reads, handled, stop>>

Taken(c) == IF Len(wire[c]) < BufferLen THEN Len(wire[c]) ELSE BufferLen

(* A read that fills the buffer may be followed by another in this poll.    *)
StaysReady(c) == IF Taken(c) = BufferLen THEN BOOLEAN ELSE {FALSE}

(* The text begins with a request and holds all of it; what follows the     *)
(* first request is not looked at (httpMsgToEvent).                         *)
Understood(c) ==
  \/ wire[c][1].part = "whole"
  \/ wire[c][1].part = "head" /\ Taken(c) > 1 /\ wire[c][2].part = "body"

(* Mutant: the text is given to new_thread again for the next request. *)
NewThread_Twice(c) ==
  handled' = [handled EXCEPT ![c] = IF Understood(c) THEN @ \o <<wire[c][1].req, wire[c][1].req>>
                                    ELSE @]
(* Mutant: only the first request of a connection is handled. *)
NewThread_Once(c) ==
  handled' = [handled EXCEPT ![c] = IF Understood(c) /\ @ = <<>> THEN <<wire[c][1].req>> ELSE @]
NewThread(c) ==
  handled' = [handled EXCEPT ![c] = IF Understood(c) THEN Append(@, wire[c][1].req) ELSE @]

Stops(c) == Understood(c) /\ <<c, wire[c][1].req>> \in Stopping

(* on_reply with data: the reply first, whatever the text says.             *)
OnRead(c) ==
  /\ phase = "poll" /\ c \in ready /\ handle[c] = "open" /\ wire[c] # <<>>
  /\ writes' = [writes EXCEPT ![c] = @ + 1]
  /\ acks' = IF peer[c] = "here" THEN [acks EXCEPT ![c] = @ + 1] ELSE acks
  /\ NewThread(c)
  /\ stop' = (stop \/ Stops(c))
  /\ wire' = [wire EXCEPT ![c] = SubSeq(@, Taken(c) + 1, Len(@))]
  /\ buffers' = [buffers EXCEPT ![c] = @ + 1]
  /\ reads' = [reads EXCEPT ![c] = @ + 1]
  /\ \E again \in StaysReady(c) : ready' = IF again THEN ready ELSE ready \ {c}
  /\ UNCHANGED <<clientVars, handle, phase>>

(* Mutant: on_reply frees the handle instead of closing it. *)
Close_Free(c) == handle' = [handle EXCEPT ![c] = "freed"]
(* Mutant: the end of the data is not noticed. *)
Close_Not(c) == UNCHANGED handle
Close(c) == handle' = [handle EXCEPT ![c] = "closing"]

(* Mutant: the buffer is freed twice. *)
FreeBuffer_Again(c) == buffers' = [buffers EXCEPT ![c] = @ - 1]
(* free(buf->base) of the buffer this callback got *)
FreeBuffer(c) == UNCHANGED buffers

(* on_reply at the end of the data or with an error *)
OnEnd(c) ==
  /\ Callback(c) /\ handle[c] = "open" /\ wire[c] = <<>> /\ peer[c] \in {"left", "reset"}
  /\ Close(c) /\ FreeBuffer(c)
  /\ UNCHANGED <<acks, wire, writes, reads, handled, stop>>

(* on_reply with nread = 0: the last read took all there was *)
OnNothing(c) ==
  /\ Callback(c) /\ handle[c] = "open" /\ wire[c] = <<>> /\ peer[c] = "here"
  /\ FreeBuffer(c)
  /\ UNCHANGED <<acks, wire, handle, writes, reads, handled, stop>>
-----------------------------------------------------------------------------
ClientStep ==
  \E c \in Clients : Connect(c) \/ SendWhole(c) \/ SendHead(c) \/ SendBody(c) \/ Leave(c) \/ Reset(c)
LoopStep ==
  \/ Poll \/ CloseHandles
  \/ \E c \in Clients : OnNewConnection(c) \/ OnRead(c) \/ OnEnd(c) \/ OnNothing(c)

Next == ClientStep \/ LoopStep \/ \E c \in Clients : OnWrite(c)

Spec == Init /\ [][Next]_vars

(* The loop's thread goes on while it has something to do (new_thread       *)
(* returns); clients promise nothing, not even to take their replies.       *)
FairSpec == Spec /\ WF_vars(LoopStep)
-----------------------------------------------------------------------------
(* Properties *)

Gone(c) == peer[c] \in {"left", "reset"}

(* No callback uses a handle that on_close has freed: neither a write still *)
(* to be reported nor a read of this poll belongs to one, and a handle is   *)
(* closed only once (server.c 18-21, 29-35, 68).                            *)
HandleAlive ==
  \A c \in Clients :
    /\ writes[c] > 0 => handle[c] \in {"open", "closing"}
    /\ c \in ready => handle[c] \in {"none", "open"}
    /\ handle[c] \in {"none", "freed"} => writes[c] = 0

(* What stays allocated for a connection is one buffer for each read that   *)
(* brought data, nothing for its end (server.c 59, 73).                     *)
OnlyRequestsLeak == \A c \in Clients : buffers[c] = reads[c]

(* The server keeps the order of a connection's requests, handles none      *)
(* twice, and leaves none of a patient client's out (server.c 37-59).       *)
Feed == INSTANCE EventFeed WITH MaySkip <- Clients \ Patient
FeedsInOrder == Feed!Spec

(* A handle whose client went away is freed, unless the loop ends.          *)
HandlesFreed ==
  \A c \in Clients :
    (handle[c] \in {"open", "closing"} /\ Gone(c)) ~> (handle[c] = "freed" \/ phase = "stopped")

(* A whole request of a patient client is handled, unless its connection is *)
(* reset or the loop ends; also when the client left right after sending.   *)
RequestsHandled ==
  \A c \in Patient, n \in Numbers :
    (handle[c] = "open" /\ sent[c] >= n)
      ~> (Len(handled[c]) >= n \/ peer[c] = "reset" \/ phase = "stopped")
=============================================================================
