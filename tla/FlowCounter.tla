---------------------------- MODULE FlowCounter ----------------------------
(***************************************************************************)
(* What the bot's message counter promises: while the bot is up, flow is    *)
(* the number of messages received and not yet dropped, and a heartbeat     *)
(* drops, from the oldest on, the messages that are Window seconds old.     *)
(***************************************************************************)
EXTENDS Integers, Sequences

CONSTANTS Time,     \* values of time(NULL)
          Window    \* seconds a message is counted for

VARIABLES now,      \* the clock
          on,       \* the bot is up
          window,   \* arrival times of the counted messages, oldest first
          flow      \* the number the bot reports

cvars == <<now, on, window, flow>>

Expired(t, at) == at - t >= Window

(* Everything from the first message of w that has not expired. *)
Unexpired(w, at) ==
  LET keep == {i \in 1..Len(w) : ~Expired(w[i], at)}
  IN  IF keep = {} THEN <<>>
      ELSE SubSeq(w, CHOOSE i \in keep : \A j \in keep : i <= j, Len(w))

Init == now \in Time /\ on = FALSE /\ window = <<>> /\ flow = 0

ClockMoves == now' \in Time /\ UNCHANGED <<on, window, flow>>

WindowBecomes(w) == window' = w /\ flow' = Len(w) /\ UNCHANGED now

WakeUp == ~on /\ on' = TRUE /\ WindowBecomes(<<>>)
Message == on /\ WindowBecomes(Append(window, now)) /\ UNCHANGED on
Heartbeat == on /\ WindowBecomes(Unexpired(window, now)) /\ UNCHANGED on
GoDown == on /\ on' = FALSE /\ WindowBecomes(<<>>)

Next == ClockMoves \/ WakeUp \/ Message \/ Heartbeat \/ GoDown

Spec == Init /\ [][Next]_cvars
=============================================================================
