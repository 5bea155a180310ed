------------------------------ MODULE Command ------------------------------
(***************************************************************************)
(* What one chat message asks of the bot: the decision catch_inside_command *)
(* makes from the text and the sender's rights, and the decision            *)
(* parse_plugin_command makes before it opens a plugin (hakuMind.c).        *)
(* A message is abstracted to the facts the two functions test:             *)
(*   call    - which of its names the text holds: "zousu" (the master       *)
(*             name), "haku" (the ordinary one) or "none"                   *)
(*   words   - the command words the text holds                             *)
(*   indexed - the text starts with the command index character             *)
(*   named   - the name after its first character is short enough to be     *)
(*             looked up                                                    *)
(*   user    - the sender                                                   *)
(***************************************************************************)
EXTENDS Naturals

CONSTANTS Masters,      \* masterId[0 .. masterNum-1]
          Blocked       \* blockId[0 .. blockNum-1]

Flags == {"sleep", "quit", "update"}   \* GEN_SLEEP_FLAG, GEN_QUIT_FLAG, GEN_UPDATE_FLAG
Words == Flags \union {"log", "version"}
Calls == {"zousu", "haku", "none"}

(* The order in which the if-else chain tests the words. *)
Rank == [log |-> 1, sleep |-> 2, quit |-> 3, update |-> 4, version |-> 5]

(* ev asks for w: w is the first of the message's words the chain meets. *)
Asks(ev, w) == w \in ev.words /\ \A v \in ev.words : Rank[w] <= Rank[v]

IsMaster(ev) == ev.user \in Masters
IsBlocked(ev) == ev.user \in Blocked

(* The branches of catch_inside_command that obey: the master name obeys    *)
(* any master without looking at the block list, the ordinary name refuses  *)
(* a blocked sender before anything else.                                   *)
Heard(ev) ==
  \/ ev.call = "zousu" /\ IsMaster(ev)
  \/ ev.call = "haku" /\ ~IsBlocked(ev)

(* set_quit_flag(f) is called and the stop marker is returned. *)
Stops(ev, f) == Heard(ev) /\ IsMaster(ev) /\ f \in Flags /\ Asks(ev, f)

AsksStop(ev) == \E f \in Flags : Stops(ev, f)

(* The log reply is formatted, which divides by the seconds since wake-up. *)
AsksLog(ev) == Heard(ev) /\ Asks(ev, "log")

(* Some reply other than the stop marker is returned and sent. *)
InsideReplies(ev) == ev.call # "none" /\ ~AsksStop(ev)

(* parse_plugin_command: a blocked sender of an indexed message gets a      *)
(* fixed reply whatever the name, any other sender's plugin is looked up    *)
(* and run if its name is short enough.                                     *)
PluginRefuses(ev) == ev.indexed /\ IsBlocked(ev)
PluginRuns(ev) == ev.indexed /\ ~IsBlocked(ev) /\ ev.named
=============================================================================
