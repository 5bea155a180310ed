---------------------------- MODULE MCHakuLife ----------------------------
(* Small instances of HakuLife: a master, a master who is on the block list, *)
(* an ordinary user and a blocked one, and the events that tell them apart.  *)
EXTENDS HakuLife

MCMasters == {"master", "blockedMaster"}
MCBlocked == {"blocked", "blockedMaster"}

Base == [kind |-> "message", user |-> "master", chat |-> "private", call |-> "haku",
         words |-> {}, indexed |-> FALSE, named |-> TRUE, fits |-> TRUE, spaced |-> FALSE]
From(u, call, ws) == [Base EXCEPT !.user = u, !.call = call, !.words = ws]

Sleep == From("master", "haku", {"sleep"})
Update == From("blockedMaster", "zousu", {"update", "version"})
Quit == [From("master", "zousu", {"quit", "update"}) EXCEPT !.chat = "group"]
LongSleep == [From("master", "haku", {"sleep"}) EXCEPT !.fits = FALSE, !.chat = "group"]
SpacedUpdate == [From("master", "haku", {"update"}) EXCEPT !.spaced = TRUE]
OtherUpdate == [From("master", "haku", {"update"}) EXCEPT !.chat = "other"]
Denied == [From("user", "haku", {"quit"}) EXCEPT !.indexed = TRUE]
BlockedStop ==
  [From("blockedMaster", "haku", {"sleep"}) EXCEPT !.indexed = TRUE, !.named = FALSE]
BlockedPlugin == [From("blocked", "none", {"sleep"}) EXCEPT !.indexed = TRUE]
Plugin == [From("user", "none", {}) EXCEPT !.indexed = TRUE]
Talk == [From("user", "none", {"update"}) EXCEPT !.indexed = TRUE, !.named = FALSE]
Log == From("user", "haku", {"log", "sleep"})
HeartBeat == [From("user", "none", {}) EXCEPT !.kind = "heartbeat"]
QuitUrl == [From("user", "none", {}) EXCEPT !.kind = "quit"]

(* Every kind of event. *)
AllEvents == {Sleep, Update, Quit, LongSleep, SpacedUpdate, OtherUpdate, Denied,
              BlockedStop, BlockedPlugin, Plugin, Talk, Log, HeartBeat, QuitUrl}

(* Enough for the temporal properties. *)
FewEvents == {Sleep, Update, Quit, Plugin, Denied, QuitUrl}
=============================================================================
