---------------------------- MODULE PluginTable ----------------------------
(***************************************************************************)
(* What the plugin loader promises: a plugin is loaded once, by the first   *)
(* message that names it and finds its file, answers every later message    *)
(* with that name, and is unloaded once, only when the bot ends.            *)
(***************************************************************************)
CONSTANTS Names,    \* plugin names a message can hold
          Missing   \* no plugin

Kinds == {"so", "py"}

VARIABLES stage,    \* "off", "open" or "closing"
          table,    \* table[n]: how plugin n is loaded, or Missing
          ran       \* the plugin the last message ran, or Missing

tvars == <<stage, table, ran>>

NothingLoaded == [n \in Names |-> Missing]

Init == stage = "off" /\ table = NothingLoaded /\ ran = Missing

Start == stage = "off" /\ stage' = "open" /\ UNCHANGED <<table, ran>>

(* A message named n and its plugin is run; it may be loaded for that. *)
Run(n, k) ==
  /\ stage = "open" /\ table[n] \in {k, Missing}
  /\ table' = [table EXCEPT ![n] = k]
  /\ ran' = [kind |-> k, name |-> n]
  /\ UNCHANGED stage

(* A message named n and there is no such plugin. *)
RunNothing(n) ==
  /\ stage = "open" /\ table[n] = Missing
  /\ ran' = Missing
  /\ UNCHANGED <<stage, table>>

Close == stage = "open" /\ stage' = "closing" /\ UNCHANGED <<table, ran>>

Unload(n) ==
  /\ stage = "closing" /\ table[n] # Missing
  /\ table' = [table EXCEPT ![n] = Missing]
  /\ UNCHANGED <<stage, ran>>

Closed ==
  /\ stage = "closing" /\ table = NothingLoaded
  /\ stage' = "off" /\ ran' = Missing
  /\ UNCHANGED table

(* The process dies: nothing is unloaded, everything is lost. *)
Die ==
  /\ stage # "off"
  /\ stage' = "off" /\ table' = NothingLoaded /\ ran' = Missing

Next ==
  \/ Start \/ Close \/ Closed \/ Die
  \/ \E n \in Names : RunNothing(n) \/ Unload(n) \/ \E k \in Kinds : Run(n, k)

Spec == Init /\ [][Next]_tvars
=============================================================================
