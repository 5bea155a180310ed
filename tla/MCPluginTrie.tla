---------------------------- MODULE MCPluginTrie ----------------------------
(* Small instances of PluginTrie: names that share prefixes, extend one      *)
(* another and branch into three at the first character, and the empty name  *)
(* of a message that is only the index character.                           *)
EXTENDS PluginTrie

MCNames == {<<>>, <<"p">>, <<"p", "q">>, <<"q", "p">>, <<"r">>}
=============================================================================
