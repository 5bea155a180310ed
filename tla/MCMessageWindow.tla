-------------------------- MODULE MCMessageWindow --------------------------
(* Small instances of MessageWindow: a sentinel and up to three messages and *)
(* a clock of a few seconds.                                                 *)
EXTENDS MessageWindow

MCTime == 1..5
=============================================================================
