---------------------------- MODULE MCStartup -----------------------------
(* Startup with config.json texts on both sides of every check of gen.py   *)
(* and of data_preload, and tables of two.                                 *)
EXTENDS Startup

With(m, kind) == [InitConfig EXCEPT !.is[m] = kind]
Full == [With("BACKLOG", "int") EXCEPT !.MASTER = <<"int", "int", "int">>]

MCFiles ==
  { InitConfig, Full,
    [Full EXCEPT !.BLOCK = <<>>],
    [Full EXCEPT !.MASTER = <<"int", "missing", "int">>],
    [Full EXCEPT !.is["INDEX"] = "missing"],
    [Full EXCEPT !.is["INDEX"] = "int"],
    With("PORT", "float"), With("SEND_PORT", "low"), With("URL", "int"), With("TOKEN", "missing"),
    With("BACKLOG", "string"),
    [InitConfig EXCEPT !.MASTER = <<"int", "string">>],
    [InitConfig EXCEPT !.BLOCK = <<"string">>],
    [InitConfig EXCEPT !.long = TRUE], [InitConfig EXCEPT !.json = FALSE] }
MCDefaults == {None, InitConfig, With("SEND_PORT", "low")}
===========================================================================
