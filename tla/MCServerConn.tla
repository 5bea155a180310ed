--------------------------- MODULE MCServerConn ---------------------------
(* ServerConn with a client that waits for its replies, one that does not,  *)
(* and a stop in the last request of the second.                            *)
EXTENDS ServerConn
CONSTANTS gateway, other
MCClients == {gateway, other}
MCPatient == {gateway}
LastStops == {<<other, MaxRequests>>}
===========================================================================
