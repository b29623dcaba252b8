------------------------- MODULE MC_RemoteOpWait -------------------------
(* Two shards, as in the test, a clock bounded at 4 ms and two commands.  *)
EXTENDS RemoteOpWait
=============================================================================
