------------------------------- MODULE MCMemfsApi -------------------------------
(* Values of the constants of MemfsApi for TLC.                            *)
EXTENDS MemfsApi

CONSTANTS r, w, s

(* A reader, a writer and a connection of SQLite.                          *)
MCCalls == (r :> {"read"}) @@ (w :> {"write", "setsize"}) @@ (s :> {"transaction"})

(* Two writers.                                                            *)
MCWriters == (r :> {"write"}) @@ (w :> {"setsize"})

===============================================================================
