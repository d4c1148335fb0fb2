--------------------------- MODULE MCEventBroker ---------------------------
(***************************************************************************)
(* Small instances of EventBroker for TLC: a client that watches one       *)
(* module and one that watches all of them.                                *)
(***************************************************************************)
EXTENDS EventBroker

CONSTANTS tray, cli, squawk, tobogganing

MCFilter == [c \in Clients |-> IF c = cli THEN squawk ELSE ""]

\* Enough for order within a module and for two publishers that overlap.
MCEvents == [p \in Publishers |-> IF p = squawk THEN 2 ELSE 1]
=============================================================================
