-------------------------- MODULE MCDaemonProcess --------------------------
(***************************************************************************)
(* A small instance of DaemonProcess for TLC: a daemon started from a      *)
(* terminal and one under the service manager, with one state directory    *)
(* and one socket between them.                                            *)
(***************************************************************************)
EXTENDS DaemonProcess

CONSTANTS d1, d2, cli, tray

SharedDir == [p \in Processes |-> "/var/lib/penguind"]
SharedPath == [p \in Processes |-> "/run/penguin/penguind.sock"]
=============================================================================
