--------------------------- MODULE MCControlPlane ---------------------------
(* Two modules; an operator who loads and unloads, a user who works with one *)
(* of them, a second who starts its forwarder, and the tray.                 *)
EXTENDS ControlPlane

CONSTANTS Operator, User, Other

Modules == <<"squawk", "tobogganing">>
Generations == 1..9

Asked ==
  ({Operator} \X {"load", "unload"} \X {"squawk"})
    \cup {<<Operator, "load", "tobogganing">>}
    \cup ({User} \X {"load", "status", "query", "stop"} \X {"squawk"})
    \cup ({User} \X {"load", "unload", "status"} \X {Stranger})
    \cup ({Other} \X {"start"} \X {"squawk"})
=============================================================================
