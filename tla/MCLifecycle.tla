----------------------------- MODULE MCLifecycle -----------------------------
(***************************************************************************)
(* One report, the HTTP server and the provider as the tasks that submit    *)
(* (the confirmations end as the server does), two signals, one failure:     *)
(* a shutdown that is cut, a process that is killed, and what follows them.  *)
(***************************************************************************)
EXTENDS Lifecycle
=============================================================================
