---------------------------- MODULE MCThreadPool ----------------------------
(***************************************************************************)
(* The instance TLC checks.  Clients and tasks are model values given in   *)
(* the .cfg: two workers, one client and three tasks let one worker sleep  *)
(* while the other runs, a task push while the destructor waits for it,    *)
(* and the queue hold several tasks.                                       *)
(***************************************************************************)
EXTENDS ThreadPool
=============================================================================
