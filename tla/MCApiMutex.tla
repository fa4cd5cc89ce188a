----------------------------- MODULE MCApiMutex -----------------------------
(***************************************************************************)
(* ApiMutex with two processes, one of them with two threads, and the      *)
(* three functions that differ in how a call may end: always by            *)
(* CloseHandle, or by an early return; one runs under the progress dialog. *)
(***************************************************************************)
EXTENDS ApiMutex

MCApi == {"wdi_create_list", "wdi_prepare_driver", "install_driver_internal"}
MCLeaky == {"wdi_prepare_driver"}
MCTimed == {"install_driver_internal"}
MCHost == [t \in Thread |-> IF t = "t3" THEN "p2" ELSE "p1"]
=============================================================================
