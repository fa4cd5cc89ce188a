----------------------------- MODULE InstallCall -----------------------------
(***************************************************************************)
(* What a call to wdi_install_driver promises its user: it returns one     *)
(* status, and this is either what the installer decided on, or an error   *)
(* of the call itself, which says nothing of the installer; or the         *)
(* application crashes meanwhile.                                          *)
(***************************************************************************)
CONSTANTS
  Success,     \* WDI_SUCCESS
  Statuses,    \* what an installer may decide on
  Results,     \* what a call may return
  NoStatus     \* nothing yet

VARIABLES
  busy,        \* a call is in progress
  decided,     \* what the installer of the latest call decided on
  returned,    \* what the latest call returned
  faulty       \* the application has crashed, or run out of memory

vars == <<busy, decided, returned>>

Init == busy = FALSE /\ decided = NoStatus /\ returned = NoStatus

Begin ==
  /\ ~busy
  /\ busy' = TRUE /\ decided' = NoStatus /\ returned' = NoStatus

\* The call fails before it has an installer.
Fail ==
  /\ ~busy
  /\ returned' \in Results \ {Success}
  /\ decided' = NoStatus /\ UNCHANGED busy

\* The installer decides, once: the call may have returned an error before.
Decide ==
  /\ decided = NoStatus
  /\ decided' \in Statuses
  /\ UNCHANGED <<busy, returned>>

\* Success is only ever the installer's.
Return ==
  /\ busy
  /\ busy' = FALSE
  /\ \/ returned' = decided /\ decided # NoStatus
     \/ returned' \in Results \ {Success}
  /\ UNCHANGED decided

\* The application crashes during the call, which returns nothing.
Abandon ==
  /\ busy /\ faulty'
  /\ busy' = FALSE
  /\ UNCHANGED <<decided, returned>>

Next == Begin \/ Fail \/ Decide \/ Return \/ Abandon

Spec == Init /\ [][Next]_vars
=============================================================================
