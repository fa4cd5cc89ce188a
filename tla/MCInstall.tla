------------------------------ MODULE MCInstall ------------------------------
(***************************************************************************)
(* InstallPolicy: two installs without a fault and without log lines, the  *)
(* second of which meets whatever the first left behind it, or one that    *)
(* is disturbed.  The buffer is scaled down to 2 bytes: a line of 2 bytes  *)
(* fits, one of 3 leaves a single byte for the second read, one of 6 needs *)
(* a third read and a second doubling.                                     *)
(***************************************************************************)
EXTENDS InstallPolicy

MCUserValues == {NoValue, 0}
\* A device Windows knows nothing of, and one with all of its identities.
MCKnowledge == {{}, {1, 2, 3}}

\* The first install is the only one when it has log lines or faults, two of them at most
\* and on a known device, when the policy cannot be reached, and when the user has no
\* setting: one of the three.
Disturbances == faults + inst[1].lines
Alone == Disturbances > 0 \/ policyErrors > 0 \/ user_policy = NoValue
Bounded ==
  /\ Alone => call <= 1
  /\ Disturbances <= 2
  /\ Disturbances > 0 =>
       policyErrors = 0 /\ user_policy # NoValue /\ current_device # [of |-> 1, knows |-> {}]
  /\ policyErrors > 0 => user_policy # NoValue
  /\ call = 2 => inst[2].lines = 0

\* No second install is made after such a one: every process is gone.
OneInstall ==
  /\ phase = "idle" /\ Alone /\ call = 1 /\ \A i \in Call : ~Alive(i)
  /\ UNCHANGED allVars

MCNext == (PolicyNext /\ Bounded') \/ OneInstall
MCSpec == PolicyInit /\ [][MCNext]_allVars /\ Fairness
=============================================================================
