---------------------------- MODULE InstallPolicy ----------------------------
(***************************************************************************)
(* The installs of module Install and the one setting of the machine they  *)
(* all change: the policy value DisableSystemRestore, which an installer   *)
(* sets to 1 before it installs a driver and puts back before it exits     *)
(* (disable_system_restore, installer.c).  The value it puts back is the   *)
(* one it read itself, in a static variable of its process.                *)
(***************************************************************************)
EXTENDS Install, Integers

CONSTANTS
  UserValues,      \* the settings a user may have
  MaxPolicyErrors  \* bound: how often the policy cannot be reached

VARIABLES
  policy,        \* the value of the machine: NoValue, 0 or 1
  original_val,  \* original_val[i]: the value installer i is to put back
  user_policy,   \* history: the value before the first install
  spoiled,       \* history: an installer left the bracket otherwise than by its end
  policyErrors

NoValue == -1
Values == {NoValue, 0, 1}

ASSUME PolicyAssumption == UserValues \subseteq Values /\ MaxPolicyErrors \in Nat

policyVars == <<policy, original_val, user_policy, spoiled, policyErrors>>
allVars == <<vars, policyVars>>

PolicyTypeOK ==
  /\ policy \in Values /\ user_policy \in Values
  /\ original_val \in [Call -> Values]
  /\ spoiled \in BOOLEAN
  /\ policyErrors \in 0..MaxPolicyErrors

PolicyInit ==
  /\ Init
  /\ policy \in UserValues /\ user_policy = policy
  /\ original_val = [i \in Call |-> NoValue]
  /\ spoiled = FALSE /\ policyErrors = 0

\* Between the two calls of disable_system_restore.
Bracket == {"update", "updating", "copy", "copying", "done", "report", "restore"}

----------------------------------------------------------------------------
\* A mutant of BackUpAndDisable: the value found is not kept.
DisableOnly(i) == policy' = 1 /\ UNCHANGED original_val

\* disable_system_restore(TRUE): keep the value that is there, set it to 1.
BackUpAndDisable(i) ==
  /\ original_val' = [original_val EXCEPT ![i] = IF @ = NoValue THEN policy ELSE @]
  /\ policy' = 1

\* disable_system_restore(FALSE): put the kept value back; with none, delete the value.
PutBack(i) ==
  /\ policy' = original_val[i]
  /\ UNCHANGED original_val

\* The group policy object or its key cannot be opened: the call changes nothing.
PolicyFails ==
  /\ policyErrors < MaxPolicyErrors
  /\ policyErrors' = policyErrors + 1
  /\ spoiled' = TRUE
  /\ UNCHANGED <<policy, original_val>>

PolicyWorks(Change(_), i) ==
  /\ Change(i)
  /\ UNCHANGED <<spoiled, policyErrors>>

ChangePolicy(i) ==
  /\ \/ /\ DisableRestore(i)
        /\ PolicyWorks(BackUpAndDisable, i) \/ PolicyFails
     \/ /\ EnableRestore(i)
        /\ PolicyWorks(PutBack, i) \/ PolicyFails
  /\ UNCHANGED <<parentVars, bufVars, faults, user_policy>>

\* Any other step leaves the policy alone (what an installer keeps goes with it).  It
\* spoils the bracket of an installer when it ends it (a crash, a termination) or goes to
\* its end without its beginning (a failure before the installer disables anything).
LeavePolicy ==
  /\ UNCHANGED <<policy, user_policy, policyErrors>>
  /\ original_val' =
       [i \in Call |-> IF inst'[i].pc = "dead" THEN NoValue ELSE original_val[i]]
  /\ spoiled' = (spoiled \/ \E i \in Call :
                   \/ inst[i].pc \in Bracket /\ inst'[i].pc = "dead"
                   \/ inst[i].pc = "init" /\ inst'[i].pc = "done")

PolicyNext ==
  \/ ParentStep /\ LeavePolicy
  \/ \E i \in Call : InstallerStep(i) /\ LeavePolicy
  \/ \E i \in Call : ChangePolicy(i)
  \/ Over /\ UNCHANGED policyVars

PolicySpec == PolicyInit /\ [][PolicyNext]_allVars

----------------------------------------------------------------------------
\* The pipe serialises the installers: no two of them are ever inside their brackets,
\* although a call returns (or crashes) while its installer still runs.
\* (disable_system_restore keeps the value it finds: with two, the second would keep 1.)
BracketsDisjoint ==
  \A i, j \in Call : inst[i].pc \in Bracket /\ inst[j].pc \in Bracket => i = j

\* When nothing has gone wrong and no installer is inside its bracket, the policy is the
\* user's, after any number of installs that succeeded, failed or were given up on.
PolicyRestored ==
  ~spoiled /\ (\A i \in Call : inst[i].pc \notin Bracket)
    => policy = user_policy

\* installer.c:917, "Restore the system restore point creation original settings": an
\* installer that comes to its end puts back the setting the user had.
EndRestores ==
  [][\A i \in Call : inst[i].pc = "restore" /\ inst'[i].pc = "close"
       => policy' = user_policy]_allVars
=============================================================================
