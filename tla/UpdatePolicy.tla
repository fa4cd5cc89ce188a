----------------------------- MODULE UpdatePolicy -----------------------------
(* What Zadig keeps in the registry about its check for updates (zadig_registry.h): *)
(* whether and how often it may check, which the user is asked once (zadig_stdlg.c) *)
(* and the thread that checks looks up (zadig_net.c).  Time is counted in days.     *)
EXTENDS Integers

\* The settings are numbers under names; a registry may not open, or refuse to be written.
Keys == {"comm", "interval", "last", "betas"}
IsRegistry(reg) ==
  /\ DOMAIN reg.values \subseteq Keys /\ reg.values \in [DOMAIN reg.values -> Int]
  /\ reg \in [opens : BOOLEAN, writable : BOOLEAN, values : {reg.values}]

\* A key without a value, or that can not be opened, reads as 0; a refused write is not noticed.
ReadRegistryKey(reg, key) == IF reg.opens /\ key \in DOMAIN reg.values THEN reg.values[key] ELSE 0
WriteRegistryKey(reg, key, v) ==
  IF ~(reg.opens /\ reg.writable) THEN reg
  ELSE [reg EXCEPT !.values = [k \in DOMAIN @ \cup {key} |-> IF k = key THEN v ELSE @[k]]]

Disabled == -1
Daily == 1

\* UpdateCallback: a frequency that is picked in the settings dialog is written at once; 0 for none.
PickFrequency(reg, picked) == IF picked = 0 THEN reg ELSE WriteRegistryKey(reg, "interval", picked)

(* SetUpdateCheck: the first time, the user is asked whether Zadig may check, and may *)
(* pick a frequency meanwhile; with its short name the program does not ask.          *)
SetUpdateCheck(reg, ticks, short, allows, picked) ==
  LET tried == WriteRegistryKey(reg, "comm", ticks)
      asked == IF short THEN tried ELSE PickFrequency(tried, picked) IN
  IF ReadRegistryKey(tried, "comm") # ticks THEN [result |-> FALSE, reg |-> tried]
  ELSE IF ReadRegistryKey(tried, "interval") # 0 THEN [result |-> TRUE, reg |-> tried]
  ELSE IF ~short /\ ~allows
  THEN [result |-> FALSE, reg |-> WriteRegistryKey(asked, "interval", Disabled)]
  ELSE [result |-> TRUE,
        reg |-> IF ReadRegistryKey(asked, "interval") \in {0, Disabled}
                THEN WriteRegistryKey(asked, "interval", Daily) ELSE asked]

(* Whether a check that was not forced is made: the result of SetUpdateCheck is not *)
(* looked at, only the interval is.                                                 *)
CheckIsDue(reg, now) ==
  LET interval == ReadRegistryKey(reg, "interval") IN
  /\ interval # Disabled
  /\ now >= ReadRegistryKey(reg, "last") + (IF interval = 0 THEN Daily ELSE interval)

--------------------------------------------------------------------------------
(* What is meant: who is asked decides, who was asked before is held to it, and a *)
(* registry that keeps nothing, which never tells what was decided, lets check.   *)
PolicyIsMeant(made, j) ==
  LET had == ReadRegistryKey(j.reg, "interval")
      interval == IF had # 0 \/ ~(j.reg.opens /\ j.reg.writable) THEN had
                  ELSE IF ~j.short /\ ~j.allows THEN Disabled
                  ELSE IF ~j.short /\ j.picked > 0 THEN j.picked ELSE Daily
      days == IF interval = 0 THEN Daily ELSE interval IN
  /\ ReadRegistryKey(made.reg, "interval") = interval
  /\ made.due <=> interval # Disabled /\ j.now - ReadRegistryKey(j.reg, "last") >= days
=============================================================================
