------------------------------- MODULE MCZadig -------------------------------
(* Two devices, one of them a hub; the user, the devices, and the check.   *)
EXTENDS ZadigUpdate

MCTypes == <<"WinUSB", "libusb0", "libusbK", "user">>
MCSupported == {"WinUSB", "libusb0", "user"}
D(plugged, driver) == [plugged |-> plugged, driver |-> driver, filtered |-> FALSE]
MCWorlds == {<<D(TRUE, "none"), D(TRUE, "none")>>, <<D(TRUE, "none"), D(TRUE, "hub")>>}
MCWcid == <<"no", "libusb0">>
\* The user and the devices; faults; downloads; checks; what the ini file sets: a program
\* that ends after a success, that extracts, or that lists all devices.
B(clicks, changes, faults, checks, loads, ini) ==
  [clicks |-> clicks, changes |-> changes, faults |-> faults, checks |-> checks, loads |-> loads,
   exit |-> "exit" \in ini, extract |-> "extract" \in ini, all |-> "all" \in ini,
   hubs |-> "hubs" \in ini]
MCBudgets == {B(3, 1, 0, 0, 0, {}), B(4, 0, 0, 0, 0, {}), B(2, 1, 0, 0, 0, {"exit"}),
              B(1, 1, 1, 0, 0, {}), B(2, 0, 1, 0, 0, {}), B(1, 2, 0, 0, 0, {}),
              B(1, 1, 0, 0, 0, {"extract", "all"}), B(1, 1, 0, 0, 0, {"all", "hubs"}),
              B(0, 0, 1, 0, 2, {}), B(1, 0, 0, 2, 0, {}), B(0, 0, 0, 3, 0, {})}
=============================================================================
