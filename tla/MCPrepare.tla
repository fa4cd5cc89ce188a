------------------------------ MODULE MCPrepare ------------------------------
(* Two devices, two names, and two processes, one without privileges.         *)
EXTENDS Prepare

MCTypes == <<"winusb", "libusb0", "libusbk", "cdc", "user">>
\* As on ARM64, where the libusbK driver is embedded and not supported.
MCEmbedded == {"winusb", "libusb0", "libusbk"}
MCSupported == {"winusb", "libusb0", "cdc", "user"}

O(dev, name, type) == [dev |-> dev, desc |-> TRUE, name |-> name, type |-> type,
                       wcid |-> FALSE, subject |-> "", cat |-> TRUE, sign |-> TRUE]
\* The same device under two names; another device under the same name; an application's
\* subject; drivers that are not supported, without a version, or without an inf.
MCOptions == {O("d1", "a", "winusb"), O("d1", "b", "winusb"),
              [O("d2", "a", "winusb") EXCEPT !.wcid = TRUE],
              [O("d2", "b", "libusbk") EXCEPT !.subject = "own"],
              [O("d2", "a", "cdc") EXCEPT !.cat = FALSE, !.subject = "own"],
              [O("d2", "a", "libusb0") EXCEPT !.sign = FALSE, !.desc = FALSE],
              [O("d1", "a", "libusb0") EXCEPT !.sign = FALSE],
              O("d1", "a", "user")}

B(queries, certs, faults, kills) ==
  [queries |-> queries, certs |-> certs, faults |-> faults, kills |-> kills]
MCBudgets == {B(1, 0, 0, 1), B(1, 0, 1, 0), B(0, 0, 1, 1), B(0, 0, 2, 0), B(0, 1, 0, 0)}
=============================================================================
