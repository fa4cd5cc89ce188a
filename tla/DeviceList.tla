------------------------------ MODULE DeviceList ------------------------------
(* wdi_create_list (libwdi.c): the devices on the USB that an application is to  *)
(* see; and what wdi-simple.c does with them.  A device is what Windows says of  *)
(* it: the text of an id or of a name is not looked into.                        *)
EXTENDS Integers, SequencesExt, FiniteSetsExt

CONSTANT Field  \* the number of values of a field of a version (2^16)

ASSUME DeviceListAssumption == Field \in Nat \ {0}

\* The services of the drivers that make a device a hub, and of the parent of a composite device.
Hubs == {"usbhub", "usbhub3", "usb3hub", "nusb3hub", "rusb3hub", "flxhcih", "tihub3",
         "etronhub3", "viahub3", "asmthub3", "iusb3hub", "vusb3hub", "amdhub30", "vhhub"}
Ccgp == "usbccgp"

(* keyed: it has the key of a driver; service: the driver; vid: 0 if its id has none; mi: -1 *)
(* if it is not an interface; named: it has a description; path: its id can be read.         *)
DeviceType == [keyed : BOOLEAN, service : STRING, vid : Nat, mi : {-1} \cup Nat,
               named : BOOLEAN, path : BOOLEAN]

(* An element of the list: <<device>> is its place in the enumeration of Windows, and *)
(* <<unknown>> the number it is given for want of a description.                      *)
Element(d, i, unknown) ==
  [device |-> i, vid |-> d.vid, is_composite |-> d.mi >= 0, mi |-> IF d.mi >= 0 THEN d.mi ELSE 0,
   unknown |-> IF d.named THEN 0 ELSE unknown, parent |-> d.service = Ccgp]

\* Which devices are left out before their description is read, and which after.
LeftOut(d, o) == \/ d.keyed /\ ~o.list_all
                 \/ d.service \in Hubs \cup {Ccgp} /\ ~o.list_hubs
                 \/ ~d.path
RootHub(d) == d.service \in Hubs /\ d.vid = 0

\* The number of an unknown device is taken even if the device is left out then.
OneDevice(acc, d, i) ==
  LET next == IF d.named THEN acc.unknown ELSE acc.unknown + 1 IN
  [list    |-> IF RootHub(d) THEN acc.list ELSE Append(acc.list, Element(d, i, acc.unknown)),
   unknown |-> next]

CreateList(devices, o) ==
  FoldLeft(LAMBDA acc, i : IF LeftOut(devices[i], o) THEN acc ELSE OneDevice(acc, devices[i], i),
           [list |-> <<>>, unknown |-> 1], [i \in DOMAIN devices |-> i]).list

\* The version of a driver, of fields of a WORD, is one number: a field after the other moves the ones before up.
Fields == 0..(Field - 1)
PackVersion(fields) == FoldLeft(LAMBDA v, f : v * Field + f, 0, fields)

--------------------------------------------------------------------------------
(* main of wdi-simple: what it installs, as elements of the list or as NoElement for the *)
(* device its arguments describe.  <<results>> are those of the installs, in order.      *)
NoElement == 0
Matches(e, dev) == e.vid = dev.vid /\ e.mi = dev.mi /\ e.is_composite = dev.is_composite

Simple(prepared, list, dev, results) ==
  LET InstallOne(acc, e) ==
        IF ~acc.going \/ ~Matches(e, dev) THEN acc
        ELSE [installed |-> Append(acc.installed, e.device),
              going     |-> results[Len(acc.installed) + 1]]
      all == FoldLeft(InstallOne, [installed |-> <<>>, going |-> TRUE], list).installed IN
  IF ~prepared THEN <<>> ELSE IF all = <<>> THEN <<NoElement>> ELSE all

--------------------------------------------------------------------------------
(* The list holds the devices that are wanted, in their order; root hubs never; and no *)
(* two of them go by the same number.                                                  *)
ListIsMeant(list, devices, o) ==
  /\ {list[k].device : k \in DOMAIN list} =
       {i \in DOMAIN devices : ~LeftOut(devices[i], o) /\ ~RootHub(devices[i])}
  /\ \A k, l \in DOMAIN list : k < l =>
       /\ list[k].device < list[l].device
       /\ list[k].unknown = list[l].unknown => list[k].unknown = 0
  /\ \A k \in DOMAIN list : list[k].unknown = 0 <=> devices[list[k].device].named

\* Versions of as many fields compare as their numbers do.
Less(a, b) == \E i \in DOMAIN a : a[i] < b[i] /\ \A j \in 1..(i - 1) : a[j] = b[j]

(* Every plugged device that matches is installed once, in order, up to the first failure; *)
(* the device of the arguments is if there is none, and nothing if nothing was prepared.   *)
SimpleIsMeant(installed, prepared, list, dev, results) ==
  LET matching == {list[k].device : k \in {l \in DOMAIN list : Matches(list[l], dev)}}
      n == Len(installed) IN
  IF ~prepared THEN installed = <<>>
  ELSE IF matching = {} THEN installed = <<NoElement>>
  ELSE /\ {installed[k] : k \in 1..n} =
            {d \in matching : results[n] \/ d <= installed[n]}
       /\ \A k \in 1..(n - 1) : installed[k] < installed[k + 1] /\ results[k]
=============================================================================
