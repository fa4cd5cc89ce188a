------------------------------ MODULE MainWindow ------------------------------
(* Small parts of Zadig's window (zadig.c, zadig_stdlg.c): the entry of its       *)
(* install menu for the filter driver, and the name it gives to the inf of a      *)
(* device.                                                                        *)
EXTENDS Integers, SequencesExt, FiniteSetsExt

CONSTANTS
  MAX_STRLEN,    \* WDI_MAX_STRLEN, in bytes
  Unauthorized,  \* characters that no name of a file has
  TwoBytes       \* characters that take two bytes

(* The menu has an entry for the filter driver while libusb-win32 is selected, which *)
(* deletes the filter when the device has it.  A call is [display, has_filter].      *)
Calls == [display : BOOLEAN, has_filter : BOOLEAN]
Menu == [displayed |-> TRUE, items |-> <<"Install">>]
FilterText(has_filter) == IF has_filter THEN "Delete" ELSE "Install"

SetFilterMenu(menu, call) ==
  LET deleted == IF menu.displayed /\ menu.items # <<>> THEN Tail(menu.items) ELSE menu.items IN
  [displayed |-> call.display,
   items |-> (IF call.display THEN <<FilterText(call.has_filter)>> ELSE <<>>) \o deleted]

\* The description of a device with an extension, without the characters that are not
\* authorized, and with underscores for its blanks; "none" when it is too long.
Blanks == {" ", "\t"}
Underscore == "_"
ToValidFilename(name, ext) ==
  LET Keep(s, c) == IF c \in Unauthorized THEN s
                    ELSE Append(s, IF c \in Blanks THEN Underscore ELSE c) IN
  IF Len(name) + Cardinality({i \in DOMAIN name : name[i] \in TwoBytes}) > MAX_STRLEN THEN <<"none">>
  ELSE FoldLeft(Keep, <<>>, name \o ext)

--------------------------------------------------------------------------------
(* What is meant. *)

\* One entry or none, as the last call has it.
MenuIsMeant(menu, calls) ==
  LET last == calls[Len(calls)] IN
  menu.items = IF last.display THEN <<FilterText(last.has_filter)>> ELSE <<>>

\* A name of a file with its extension, that of the device if it is one, and not longer.
NameIsMeant(text, name, ext) ==
  LET bad == Unauthorized \cup Blanks IN
  text = <<"none">> \/
  /\ ToSet(text) \cap bad = {} /\ IsSuffix(ext, text) /\ Len(text) <= Len(name \o ext)
  /\ ToSet(name) \cap bad = {} => text = name \o ext
=============================================================================
