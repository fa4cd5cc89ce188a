------------------------------- MODULE Platform -------------------------------
(* What Windows tells libwdi and its installer: its version and its architecture *)
(* (libwdi.c; zadig.c has the same two functions), how an installation went, and *)
(* the devices that are known but not plugged in (installer.c).                  *)
EXTENDS Integers, Sequences

WINDOWS_UNDEFINED == -1
WINDOWS_UNSUPPORTED == 0
Code(v) == v[1] * 16 + v[2]
XP == <<5, 1>>
Windows10 == <<10, 0>>
Windows11 == <<11, 0>>
Named == {XP, <<5, 2>>, <<6, 0>>, <<6, 1>>, <<6, 2>>, <<6, 3>>, <<6, 4>>, Windows10, Windows11}
FirstBuildOf11 == 20000

(* GetVersionEx tells <<told>>, which is 6.2 for anything later unless the application *)
(* has a manifest; VerifyVersionInfo compares a number with <<verified>>.              *)
Probe(told, verified) ==
  LET from == IF told[1] = verified[1] THEN told ELSE <<verified[1], 0>> IN
  IF Code(told) < Code(<<6, 2>>) \/ verified[1] \notin told[1]..9 THEN told
  ELSE IF verified[2] \in from[2]..9 THEN verified ELSE from

GetWindowsVersion(told, verified, build) ==
  LET v == Probe(told, verified) IN
  IF v[1] > 15 \/ v[2] > 15 THEN WINDOWS_UNDEFINED
  ELSE IF v = Windows10 /\ build >= FirstBuildOf11 THEN Code(Windows11)
  ELSE IF v \notin Named /\ Code(v) < Code(XP) THEN WINDOWS_UNSUPPORTED ELSE Code(v)

(* The architecture of the system, which is guessed from that of the application *)
(* where IsWow64Process2 is missing or fails.                                    *)
WideArch(arch) == CASE arch = "x86" -> "x64" [] arch = "arm" -> "arm64" [] OTHER -> arch
Narrow == {"x86", "arm"}
GetPlatformArch(native, app, asks) ==
  IF asks THEN native ELSE IF app \in Narrow /\ native \notin Narrow THEN WideArch(app) ELSE app

(* check_removed: each device of an id that is not plugged in is flagged, so that it is *)
(* installed when it is; one that fails does not keep the others from it.               *)
PhantomType == [id : {"read", "other", "unreadable"}, plugged : BOOLEAN,
                flags : SUBSET {"reinstall", "other"}, readable : BOOLEAN, writable : BOOLEAN]
Flagged(d) == d.id = "read" /\ ~d.plugged /\ d.readable /\ d.writable
CheckRemoved(devices) ==
  [i \in DOMAIN devices |->
     IF Flagged(devices[i]) THEN devices[i].flags \cup {"reinstall"} ELSE devices[i].flags]

(* process_error: what the errors of Windows mean to libwdi, three of them success; *)
(* any other is WDI_ERROR_OTHER.                                                    *)
Meanings ==
  [WDI_SUCCESS |-> {"NO_SUCH_DEVINST", "ALREADY_INSTALLED", "SUCCESS_REBOOT_REQUIRED"},
   WDI_ERROR_EXISTS |-> {"NO_MORE_ITEMS", "ALREADY_EXISTS"},
   WDI_ERROR_INVALID_PARAM |-> {"INVALID_PARAMETER"},
   WDI_ERROR_NOT_FOUND |->
     {"FILE_NOT_FOUND", "PATH_NOT_FOUND", "OPEN_FAILED", "FILE_HASH_NOT_IN_CATALOG"},
   WDI_ERROR_NEEDS_ADMIN |-> {"ACCESS_DENIED"},
   WDI_ERROR_WOW64 |-> {"IN_WOW64"},
   WDI_ERROR_INF_SYNTAX |->
     {"INVALID_DATA", "WRONG_INF_STYLE", "GENERAL_SYNTAX", "INVALID_TARGET",
      "BAD_SERVICE_INSTALLSECT", "NO_ASSOCIATED_SERVICE"},
   WDI_ERROR_CAT_MISSING |-> {"INVALID_CATALOG_DATA"},
   WDI_ERROR_USER_CANCEL |-> {"NO_AUTHENTICODE_CATALOG", "DRIVER_STORE_ADD_FAILED"},
   WDI_ERROR_NOT_SUPPORTED |->
     {"AUTHENTICODE_PUBLISHER_NOT_TRUSTED", "CERTIFICATE_AUTHORITY_NOT_TRUSTED",
      "NO_DRIVER_SELECTED", "DRIVER_NONNATIVE"},
   WDI_ERROR_UNSIGNED |-> {"NO_CATALOG_FOR_OEM_INF"},
   WDI_ERROR_PENDING_INSTALLATION |-> {"DEVICE_INSTALLER_NOT_READY"},
   WDI_ERROR_TIMEOUT |-> {"TIMEOUT"}]
ProcessError(e) ==
  IF \E r \in DOMAIN Meanings : e \in Meanings[r]
  THEN CHOOSE r \in DOMAIN Meanings : e \in Meanings[r] ELSE "WDI_ERROR_OTHER"

(* The end of main: the driver of the devices that are plugged in is updated, <<update>> *)
(* is the error of that, "none", or "unidentified" when the hardware id is not known;    *)
(* without a device to update the inf is copied for later.                               *)
(* Devices are searched again when either is done, and the absent ones are flagged when  *)
(* the copy fails with an error that counts as success.                                  *)
InstallDriver(update, copy, devices) ==
  LET as(result, searched, flags) == [result |-> result, searched |-> searched, flags |-> flags]
      kept == [i \in DOMAIN devices |-> devices[i].flags]
      copies == update = "unidentified" \/ ProcessError(update) = "WDI_SUCCESS" IN
  IF update = "none" \/ (copies /\ copy = "none") THEN as("WDI_SUCCESS", TRUE, kept)
  ELSE IF ~copies THEN as(ProcessError(update), FALSE, kept)
  ELSE as(ProcessError(copy), FALSE,
          IF ProcessError(copy) = "WDI_SUCCESS" /\ update # "unidentified"
          THEN CheckRemoved(devices) ELSE kept)
=============================================================================
