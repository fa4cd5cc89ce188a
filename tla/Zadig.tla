-------------------------------- MODULE Zadig --------------------------------
(***************************************************************************)
(* The main window of Zadig (examples/zadig.c) and the device list of      *)
(* libwdi it owns (wdi_create_list, wdi_destroy_list).                     *)
(*                                                                         *)
(* One thread handles messages one after the other, but a handler that     *)
(* shows a box, a dialog or the progress of an installation runs a loop    *)
(* of its own, in which other messages are handled before it goes on:      *)
(* `stack` holds those that have not returned.  What the window knows is   *)
(* the record w, and the functions of the source are operators on it.      *)
(* Messages posted come before the input of the user, which reaches the    *)
(* window only while no dialog disables it.                                *)
(***************************************************************************)
EXTENDS Integers, Sequences, SequencesExt, FiniteSets

CONSTANTS
  Hw,        \* how many devices there are: 1..Hw, in the order they are listed in
  Worlds,    \* what they may be at first, see World
  WcidOf,    \* the type in the Microsoft compatible id of each, "no" without one
  Types,     \* the driver types, in their order
  Supported, \* those this build can install
  Budgets    \* bounds and an ini file, one of which a behaviour has: see Budget

World == [1..Hw -> [plugged : BOOLEAN, driver : {"none", "hub"} \cup Range(Types),
                    filtered : BOOLEAN]]
Budget == [clicks : Nat, changes : Nat, faults : Nat, checks : Nat, loads : Nat,
           exit : BOOLEAN, extract : BOOLEAN, all : BOOLEAN, hubs : BOOLEAN]

ASSUME ZadigAssumption ==
  /\ Hw \in Nat \ {0} /\ Worlds \subseteq World /\ Types \in Seq(STRING)
  /\ {"WinUSB", "libusb0", "libusbK", "user"} \subseteq Range(Types)
  /\ Supported \subseteq Range(Types) /\ Supported # {}
  /\ WcidOf \in [1..Hw -> {"no", "other"} \cup Range(Types)]
  /\ Budgets \subseteq Budget

\* A wdi_device_info is named by its list and its device; NULL belongs to list 0.
Rec == [gen : Nat, hw : 0..Hw, driver : {"none", "hub"} \cup Range(Types),
        filtered : BOOLEAN]
NoDev == [gen |-> 0, hw |-> 0, driver |-> "none", filtered |-> FALSE]

VARIABLES
  w,       \* the window
  queue,   \* the messages posted to it
  stack,   \* the boxes and dialogs that have not returned, the innermost last
  thid,    \* notification_delay_thid # -1
  delay,   \* notification_delay_thread sleeps
  world,   \* the devices
  alive,   \* the lists that are allocated
  bad,     \* history: a list that had been freed was used
  odd,     \* history: what went wrong, see Oddity
  left     \* what is left of the budget

uiVars == <<w, queue, stack, thid, delay, world, alive, bad, odd, left>>

Oddity == {"refused", "jumped", "left", "thread", "dropped", "missed", "declined",
           "closing"}
Messages == {"devicechange", "deviceevent", "refresh", "selchange", "close", "cancel",
             "noupdate"}
Frame == [kind : {"event", "filter", "system", "install", "notice", "file", "settings"},
          dev : Rec, own : BOOLEAN, ok : BOOLEAN]
Window ==
  [list : Seq(Rec), device : Rec, items : Seq(Rec), sel : 0..Hw, current : 0..Hw,
   hwid : 0..Hw, edit : Rec, editing : BOOLEAN, editbox : BOOLEAN,
   create : BOOLEAN, menu : BOOLEAN, found : BOOLEAN, replace : BOOLEAN,
   wcid : {"yes", "no", "none"}, wtype : Range(Types), use_wcid : BOOLEAN,
   type : Range(Types), filter : BOOLEAN, has_filter : BOOLEAN, extract : BOOLEAN,
   all : BOOLEAN, hubs : BOOLEAN, from_install : BOOLEAN, installing : BOOLEAN,
   label : {"", "WCID", "Filter"} \X {"Extract", "Install", "Replace", "Reinstall", "Delete"}]

UiTypeOK ==
  /\ w \in Window
  /\ queue \in Seq(Messages) /\ stack \in Seq(Frame)
  /\ thid \in BOOLEAN /\ delay \in BOOLEAN
  /\ world \in World /\ alive \subseteq Nat \ {0}
  /\ bad \in BOOLEAN /\ odd \subseteq Oddity /\ left \in Budget

Post(m) == Append(queue, m)

----------------------------------------------------------------------------
(* What the window shows.                                                  *)

\* The buttons and the menus of the window work.
CanInput == queue = <<>> /\ stack = <<>> /\ "closing" \notin odd

\* wdi_create_list: the devices it lists with these options, in their order.
Listed(v) ==
  LET shown == {h \in 1..Hw : /\ world[h].plugged
                              /\ world[h].driver = "none" \/ v.all
                              /\ world[h].driver = "hub" => v.hubs}
      place(h) == Cardinality({k \in shown : k <= h})
  IN [i \in 1..Cardinality(shown) |-> CHOOSE h \in shown : place(h) = i]

Listing(g, v) == [i \in DOMAIN Listed(v) |->
  [gen |-> g, hw |-> Listed(v)[i], driver |-> world[Listed(v)[i]].driver,
   filtered |-> world[Listed(v)[i]].filtered]]

\* Selects by hardware id if one is there, and else keeps the index.
DisplayDevices(v) ==
  LET same(i) == v.list[i].hw = v.hwid
      known == v.hwid # 0 /\ \E i \in DOMAIN v.list : same(i)
      current == IF known THEN CHOOSE i \in DOMAIN v.list : same(i)
                 ELSE IF v.current = 0 THEN 1 ELSE v.current
  IN [v EXCEPT !.items = v.list, !.found = v.list # <<>>,
               !.current = current, !.hwid = IF known THEN 0 ELSE @,
               !.sel = IF current \in DOMAIN v.list THEN current ELSE 0]

UpdateUi(v) == [v EXCEPT !.filter = @ /\ v.type = "libusb0",
                         !.has_filter = v.device.filtered]

\* The text of the button.  Upgrades and downgrades count as Reinstall.
Label(v) ==
  <<IF v.use_wcid THEN "WCID" ELSE IF v.filter THEN "Filter" ELSE "",
    CASE v.extract -> "Extract"
      [] ~v.extract /\ (v.device = NoDev \/ ~v.replace \/ v.filter) ->
           IF v.has_filter THEN "Delete" ELSE "Install"
      [] OTHER -> IF (v.wcid = "yes") # v.use_wcid
                  THEN IF v.use_wcid THEN "Install" ELSE "Replace"
                  ELSE IF v.device.driver = v.type THEN "Reinstall"
                  ELSE IF v.use_wcid THEN "Install" ELSE "Replace">>

SetInstallButton(v) == [v EXCEPT !.label = Label(v)]

SetDriver(v) ==
  IF v.type \in {"cdc", "user"} \/ v.type \notin Supported THEN v
  ELSE [v EXCEPT !.use_wcid = ~v.found \/ (v.wcid = "yes" /\ v.type = v.wtype)]

\* The next type up or down that is supported.
SelectNextDriver(v, increment) ==
  LET n == Len(Types)
      now == CHOOSE i \in 1..n : Types[i] = v.type
      at(k) == Types[((n + now - 1 + k * increment) % n) + 1]
      k0 == CHOOSE k \in 1..n : /\ at(k) \in Supported
                                /\ \A j \in 1..(k - 1) : at(j) \notin Supported
  IN SetDriver([v EXCEPT !.type = at(k0)])

\* init_dialog has chosen a driver, with no list yet; WM_INITDIALOG goes on into
\* UM_REFRESH_LIST.
UiInit ==
  /\ left \in Budgets
  /\ w = SetDriver(
         [list |-> <<>>, device |-> NoDev, items |-> <<>>, sel |-> 0, current |-> 0,
          hwid |-> 0, edit |-> NoDev, editing |-> FALSE, editbox |-> FALSE,
          create |-> FALSE, menu |-> FALSE, found |-> FALSE, replace |-> FALSE,
          wcid |-> "none", wtype |-> "user", use_wcid |-> FALSE,
          type |-> Types[SelectInSeq(Types, LAMBDA t : t \in Supported)], filter |-> FALSE,
          has_filter |-> FALSE, extract |-> left.extract, all |-> left.all, hubs |-> left.hubs,
          from_install |-> FALSE, installing |-> FALSE, label |-> <<"", "Install">>])
  /\ queue = <<"refresh">> /\ stack = <<>>
  /\ thid = FALSE /\ delay = FALSE
  /\ world \in Worlds /\ alive = {} /\ bad = FALSE /\ odd = {}

\* IDC_EDITNAME: the description of the device is to be edited, or no longer.
ToggleEdit(v) ==
  IF v.editing /\ v.device # NoDev
  THEN IF v.edit # NoDev THEN [v EXCEPT !.editbox = TRUE] \* "program assertion failed"
       ELSE [v EXCEPT !.editbox = TRUE, !.edit = v.device]
  ELSE [DisplayDevices([v EXCEPT !.editbox = FALSE]) EXCEPT !.edit = NoDev]

\* IDM_CREATE: the device is described by the user, or no longer.
ToggleCreate(v) ==
  LET on == ~v.menu
      calm == IF on /\ v.editing
              THEN ToggleEdit([v EXCEPT !.device = NoDev, !.editing = FALSE]) ELSE v
      shown == IF on THEN UpdateUi([calm EXCEPT !.device = NoDev, !.editbox = TRUE,
                                                !.wcid = "none"])
               ELSE [v EXCEPT !.editbox = FALSE]
  IN SetInstallButton([shown EXCEPT !.create = on, !.menu = on, !.use_wcid = FALSE,
                                    !.replace = FALSE])

\* What toggle_create(TRUE) posts when v is what it found.
Refreshes(v) == IF v.menu THEN <<"refresh">> ELSE <<>>

\* toggle_driverless and toggle_hubs, but for the refresh they are asked to post.
ToggleList(v, hubs) ==
  LET changed == IF hubs THEN [v EXCEPT !.hubs = ~@] ELSE [v EXCEPT !.all = ~@]
      settled == IF v.create THEN ToggleCreate(changed) ELSE changed
  IN [settled EXCEPT !.editing = FALSE, !.editbox = FALSE]

----------------------------------------------------------------------------
(* The messages.  Handle(m) takes m off the queue; one that is posted      *)
(* during an installation is dropped by NOT_DURING_INSTALL.                *)

Handle(m) == queue # <<>> /\ Head(queue) = m
Rest == Tail(queue)
Spend(what) == left[what] > 0 /\ left' = [left EXCEPT ![what] = @ - 1]
Top == Last(stack)
Push(kind, dev, own, ok) ==
  Append(stack, [kind |-> kind, dev |-> dev, own |-> own, ok |-> ok])

\* WM_DEVICECHANGE, the first of which starts notification_delay_thread.
DeviceChange ==
  /\ Handle("devicechange") /\ queue' = Rest
  /\ IF w.installing \/ thid
     THEN /\ odd' = IF w.installing THEN odd \cup {"missed"} ELSE odd
          /\ UNCHANGED <<thid, delay, left>>
     ELSE \/ thid' = TRUE /\ delay' = TRUE /\ UNCHANGED <<odd, left>>
          \/ Spend("faults") /\ odd' = odd \cup {"thread"} /\ UNCHANGED <<thid, delay>>
  /\ UNCHANGED <<w, stack, world, alive, bad>>

\* notification_delay_thread wakes up.
DelayEnds ==
  /\ delay /\ delay' = FALSE
  /\ queue' = Post("deviceevent")
  /\ UNCHANGED <<w, stack, thid, world, alive, bad, odd, left>>

\* UM_DEVICE_EVENT.  The user who creates a device is asked.
DeviceEvent ==
  /\ Handle("deviceevent")
  /\ IF w.installing
     THEN /\ queue' = Rest /\ odd' = odd \cup {"dropped"}
          /\ UNCHANGED <<thid, stack>>
     ELSE /\ thid' = FALSE /\ UNCHANGED odd
          /\ IF w.create THEN stack' = Push("event", NoDev, FALSE, FALSE) /\ queue' = Rest
                         ELSE queue' = Append(Rest, "refresh") /\ UNCHANGED stack
  /\ UNCHANGED <<w, delay, world, alive, bad, left>>

\* A mutant of EventAnswered: the mode is left without another look at it.
EventAnsweredTwice ==
  /\ stack # <<>> /\ Top.kind = "event" /\ stack' = Front(stack)
  /\ \/ /\ w' = [ToggleCreate(w) EXCEPT !.menu = FALSE, !.editbox = FALSE]
        /\ queue' = Post("refresh") /\ UNCHANGED odd
     \/ odd' = odd \cup {"declined"} /\ UNCHANGED <<w, queue>>
  /\ UNCHANGED <<thid, delay, world, alive, bad, left>>

\* Yes: the mode is left and the list refreshed.  Another box may have done it before.
EventAnswered ==
  /\ stack # <<>> /\ Top.kind = "event" /\ stack' = Front(stack)
  /\ \/ /\ w' = [(IF w.create THEN ToggleCreate(w) ELSE w)
                   EXCEPT !.menu = FALSE, !.editbox = FALSE]
        /\ queue' = Post("refresh") /\ UNCHANGED odd
     \/ odd' = odd \cup {"declined"} /\ UNCHANGED <<w, queue>>
  /\ UNCHANGED <<thid, delay, world, alive, bad, left>>

\* A list that nothing refers to.
Fresh ==
  LET used == {v.gen : v \in Range(w.list) \cup Range(w.items)
                             \cup {w.device, w.edit} \cup {f.dev : f \in Range(stack)}}
             \cup alive
  IN CHOOSE g \in 1..(Cardinality(used) + 1) : g \notin used

Freed(list) == {v.gen : v \in Range(list)}

\* A mutant of NewList: the pointer is not reset when there is no device.
NewListNotReset(g, created) ==
  IF created /\ Listing(g, w) # <<>> THEN Listing(g, w) ELSE w.list

\* *list after wdi_create_list, which leaves it alone when it is refused.
NewList(g, created) == IF created THEN Listing(g, w) ELSE w.list

\* UM_REFRESH_LIST: destroys the list and creates it again.  Another process that has
\* a list created or destroyed makes the one or the other call answer BUSY.
RefreshList ==
  /\ Handle("refresh")
  /\ IF w.installing
     THEN queue' = Rest /\ UNCHANGED <<w, alive, bad, odd, left>>
     ELSE \E destroyed, created \in BOOLEAN :
       LET g == Fresh
           v == [w EXCEPT !.editing = FALSE, !.filter = FALSE, !.from_install = FALSE,
                          !.editbox = IF w.editing THEN FALSE ELSE @,
                          !.current = IF w.from_install THEN @ ELSE 1,
                          !.edit = NoDev, !.device = NoDev,
                          !.list = NewList(g, created)]
           kept == IF destroyed THEN alive \ Freed(w.list) ELSE alive
       IN /\ w.list = <<>> => destroyed
          /\ IF destroyed /\ created THEN UNCHANGED left ELSE Spend("faults")
          /\ bad' = (bad \/ (destroyed /\ ~(Freed(w.list) \subseteq alive)))
          /\ odd' = (odd \ {"left"}) \cup IF created THEN {} ELSE {"refused"}
          /\ alive' = IF created THEN kept \cup Freed(Listing(g, w)) ELSE kept
          /\ IF created /\ Listing(g, w) # <<>>
             THEN w' = DisplayDevices(v) /\ queue' = Append(Rest, "selchange")
             ELSE /\ w' = SetInstallButton(UpdateUi(
                       [v EXCEPT !.found = FALSE, !.items = <<>>, !.sel = 0,
                                 !.wcid = "none", !.use_wcid = TRUE]))
                  /\ queue' = Rest
  /\ UNCHANGED <<stack, thid, delay, world>>

\* What the compatible id of a device selects: a type that is not one of the first two
\* is taken for libusbK.
ChooseWcid(v) ==
  LET id == WcidOf[v.device.hw]
      type == IF id \in {"WinUSB", "libusb0"} THEN id ELSE "libusbK"
  IN IF id = "no" THEN [v EXCEPT !.wcid = "no", !.use_wcid = FALSE]
     ELSE IF type \in Supported
     THEN SetDriver([v EXCEPT !.wcid = "yes", !.use_wcid = TRUE, !.wtype = type,
                              !.type = type])
     ELSE [v EXCEPT !.wcid = "yes", !.use_wcid = FALSE, !.wtype = type]

\* CBN_SELCHANGE, which takes the device from the item that is selected.
SelChanged(v) ==
  LET device == IF v.sel = 0 THEN NoDev ELSE v.items[v.sel]
      chosen == [v EXCEPT !.device = device, !.current = v.sel,
                          !.replace = IF device = NoDev THEN @ ELSE device.driver # "none"]
  IN SetInstallButton(UpdateUi(IF device = NoDev THEN [chosen EXCEPT !.wcid = "none"]
                               ELSE ChooseWcid(chosen)))

SelChange ==
  /\ Handle("selchange") /\ queue' = Rest
  /\ w' = SelChanged(w)
  /\ bad' = (bad \/ ~(Freed(<<w'.device>>) \subseteq alive \cup {0}))
  /\ odd' = odd \ {"jumped"}
  /\ UNCHANGED <<stack, thid, delay, world, alive, left>>

\* WM_CLOSE, upon which Windows sends IDCANCEL; the message loop ends when it is empty.
Close ==
  /\ Handle("close") /\ queue' = Append(Rest, "cancel")
  /\ odd' = odd \cup {"closing"}
  /\ UNCHANGED <<w, stack, thid, delay, world, alive, bad, left>>

\* IDOK, IDCANCEL: the list is freed, and the pointer to it stays.
Cancel ==
  /\ Handle("cancel") /\ queue' = Rest
  /\ bad' = (bad \/ ~(Freed(w.list) \subseteq alive))
  /\ alive' = alive \ Freed(w.list)
  /\ UNCHANGED <<w, stack, thid, delay, world, odd, left>>

\* UM_NO_UPDATE
NoUpdate ==
  /\ Handle("noupdate") /\ queue' = Rest
  /\ stack' = Push("notice", NoDev, FALSE, FALSE)
  /\ UNCHANGED <<w, thid, delay, world, alive, bad, odd, left>>

----------------------------------------------------------------------------
(* install_driver, in pieces that end where it shows something.            *)

\* Its end, in the handler of IDC_INSTALL: a box tells the result, but for a filter or
\* an extraction, and the program closes if it is to after a success.
EndInstall(v, frames, messages, ok) ==
  LET quit == ok /\ left.exit /\ ~v.filter
      told == ~v.filter /\ (ok => ~v.extract)
  IN /\ w' = [v EXCEPT !.from_install = TRUE, !.installing = FALSE]
     /\ stack' = IF told THEN Append(frames, [kind |-> "notice", dev |-> NoDev,
                                              own |-> FALSE, ok |-> quit])
                 ELSE frames
     /\ queue' = IF quit /\ ~told THEN Append(messages, "close") ELSE messages

System(dev) == dev.driver = "hub"

\* wdi_prepare_driver, and what there is to ask before the installation.
Prepare(v, frames, dev, own) ==
  \E ok \in BOOLEAN :
    /\ ok => dev # NoDev \/ own
    /\ IF ok \/ (dev = NoDev /\ ~own) THEN UNCHANGED left ELSE Spend("faults")
    /\ IF ~ok \/ v.type = "user" \/ v.extract
       THEN EndInstall(v, frames, queue, ok)
       ELSE /\ w' = v /\ UNCHANGED queue
            /\ stack' = Append(frames,
                 [kind |-> IF System(dev) THEN "system" ELSE "install",
                  dev |-> dev, own |-> own, ok |-> FALSE])

\* IDC_INSTALL.  A device that is created, or WCID, makes a device of its own; what the
\* user has typed may not make one.  If it is the description that is missing a box says so
\* first, which is a frame "filter" whose preparation fails.
InstallClicked ==
  /\ CanInput /\ left.clicks > 0
  /\ LET own == w.menu \/ w.use_wcid
         dev == IF own THEN NoDev ELSE w.device
         v == [w EXCEPT !.installing = TRUE]
         paid == [left EXCEPT !.clicks = @ - 1]
     IN \/ /\ w.device = NoDev /\ ~w.extract /\ ~own
           /\ stack' = IF w.filter THEN stack ELSE Push("notice", NoDev, FALSE, FALSE)
           /\ left' = paid /\ UNCHANGED <<w, queue>>
        \/ /\ w.menu /\ ~w.use_wcid
           /\ left.faults > 0 /\ left' = [paid EXCEPT !.faults = @ - 1]
           /\ EndInstall(v, stack, queue, FALSE)
        \/ /\ w.device # NoDev \/ w.extract \/ own
           /\ left' = paid /\ UNCHANGED queue
           /\ w' = v
           /\ stack' = Push("filter", dev, own, w.filter /\ ~w.has_filter)
  /\ bad' = (bad \/ w.device.gen \notin alive \cup {0})
  /\ UNCHANGED <<thid, delay, world, alive, odd>>

\* The filter has a warning; without one the preparation follows at once.
Warned ==
  /\ stack # <<>> /\ Top.kind = "filter"
  /\ \/ Prepare(w, Front(stack), Top.dev, Top.own)
     \/ Top.ok /\ EndInstall(w, Front(stack), queue, FALSE) /\ UNCHANGED left
  /\ UNCHANGED <<thid, delay, world, alive, bad, odd>>

\* "You are about to modify a system driver."
SystemWarned ==
  /\ stack # <<>> /\ Top.kind = "system"
  /\ \/ /\ stack' = Append(Front(stack), [Top EXCEPT !.kind = "install"])
        /\ UNCHANGED <<w, queue>>
     \/ EndInstall(w, Front(stack), queue, FALSE)
  /\ UNCHANGED <<thid, delay, world, alive, bad, odd, left>>

\* What an installation that succeeds does to the device.
Installed(dev, v) ==
  IF dev.hw = 0 THEN world
  ELSE [world EXCEPT ![dev.hw] =
          IF v.filter THEN [@ EXCEPT !.filtered = ~v.has_filter]
          ELSE [@ EXCEPT !.driver = v.type]]

\* A mutant of InstallReturns: the refresh is not forced.
InstallReturnsQuietly ==
  /\ stack # <<>> /\ Top.kind = "install"
  /\ world' = Installed(Top.dev, w)
  /\ EndInstall([w EXCEPT !.hwid = Top.dev.hw], Front(stack), queue, TRUE)
  /\ UNCHANGED <<thid, delay, alive, bad, odd, left>>

\* wdi_install_driver returns: the device is to be selected by its hardware id, devices
\* with a driver are to be listed, and a notification forces a refresh.
InstallReturns ==
  /\ stack # <<>> /\ Top.kind = "install"
  /\ \E ok \in BOOLEAN :
       LET listAll == ok /\ ~w.all /\ ~w.use_wcid
           v == [w EXCEPT !.hwid = Top.dev.hw]
           shown == IF listAll THEN ToggleList(v, FALSE) ELSE v
           posted == IF listAll /\ w.create THEN queue \o Refreshes(w) ELSE queue
       IN /\ IF ok THEN UNCHANGED left ELSE Spend("faults")
          /\ world' = IF ok THEN Installed(Top.dev, w) ELSE world
          /\ odd' = (odd \ {"missed"})
                      \cup (IF listAll /\ shown.edit # NoDev THEN {"left"} ELSE {})
          /\ EndInstall(shown, Front(stack), Append(posted, "devicechange"), ok)
          /\ bad' = (bad \/ (~Top.own /\ Top.dev.gen \notin alive \cup {0}))
  /\ UNCHANGED <<thid, delay, alive>>

\* A box that only tells something is closed.
NoticeClosed ==
  /\ stack # <<>> /\ Top.kind = "notice" /\ stack' = Front(stack)
  /\ queue' = IF Top.ok THEN Post("close") ELSE queue
  /\ UNCHANGED <<w, thid, delay, world, alive, bad, odd, left>>

----------------------------------------------------------------------------
(* The user, and the devices.                                              *)

Click(v, messages) ==
  /\ CanInput /\ Spend("clicks")
  /\ w' = v
  /\ queue' = messages
  /\ UNCHANGED <<stack, thid, delay, world, alive>>

Calm == UNCHANGED <<bad, odd>>

SelectItem ==
  /\ ~w.editbox
  /\ \E i \in DOMAIN w.items : i # w.sel /\ Click([w EXCEPT !.sel = i], <<"selchange">>)
  /\ Calm

\* display_devices may select another item than that of the device.  The box works with a
\* device, and without one when the list has others, of which none is selected.
EditClicked ==
  LET v == ToggleEdit([w EXCEPT !.editing = ~@])
  IN /\ w.editing \/ w.device # NoDev \/ (w.items # <<>> /\ ~w.create)
     /\ Click(v, <<>>)
     /\ odd' = IF v.sel # w.sel THEN odd \cup {"jumped"} ELSE odd
     /\ UNCHANGED bad

\* The memory for the description is not there.
EditRefused ==
  /\ CanInput /\ Spend("faults")
  /\ ~w.editing /\ w.device # NoDev /\ w.edit = NoDev
  /\ w' = [w EXCEPT !.editbox = FALSE]
  /\ UNCHANGED <<queue, stack, thid, delay, world, alive, bad, odd>>

\* EN_CHANGE copies what is typed to editable_desc.
Typed ==
  /\ CanInput /\ w.editbox /\ w.edit # NoDev
  /\ bad' = (bad \/ w.edit.gen \notin alive)
  /\ UNCHANGED <<w, queue, stack, thid, delay, world, alive, odd, left>>

CreateClicked == Click(ToggleCreate(w), Refreshes(w)) /\ Calm

\* IDM_LISTALL, IDM_IGNOREHUBS (which is grey while devices with a driver are not listed)
ListClicked ==
  /\ \E hubs \in BOOLEAN :
       /\ hubs => w.all
       /\ Click(ToggleList(w, hubs),
                (IF w.create THEN Refreshes(w) ELSE <<>>) \o <<"refresh">>)
  /\ Calm

DriverScrolled ==
  /\ \E increment \in {-1, 1} :
       Click(SetInstallButton(UpdateUi(SelectNextDriver(w, increment))), <<>>)
  /\ Calm

\* A mutant of SplitChosen: the button keeps its text.
SplitChosenSilently ==
  /\ \E c \in {"install", "wcid", "filter", "extract"} :
       Click([w EXCEPT
                !.filter = c = "filter",
                !.use_wcid = c = "wcid" \/ (w.device = NoDev /\ ~w.create),
                !.extract = c = "extract"], <<>>)
  /\ Calm

\* IDM_SPLIT_*: what the button is to do.
SplitChosen ==
  /\ \E c \in {"install", "wcid", "filter", "extract"} :
       /\ c = "install" => w.device # NoDev \/ w.create
       /\ c = "wcid" => ~w.create
       /\ c = "filter" => w.type = "libusb0" /\ w.found
       /\ Click(SetInstallButton([w EXCEPT
                  !.filter = c = "filter",
                  !.use_wcid = c = "wcid" \/ (w.device = NoDev /\ ~w.create),
                  !.extract = c = "extract"]), <<>>)
  /\ Calm

\* IDM_OPEN: a dialog for the file, and then parse_preset.
OpenClicked ==
  /\ CanInput /\ Spend("clicks")
  /\ stack' = Push("file", NoDev, FALSE, FALSE)
  /\ UNCHANGED <<w, queue, thid, delay, world, alive, bad, odd>>

FileChosen ==
  /\ stack # <<>> /\ Top.kind = "file" /\ stack' = Front(stack)
  /\ \/ w' = (IF w.create THEN w ELSE ToggleCreate(w))
     \/ UNCHANGED w \* no file, or none with a vendor id
  /\ UNCHANGED <<queue, thid, delay, world, alive, bad, odd, left>>

CloseClicked == Click(w, <<"close">>) /\ Calm

\* A device comes or goes, of which Windows tells once or twice.
Plugged ==
  /\ "closing" \notin odd /\ Spend("changes")
  /\ \E h \in 1..Hw : world' = [world EXCEPT ![h].plugged = ~@]
  /\ \E n \in 1..2 : queue' = queue \o [i \in 1..n |-> "devicechange"]
  /\ UNCHANGED <<w, stack, thid, delay, alive, bad, odd>>

\* A handler of the window, the end of something it shows, what wakes it up.
Messaging ==
  \/ DeviceChange \/ DeviceEvent \/ RefreshList \/ SelChange
  \/ Close \/ Cancel \/ NoUpdate
Returning ==
  \/ EventAnswered \/ Warned \/ SystemWarned \/ InstallReturns \/ NoticeClosed
  \/ FileChosen
User ==
  \/ InstallClicked \/ SelectItem \/ EditClicked \/ EditRefused \/ Typed
  \/ CreateClicked \/ ListClicked \/ DriverScrolled \/ SplitChosen
  \/ OpenClicked \/ CloseClicked

----------------------------------------------------------------------------
(* Properties                                                              *)

\* When the user can press the button, the device that install_driver takes is the one
\* the drop-down list shows, and the text of the button tells what it is going to do:
\* whatever handlers have changed the one or the other since.  But an edit of a
\* description that ends between an installation and the refresh shows the device that
\* was installed and keeps the one that was edited.
ShownIsInstalled ==
  CanInput =>
    /\ w.device # NoDev /\ "jumped" \notin odd =>
         w.sel # 0 /\ w.device = w.items[w.sel]
    /\ w.label = Label(w)

\* The mode that creates a device is on exactly when its menu item is checked, and the
\* description that is being edited is that of the device that is selected: toggle_edit
\* never finds one that was left behind ("program assertion failed"), unless an
\* installation has switched the list under an edit.
ModesAgree ==
  /\ w.create = w.menu
  /\ CanInput /\ w.edit # NoDev /\ "left" \notin odd =>
       w.editing /\ w.editbox /\ w.edit = w.device

\* No handler uses or frees a record of a list that was freed, in spite of the handlers
\* that run inside others: unless wdi_create_list was refused before it reset the
\* pointer, or a refresh arrives after the window was closed.
NoUseAfterFree == bad => odd \cap {"refused", "closing"} # {}

\* The list in the window is what wdi_create_list would return now.
UpToDate ==
  [i \in DOMAIN w.items |-> [w.items[i] EXCEPT !.gen = 0]] = Listing(0, w)

\* No change is lost on the way to the list, whatever handler it meets: while the list is
\* out of date, a message or the thread that is going to refresh it is on its way, or the
\* user is asked whether it may; but for the same reasons as in ChangesShown.
Unheard == {"refused", "thread", "dropped", "missed", "declined", "closing"}
ChangesHeard ==
  \/ UpToDate
  \/ {"devicechange", "deviceevent", "refresh"} \cap Range(queue) # {} \/ delay
  \/ \E i \in DOMAIN stack : stack[i].kind = "event"
  \/ odd \cap Unheard # {}

\* A device that comes, goes or gets another driver is shown in the end, without the
\* user having to ask for it: unless the user declines, the list or the thread fails,
\* the program ends, or a notification arrives during an installation (which may
\* disable all that follow).
ChangesShown ==
  []<>(UpToDate \/ odd \cap Unheard # {})

=============================================================================
