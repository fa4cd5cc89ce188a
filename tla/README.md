# A verification development for libwdi

libwdi installs generic USB drivers on Windows; Zadig and wdi-simple are its clients. Much
of its code is sequential glue around Windows calls. What is hard in it is mostly what happens
*between* its actors: the application's threads and processes, an elevated installer process
at the other end of a pipe, a progress dialog that gives up on a thread, a log that crosses
threads through a pipe, a window whose handlers run inside each other, certificates and keys
that outlive the process that made them. The modules here model those protocols from the C
source, and the algorithms next to them (tokens, settings, versions, lists) as operators
against reference definitions. TLC checks them on small instances, and TLAPS proves theorems
about the protocols (the mutex, the installation, the dialog, the logger, the preparation, the
window of Zadig and its threads, the thread that follows the log of Windows) for every instance.

Contents: [the system](#the-system), [the modules](#the-modules), [the runs](#the-runs),
[fairness](#fairness), [the proofs](#the-proofs), [what the checks found](#what-the-checks-found),
[observations](#observations), [assumptions](#assumptions-and-abstractions),
[not modelled](#not-modelled), [plan](#plan).

## The system

| component | source | state | operations | talks to |
|---|---|---|---|---|
| API mutex | `logging.h:27` | a named kernel object per function | `MUTEX_START`, `CloseHandle` | every exclusive call, of every process |
| installation, the call | `libwdi.c:1600-2010` | `current_device`, `filter_driver`, `timeout`, `pipe_handle`, read buffer | `install_driver_internal`, `process_message`, `check_completion` | the installer (pipe, process handle), the progress dialog (runs it in a thread) |
| installation, the installer | `installer.c` | its identities, `syslog` thread, return value | `main`, `request_data`, `send_status`, `process_error`, `syslog_reader_thread`, `check_removed` | the call (pipe), Windows and its log |
| system restore policy | `installer.c:686` | a registry value, a static copy | `disable_system_restore` | all installers of the machine |
| progress dialog | `libwdi_dlg.c` | `progress_thid`, `installation_time`, `hProgress`, `progress_function` | `run_with_progress_bar`, `progress_callback`, `progress_thread` | the thread that installs, the parent window |
| logger | `logging.c` | two pipe handles, `logger_dest`, `log_messages_pending`, `log_messages_pipe_size` | `wdi_log`, `wdi_register_logger`, `wdi_unregister_logger`, `wdi_read_logger` | every thread that logs; a window that is notified and reads |
| device list | `libwdi.c:853-1155` | the list, owned by the caller | `wdi_create_list`, `wdi_destroy_list` | Zadig, wdi-simple |
| driver preparation | `libwdi.c:462-850,1157-1597` | `driver_version`, the extracted files, the temporary file of a driver | `wdi_prepare_driver`, `wdi_is_driver_supported` | tokenizer, certificates |
| platform detection | `libwdi.c:59-370`, `zadig.c` | none | `GetWindowsVersion`, `GetPlatformArch` | every component |
| tokenizer | `tokenizer.c` | a buffer that grows | `tokenize_string`, `tokenize_file` | preparation |
| certificates and catalogs | `pki.c` | two certificate stores, a key container | `SelfSignFile`, `CreateCat`, `AddCertToTrustedPublisher` | preparation |
| Zadig window | `examples/zadig.c` | `list`, `device`, `installation_running`, `notification_delay_thid`, the modes of the window | `main_callback`, `install_driver`, `display_devices` | all of the library |
| Zadig update check | `examples/zadig_net.c` | `update_check_in_progress`, `force_update_check`, `download_status`, `filepath` | `CheckForUpdates`, `DownloadHTTPFile` and their threads | the window, the two update dialogs |
| Zadig settings | `zadig_stdlg.c`, `zadig_parser.c`, `zadig_registry.h` | registry keys | `SetUpdateCheck`, `get_token_data_*`, `parse_update`, `to_valid_filename` | window, update check |
| ini files | `examples/profile.c` | a tree of sections | `profile_open`, `profile_get_*` | Zadig's `parse_ini`, `parse_preset` |
| wdi-simple | `examples/wdi-simple.c` | none | `main` | list, preparation, installation |
| resource embedder | `embedder.c` | the header it made before | `main` | the build |

What makes each correct, and what is hard about it:

- *API mutex*: two threads are never inside one exclusive function. The mutex object's mere
  existence is the lock, so what matters is who still has a handle on it: refused callers,
  early returns, terminated threads.
- *Installation*: the call returns what the installer came to; the installer installs on the
  device of its own call; the call ends when the installer does; Windows' long operations are
  not timed out. Hard: two processes that may each vanish at any step, answers that arrive
  after their request timed out, status against end of process, calls that return while their
  installer still runs, a timeout kept in a global from one call to the next.
- *System restore policy*: after any number of installs it is what the user had set. Hard: the
  value put back is private to a process, and processes of two calls might overlap.
- *Progress dialog*: exactly one result, the parent window is enabled again, the next
  operation can start. Hard: end of thread, stop message and timer race.
- *Logger*: the window never waits for a line that is not there, a writer never for room that
  does not come, every line is read. Hard: counters without a lock, notifications that outlive
  their registration, a synchronous notification inside a write.
- *Zadig window and device list*: the window installs what it shows, no handler uses a list
  that was freed, a device that comes or goes is shown in the end. Hard: nested message loops,
  messages dropped during an install, many modes.
- *Update check and download*: a check that is asked for is answered, only a complete program
  is launched. Hard: flags and a file name shared by three threads without protection.
- *Preparation, certificates*: on every path the key is destroyed, a package that is reported
  is one that Windows will trust, an inf carries its driver's version. Hard: some twenty steps
  that may fail, some of which are passed over; processes killed in the middle; a temporary
  file that is shared with every other process.
- *Log of Windows*: each new line is sent once. Hard: the file is read while it is written.
- *Tokenizer, settings, ini files, versions, lists, header*: what is read is what was written,
  for all inputs. Hard: buffers at their limit, braces, quotes, nested sections, truncated fields.

## The modules

| module | what it is |
|---|---|
| `ApiMutex`, `ApiMutexProofs` | the API mutex: threads of several processes and the handles on the kernel objects; its inductive invariant and three theorems |
| `InstallCall` | the abstract promise of a call: one result unless the application crashes, and never a success the installer did not decide on |
| `Install`, `InstallProofs` | the call, the installer and the pipe between them; implements `InstallCall` (`Promise`); its proofs hold ten theorems about it and four about `InstallPolicy` |
| `InstallPolicy` | `Install` composed with the policy value every installer changes |
| `ProgressDialog`, `ProgressDialogProofs` | the dialog, its timer, the worker threads and the variables they share; eight theorems |
| `Logger`, `LoggerProofs` | the log pipe, its writers and the window that reads it; four theorems |
| `Prepare`, `PrepareProofs` | `wdi_prepare_driver` with the catalog, the signature and the version search; four theorems |
| `Zadig` | the main window, its nested handlers, and the device list |
| `ZadigUpdate` | `Zadig` composed with the threads that check for updates and download |
| `ZadigProofs` | eight theorems about `Zadig` and `ZadigUpdate` |
| `StatusBar` | Zadig's status bar: the threads and the window that write it, and its timer |
| `Syslog`, `SyslogProofs` | the installer's thread that follows the log of Windows; one theorem |
| `Tokenizer` | `tokenizer.c` and a definition of token replacement |
| `UpdateFile` | the settings and the description of an update (`zadig_parser.c`) |
| `DeviceList` | `wdi_create_list` as a function, the packing of versions, `wdi-simple` |
| `Platform` | the version and the architecture of Windows, `process_error`, `check_removed` |
| `Profile` | ini files (`profile.c`), Zadig's settings and presets |
| `UpdatePolicy` | the registry keys of the update check |
| `UpdateSearch` | the Internet session, the version files a check asks for, and what it concludes |
| `Embedder` | the tool that embeds the files |
| `MainWindow` | Zadig's filter menu and inf names |
| `Sequential`, `SequentialProofs` | the algorithms of the nine modules before, one job each, and what is meant by each; one theorem about fifteen of the kinds of job |
| `MC...` | values for the constants |

**ApiMutex.** `pc[t]` says whether thread t is idle, created the object (`owner`) or found it
(`refused`); `held[f]` are the handles of calls in progress, `leaked[f]` the processes with a
handle nobody will close. `MutexStart` and `Refuse` are the two halves of `MUTEX_START`
(between them a refused caller has a handle, and may be the reason another one is refused),
`Return` is the `CloseHandle` at the end of each function, `EarlyReturn` the two returns of
`wdi_prepare_driver` that skip it (`libwdi.c:1577`, `1584`), `KillThread` the progress
dialog's `TerminateThread` (`OpenThread` is passed a thread *handle* for an id,
`libwdi_dlg.c:302`, so the victim is any thread), `ExitProcess` what the kernel does at a
process's end. Which function returns early or runs under the dialog are constants.

**Install.** One application makes up to `MaxCalls` calls, one after the other, and call i
starts installer i. `phase` is the place in `install_driver_internal`: `launch` (the pipe is
there), `reading` (the read loop), `expired` (the wait timed out, about to terminate),
`broken` (the pipe is broken, waiting for the process). A step of the loop is one `ReadFile`
with what follows it: `ReadListening`, `ReadOverflow`, `ReadMessage` (with all of
`process_message`), `ReadVerdict`, `ProcessEnded`, `WaitExpires`, `PipeBroken`. `Finish` is
the `out:` label. The installer's `pc` follows `main` from `CreateFile` to `return ret`; a
filter driver's installer (libusb-win32's `install-filter.exe`) is the single place `filter`,
which writes text and ends with any code. The pipe has an instance state (`pipe`), the
installer at its other end (`client`), the messages and the answers in it. A read of
`request_data` that times out stays pending (`abandoned`) and takes the next answer
(`Deliver`), as the code never cancels it.

**InstallPolicy.** Adds the machine's `DisableSystemRestore` value and each installer's static
`original_val`. Its next-state relation is that of `Install`, with the two calls of
`disable_system_restore` changing the policy too. `spoiled` records that a bracket was left by
a crash, a termination, a policy that cannot be opened, or an installer that restores without
having disabled; the restoration property is about everything else.

**ProgressDialog.** One thread with a window makes up to `MaxOps` calls of
`run_with_progress_bar`; call i has dialog i and, once `UM_PROGRESS_START` is received, worker
i. `ui` is the place in the window's thread: `loop` is its `GetMessage` loop, with one action
per message it acts on (`StartWorker` and `StartFails` for `UM_PROGRESS_START`, `Stop` for
`UM_PROGRESS_STOP`, `Tick` and `TimeIsOver` for `WM_TIMER`, `Return` for `WM_QUIT`), `starting`
is between `_beginthread` and the assignment of what it returns, `killing` between the test of
`progress_thid` and its use in `OpenThread`. `worker[i]` follows `progress_thread` statement by
statement, with the mutex of `install_driver_internal` in `Enter` and `Leave`. `gaveUp` records
that some dialog ended by its timer: what follows is outside of most properties, as the code
then leaves the parent disabled, a stale `progress_thid` and, mostly, a worker that goes on.

**Logger.** `pc[t]` is the place of a thread in `wdi_log_v`, `todo[t]` the sizes it is to write
(a line, or what is left of one that is too long and the notice that follows). An update of a
counter is a load (into `tmp`) and a store. The window's thread is a writer too; its `reader`
is its place in `wdi_read_logger`, and `sender` the thread whose `SendMessage` it handles, which
waits: this is how a writer empties a full pipe (`Drain`, `Drained`), in its own thread by a
direct call. `Register` and `Unregister` create and close the pipe; notifications that were
posted stay in the queue. `disturbed` records that two updates of a counter overlapped, which
nothing prevents; the properties say what holds until then.

**Prepare.** `run` is the call in progress (the mutex admits one), and its `at` the step in
`wdi_prepare_driver`, `CreateCat` or `SelfSignFile`. What a step of Windows that fails does next
is taken from the code, step by step: return an error, warn and go on, or go on unnoticed
(`hist.silent`); on Windows 10 two of them leave with the mutex (`leaked`). `stores` and `key`
are the machine's and survive `Exit`, which may kill a process between any two steps. `ask` is
the search for a driver's version, for the call and for `wdi_is_driver_supported` in another
thread: both create, write, read and delete one `temp` file.

**Zadig.** What the window knows is one record `w`, and the functions of the source
(`UpdateUi`, `SetDriver`, `ToggleEdit`, `DisplayDevices`...) are operators on it. A handler that
shows a box, a dialog, or the progress of an install pushes a frame on `stack` and goes on
when it is popped; meanwhile other messages are handled, as the loops of these boxes do.
Every wdi_device_info is known by the list it belongs to, so that `bad` can tell a freed one.
The options of the ini file (extract only, all devices, hubs, exit on success) are part of the
budget a behaviour begins with.
`odd` names the events after which the properties are not claimed, each of which the code
brings about by itself: they are the exceptions in the text of the properties.

**ZadigUpdate.** Adds two threads of each kind, as many as the bounds let start: `checker`
follows `CheckForUpdatesThread`, `loader` the download. `force`, `checking`, `status`, `path`
and `error` are the shared variables. A check that is asked for may not get its thread
(`zadig_net.c:735`); the flag then stays set. Some initial states have a check that the user asked
for in the dialog of the first run (`zadig_stdlg.c:804`, 1024), whose flag `CheckForUpdates(FALSE)`
takes back at the end of `WM_INITDIALOG`.

**StatusBar.** `print_status` is called by other threads only: those that check for updates
(`zadig_net.c:701-706`, with a duration of three seconds; 570, without one; and, as the
dialog of a new version runs in that thread, `zadig_stdlg.c:1201-1218`) and those that download
(`zadig_net.c:374`, 443, 473, without one). The window's thread calls `dsprintf` only, which writes
the bar past `print_status`. `thread[t].at` is the place in `print_status`; `Show` converts the
text that `szStatusMessage` has by then and `Arrive` is the window taking it, which it does
between two handlers; `Disarm`, `ShowLast` and `KillBarTimer` are the statements of `PrintStatusTimeout`.
Texts have numbers, in the order in which they are given. `raced` and `late` are the two
exceptions of `LastMessageShown`, which speaks of the moments when no thread is in `print_status`
and no timer is set (`Quiet`); each is forgotten as soon as the next timer, or the next text,
makes up for it.

**Syslog.** The log is a sequence of symbols; Windows writes texts at its mark, over it, and
marks its place again. The thread's round is `ReaderLooks` (the event, the size) and
`ReaderReads` (`process_syslog`, which goes through the buffer symbol by symbol: `Process`); `Terminate` needs a whole round after the install, for the
installer sleeps for twice the longest sleep of the thread before it sets the event.

**Sequential.** A behaviour is one job: an input out of `Jobs`, and what the code makes of it.
`AsMeant` compares it with definitions that do not follow the code: the tokens of a text by
position (`Meant`), the relations of an ini file by section (`MeantValue`), the devices that are
wanted, the order of versions, the entries of a header.

## The runs

| run | instance | what it shows |
|---|---|---|
| `api_mutex` | 3 threads in 2 processes, 3 functions | mutual exclusion, exact handle accounting |
| `api_mutex_busy` | same | a violation, see below |
| `install` | 2 calls without faults and log lines, on devices with and without identities, with a user's value of 0; or 1 call with two of: log lines of 2, 3 or 6 bytes against a buffer of 2, a fault; or 1 call with a policy error, or without a user's value | the result is the installer's, reassembly, no timeout inside Windows' operations, the end of the installer ends the call, or never does if it never opened the pipe; identities, pipe ownership, timeout and policy from one call to the next; refinement of `InstallCall` |
| `install_hang` | 1 call, no log lines | a violation, see below |
| `install_policy_end` | 1 call | a violation, see below |
| `progress` | 3 calls, 2 ticks | a call returns its own worker's result, arguments outlive the worker, the parent is enabled again, nobody is refused, a call always has something to end it, every call returns |
| `progress_refused` | same | a violation, see below |
| `logger` | the window and a worker, 2 lines of 1 or 2 bytes or truncated, a pipe of 3, 2 registrations, 1 refusal | nobody blocks on the pipe, every thread gets its line written, every line is announced and read |
| `prepare` | 2 calls by 2 processes with 8 kinds of options, and one of: 2 faults, a fault and a query or a kill, a query and a kill, a certificate installed beside | no key survives, a reported package is trusted, the version is the driver's |
| `zadig` | 2 devices, one a hub or not; up to 4 clicks, or clicks with changes of devices and faults, or 2 downloads, or 3 checks | the window installs what it shows and frees what it may; changes are on their way and shown, checks have a thread and are answered, only complete downloads launched |
| `status_bar_held` | 1 check, 1 download, 3 texts | a violation, see below |
| `sequential` | 200 000 inputs; a log with 5 texts of Windows; a status bar with 2 checks, 2 downloads and 4 texts | each algorithm makes what is meant; each line of the log is sent once; the last message is on the bar when all is quiet, whenever the timer fires |

Why the bounds are enough. *Threads*: two suffice for a race on one mutex, the third adds a
second process, so that handles of both kinds meet; three functions are one of each kind.
*Calls*: everything one call leaves to the next (`timeout`, `filter_driver`, the policy, an
installer still running and its end of the pipe) is met by the second. *Messages*: two lines
give an overflow followed by a normal message; 2, 3 and 6 bytes against a buffer of 2 give a
message that fits, one whose last piece is a single byte and one that needs two doublings.
*Faults*: a crash of the application or a failed allocation, once; crashes and terminations
of installers are not bounded. A second call is made only where none of these
happened (`Bounded` in `MCInstall`): after a crash of the application the properties of two calls
claim nothing, and after an error of the policy `PolicyRestored` does not.
*Dialogs*: a call meets what the one before it left (a stale `progress_thid`, a worker that goes on, a message), and the third what the second made of
that; 2 ticks stand for 300, as only reaching the limit matters. *Devices*: one with no
identity, one with all three. *Log*: a pipe of three bytes is full after two lines or one that
is truncated, so that every writer meets a full pipe, also the window's own thread; the second
registration meets the notifications of the first. *Preparation*: the second call meets the
files, the certificates and the key of the first, with the same or another device, name and
subject; two faults reach a step that fails while another failure is being undone. *Window*:
the budgets are kinds of behaviour, each large enough for what it is about (a click inside an
install inside a refresh needs three and a change), and a behaviour has one of them; two
devices let the selection move and the list shrink. *Status bar*: a held message, two that
are kept meanwhile by threads that overtake each other, and one of the window or a second timer.
*Inputs*: texts of six symbols hold two
tokens that touch, or one inside another, and outgrow a buffer twice (`GrowSize` is 1); ini
files of five lines open, nest, reopen and close a section; three names for arrays wrap once;
a server answers to up to two of the four names in each channel, with each kind of failure.

The type invariants of the other runs are theorems, and TLC checks that of `install` and that
of `logger` only.

## Fairness

`Install!Fairness` is `WF_vars(CallStep)`: the thread that runs the call is scheduled, and its
waits end when what they wait for is there or their time is over. Nothing is assumed of the
installer, which may stop anywhere, nor of the user who makes the next call. `WaitExpires` and
`BrokenExpires` are in `CallStep`, and enabled only while `timeout` is finite: a call whose
timeout is suspended waits for the end of the process alone.

`ProgressDialog!FairSpec` is fair to the window's thread (`LoopStep`: its messages are
dispatched and its timer ticks) and to each worker outside of the function it runs
(`ThreadStep`). Nothing is assumed of the function itself: `Leave` may never happen, and it is
the timer that ends such a call. The time counts only without a security prompt on the
screen, so `CallReturns` assumes that there is none from some time on.

`Logger!FairSpec` is fair to each thread and to the window's: they are scheduled, and the
window's thread returns to its message loop. A thread blocked on the pipe or in `SendMessage`
is not enabled, so nothing is assumed of what would let it go on.

`ZadigUpdate!Fairness`: posted messages are dispatched, boxes and dialogs are answered (`Returning`,
`DialogClosed` or `Launched`, `SettingsClosed`), the delay of a notification ends, and the threads
run. The user need not click, and devices need not change. `Prepare`, `Syslog`, `StatusBar` and
`Sequential` have safety properties only and no fairness.

## The proofs

`ApiMutexProofs` proves, for any sets of functions, threads and processes:

- `TypeCorrect`: `Spec => []TypeOK`
- `Exclusion`: `Spec => []MutualExclusion`
- `HandlesAccounted`: `Spec => []HandlesExact`

from `ApiAssumption` and `HostAssumption`. `MutualExclusion` is not inductive: a state in which
an owner has no handle on its object satisfies it, and the next `MutexStart` breaks it. The
inductive invariant is `MutexInv == TypeOK /\ MutualExclusion /\ HandlesExact`: the handles
of a function are those of the threads in it, so an owner keeps its object in existence, and
only a caller that finds no object becomes an owner.

`ProgressDialogProofs` proves, for any number of calls and any limit, `DialogTypeCorrect`,
`DialogResultIsOwn`, `DialogArgumentsAlive`, `DialogParentEnabled`, `DialogNotRefused` and
`DialogCanEnd`, from `ProgressAssumption`: the type invariant, and `ResultIsOwn`, `ArgumentsAlive`,
`ParentEnabled`, `NotRefused` and `CallCanEnd` of the run. The inductive invariant of the first five is `DialogInv == TypeOK /\
(~gaveUp => Calm)`. `Calm` says what keeps the two threads in step without a lock:
only the worker of the latest call may be at work, and the state of the dialog is one of
opened (the start message is posted, no worker), working (either the worker is busy and
nothing is posted, or it has ended and its stop message is the only one) and closed. It says
nothing of `progress_thid`, which may be stale: that costs an operation (`progress_refused`),
never a wrong result.

`Calm` ends with the first dialog that gives up. What holds from there on is `LoopInv`, with
workers left over from earlier calls that run on, return late or are terminated:

- `DialogCanEnd`: `Spec => []CallCanEnd`: the loop never waits for nothing. It is the safety half of
  `CallReturns`, and the reason is that a `progress_thid` which is reset comes with a message
- `ResultsAreOfThePast`: `Spec => []ResultsGiven`: a call may return the result of a worker an
  earlier one gave up on, but of none that still runs and of no later one
- `FunctionIsExclusive`: two workers are never in the function at once

`InLoop` says how far the window's thread is: its dialog is open until it is told to quit, no
worker is ahead of the call, and neither is what a worker posts.

`InstallProofs` proves, from `InstallAssumption`, for any number of calls, log lines and
faults, any buffer and any sizes:

- `InstallTypeCorrect`: `Spec => []TypeOK`. The types alone are not inductive, for `request_data`
  counts: the strengthening is `TypeInv`, whose `PacedInstaller` says that an installer at `ask`
  has a request left, that reads given up on are fewer than requests made, and that one on its
  way to the end has decided on a status.
- `OneInstallerConnected`: `Spec => []PipeOwned`. An installer between its connection and the
  end of its pipe is the `client`; a pipe that listens has none; the second end that is opened
  for a filter driver's installer is not taken by anybody before it. This is how one instance of
  a pipe serialises the installers of all calls, and it needs no assumption on crashes: an
  instance stays until both ends are closed.
- `ReassemblyCorrect`: `Spec => []Reassembly`, with the types alone: whatever installers write is
  appended, so that the message being read stays the head (`HeadStays`).
- `OnlyOwnInstaller`: `Spec => []OwnInstaller`. It is inductive together with `PipeOwned` and
  `Expected`: while no application has crashed, an installer that is about to connect is the one
  of the current call, which waits for it with a listening pipe. (A call never leaves its loop
  while the pipe listens: the same fact is behind the hang of `install_hang`.)

About `InstallPolicy` it proves, at its end and from `PolicyAssumption` too:

- `PolicyImplementsInstall`: `PolicySpec => Spec`, so that the theorems above hold of it
- `PolicyTypeCorrect`: `PolicySpec => []PolicyTypeOK`
- `BracketsNeverOverlap`: `PolicySpec => []BracketsDisjoint`
- `PolicyIsRestored`: `PolicySpec => []PolicyRestored`

by `PolicyInv`. A bracket lies within the part of `main` in which an installer is connected, so
`BracketsDisjoint` follows from `PipeOwned`. `PolicyRestored` needs `Kept`: an installer before
its bracket keeps nothing (`Early`), one inside it keeps the user's setting, and with nobody
inside the machine has it. The step that matters is `disable_system_restore(TRUE)`: since nobody
else is in a bracket, the value it finds is the user's and not the 1 of another installer. The
lemmas on `Goes` say that an installer enters and leaves its bracket by those two calls alone,
or spoils it.

The others say what a call tells its user:

- `ResultIsFaithful`: `Spec => []ResultFaithful`
- `TimeoutIsRestored`: `Spec => []SuccessRestoresTimeout`
- `WindowsMayTakeForever`: `Spec => NeverGivesUpOnWindows`, crashes or not
- `HangIsForEver`: `Spec => HungForEver`: the hang that `install_hang` shows once has no way out, for
  any number of calls and installers left behind, until the application itself fails
- `IdentitiesAreOwn`: `Spec => []IdentityIsOwn`
- `ProtocolKeepsPromise`: `Spec /\ [](faults = 0) => KeepsPromise`: the refinement of
  `InstallCall`, initial states and every step of a call to a step or a stutter of the promise.

All of them speak of what is still in the pipe: the application learns of a decision, a
suspension or a restoration only when it reads it, and the properties about the two ends are
not inductive without the messages between them. `CallInv` adds to what is known of the pipe
(`CallBase`: nothing runs before it is started, each decides once) that every status on its way
is the decision of the installer (`StatusSent`), that an installer inside an operation of
Windows has the timeout suspended or a suspension in the pipe with no default behind it
(`SuspensionSent`), and one that has succeeded the reverse (`RestorationSent`). `Ends` and
`Holds`, what is in a sequence and what comes after it, have their lemmas for the two ends of
the pipe. `IdentitiesAreOwn` needs `IdentityInv`, which counts: the reads an installer waits in
and has given up on are as many as its requests in the pipe (`RequestsCounted`), in the order of
`Requests`, so that the next answer is for the oldest of them (`AnswersOwn`).
The refinement is not claimed after a fault of the application: the installer that it leaves
behind may open the pipe of a later call, which then returns the success of the wrong installer.

`LoggerProofs` proves, from `LoggerAssumption`, for any threads, lines and sizes:

- `LoggerTypeCorrect`: `Spec => []TypeOK`, with `InPlace` (the pipe is open while a window is
  registered, the thread whose message is handled waits, whoever writes has something to write)
- `WindowFindsMessage`: `Spec => []ReadHasMessage`
- `WriterFindsRoom`: `Spec => []WriteHasRoom`
- `LinesAreAnnounced`: `Spec => []LinesAnnounced`

by `LogInv == LogTypeInv /\ Filled /\ (~disturbed => Calm)`. `Calm` says that, until two threads
have got in each other's way, one thread writes at a time; that `pending` is the number of
messages in the pipe but for the one in hand; and that `pipe_size` is never below the bytes in
the pipe and above them only by what earlier windows left (`Left`), so that whoever finds the
pipe too full finds out in time. `Filled` relates the bytes to the messages without a recursive
sum: there is a function that adds them up from the first to each, whose witness every step
updates. Nothing resets `log_messages_pipe_size` when a window is unregistered, and what is left
adds up to a pipe for each: `LoggerAssumption` says that it does not wrap around, which takes
half a million registrations (a DWORD against pipes of 8 KB). `LinesAnnounced` is inductive on top
of `LogInv`: the notifications posted are as many as the lines in the pipe or more, where one line
may be in the hands of its writer (`Announcing`) and one in those of the window (`InHand`). The
notifications of an earlier registration only add to them. It is the safety half of
`EverythingRead`, and needs that no reading was refused: that one's notification is gone.

`PrepareProofs` proves, from `PrepareAssumption`, for any number of processes, devices, calls,
faults and kills:

- `PrepareTypeCorrect`: `Spec => []TypeOK`, with `Located`: a call works on an inf and a catalog
  that it has put on the disk itself, and its search for a version is over when it goes on
- `NoTrustedKeyIsLeft`: `Spec => []KeyDestroyed`
- `VersionIsNotAnothers`: `Spec => []VersionIsOwn`
- `PackageStaysTrusted`: `Spec => []PackageTrusted`

`KeyDestroyed` alone says nothing of a key that is about to be trusted. `KeyInv` adds that from
the certificate to the deletion the key in the container is the call's own, that after the
deletion it is gone or the call is among those that could not delete it (the certificate is added
*again* after that), and that no certificate in a store is of a call that has not got there: so
the new key of `GenerateKey` is nobody's yet, and the certificate of an earlier call never
matches the key of a later one. `VersionInv` follows a search that nothing disturbs through its
four steps, with the search of another thread for another driver beside it (`Found`), and
says which calls reach the inf without a version (`Provided`). It rests on `Supported` types
having been embedded, which `embedder_files.h` sees to: a type that the platform can use is one
the build was given files for. `PackageInv` has a promise in it (`PackageTrusted`) and one in the
making: each inf has the number of one call (`Earlier`), the files are complete unless a step was
passed over (`Complete`), the certificate is in both stores before it signs (`Trusted`). A call
can spoil what an earlier one promised in one way, by removing the certificates of its subject,
and does (`StoresLose`) only where `latest` tells.

`ZadigProofs` proves, from `ZadigAssumption`, for any devices, drivers and hardware ids, any
bounds, and message loops nested to any depth:

- `LaunchIsComplete`: `Spec => []LaunchesComplete`
- `ZadigTypeCorrect`: `Spec => []TypeOK`
- `ShownDeviceIsInstalled`: `Spec => []ShownIsInstalled`
- `ModesOfTheWindowAgree`: `Spec => []ModesAgree`
- `FreedIsNotUsed`: `Spec => []NoUseAfterFree`
- `InstallationIsAlone`: `Spec => []Framed`
- `RequestIsHeard`: `Spec => []RequestHeard`
- `ChangesAreHeard`: `Spec => []ChangesHeard`

`LaunchesComplete` looks at the dialog, the thread that downloads and the file in turn. `LoadInv`
says how they are tied: a thread that has the file open is between its creation and its closing,
and what it read to the end is in the file (`FileHeld`); until a download is started during
another, one thread runs at most and the dialog offers a program only when that thread said so
(`OneLoads`); until a dialog is closed during a download, only names of threads that are gone are
freed, so that the file an aborted thread deletes is its own (`NamesKept`).

The other invariants are about moments at which the user can press a button (`CanInput`: nothing
posted, no box open), and no step preserves them as they stand, for it starts from any other
moment. `UiInv` says what holds in between. What the window shows may disagree with what is
selected while a message is posted that is going to repair it, and only then (`DeviceShown`,
`EditShown`: the refresh for everything, the selection for the device and the button). A record
is used after a box was answered, so what matters is what is allocated when the box is open:
`Allocated` says that the list, the device, the edit and what the boxes of an installation refer
to are. A refresh under an open box of an installation would free what the box refers to. That
there is none is `Framed`: while an installation runs, its box is under all others, no second one
is started, and no refresh is posted to it. What `NOT_DURING_INSTALL` drops is therefore a
notification, never a refresh that somebody counts on.
`FreedIsNotUsed` keeps the two exceptions of the property: a list that
`wdi_create_list` refused to make, and a window that is closed. Most handlers leave what the
invariant speaks of alone, which the lemmas on `Kept` (which fields of the window a handler may
set) and `BesidesStep` say once for all of them.

The last two are the safety halves of `ChecksAnswered` and `ChangesShown`: what is owed has
somebody who is about to do it. `CheckInv` adds to `RequestHeard` that `checking` is set exactly
while a thread is past its start, and that there is one thread (`OneCheck`), both until a second
one was started before the first had set the flag: so the thread that a request is left to is
still there, and the one it starts is alone. `HearInv` adds to `ChangesHeard` that the window shows
the list it has (the list is what must be renewed, and the items with it), and that the handle of
the thread that delays a notification is kept only while that thread, or what it posted, is still
to come: otherwise the next notification would rely on one that is gone. This is what
`NOT_DURING_INSTALL` breaks, and records as `dropped`.

`SyslogProofs` proves, from `LogAssumption`, for any log and any sequence of texts of Windows, of
any length and over any symbols:

- `LogIsFollowed`: `SyslogInit /\ [][SyslogNext]_slvars => []SyslogLogged`

by `SyslogInv == LogEnds /\ ReaderAt /\ LinesSent /\ LinesDue`. The thread reads a file that is
overwritten under it, and this works because it never stands on anything that will change: where
it goes on reading is the place behind a complete line, and not behind the mark (`Ends`,
`ReaderAt`), for `process_syslog` stops before a line that is the mark (`Process`), and Windows
writes nowhere but over its mark and behind it (`LogEnds`, `OverKeeps`). What was sent is then the
lines of what lies behind (`LinesSent`), and what was due when the install was done are the lines
up to one of those places (`LinesDue`), which the last whole round reaches. Two facts about
the text carry it: that the lines of a text that goes on behind a complete line are its lines and
those of the rest (`ScanConcat`, `ScanGoesOn`), and what the loop of `process_syslog` has done up
to the i-th symbol (`Half`, its loop invariant).

What lines a text has is defined by recursion, and the library's induction theorems, which
have an operator as parameter, cannot be used. Induction is done on sets of numbers: one that is not
empty has a least element (`LeastNumber`, from the library's theorem that `<` is well-founded), so
that one which has 0 and the successors has all (`UpTo`), and a function defined by recursion
exists (`Recursion`).

The proof corrected the model: `torn`, the reason for "<Garbled data>", was set when Windows began
to write in the middle of what ends a line, which is enough for the texts of the run and not for
all; it is now set when the thread reads from there.

`SequentialProofs` proves of the sequential algorithms, from `TokenizerAssumption`,
`DeviceListAssumption`, `EmbedderAssumption` and `JobsAssumption`, for inputs of any size:

- `JobsAreMeant`: `JobInit /\ [][JobNext]_jobvars => [](job.kind \in Kinds => AsMeant)`

The run takes every input up to a size; `IsJob` says what an input is, without a bound, and
`Kinds` are the fifteen kinds of job that are proved:

| kind | what is proved |
|---|---|
| resource, file | `TokenizeBuffer` returns the source with each token replaced and nothing else changed (`Meant`), whatever touches or is left open, in a buffer that grows as it must; a file with a carriage return may be refused instead |
| list | `CreateList` has the devices that are asked for, in order, those without a name told apart by their numbers |
| drivers | two versions of as many fields are ordered, packed by `PackVersion`, as their fields are |
| simple | what `wdi-simple` installs: each match, up to the first that fails |
| windows, arch | `GetWindowsVersion` is the version of the system where Windows tells it, and never takes an old system for a new one; the architecture is wrong only for an emulated application that cannot ask |
| install | what `process_error`, `check_removed` and the end of `main` make of a copy |
| policy, search | who is asked decides whether updates are looked for; a new version is announced exactly when a channel that is reached has one |
| version | a version of up to four numbers, each within a WORD, is read as it stands |
| menu, inf name | which entries the filter menu has, and that an inf name has no character a file cannot have |
| embed | a header that was made has the data of each of up to `ArrayNames` files, and one that is kept is older than none of them |
| quoted | a text that is quoted is read back, whatever follows it |

The invariant is `JobsInv == job \in Jobs /\ (done => WorkedOn)`; what is left is that each
algorithm computes what is meant, and each of them goes along a sequence. Most are folds. A fold
is followed by a function of its intermediate values (`MenuFollows`, `ListFollows`,
...), whose existence is `Recursion` of `SyslogProofs`, and a loop invariant says
what has been made of the first k members (`Listed`, `Installed`, `NameAfter`,
`Written1`). `TokenizeBuffer` and `Meant` are recursive functions on the places of a text, which go
towards its end (`Falling`): the pieces that the tokenizer copies and the text that is meant are
compared from the last place to the first, and joined by `Regrouped`.

The assumptions are those the code meets: a prefix of one character (`libwdi.c`
uses `#`), suffixes and names that are not empty, a buffer that grows by something. A prefix that
could overlap itself would make the tokenizer miss tokens, since it goes on behind a prefix that
starts none; the proof needs that it has one character, and the model says so.

What stays with TLC, and why:

- `EndNoticed`, `CallReturns`, `LogReturns`, `EverythingRead`, `ChangesShown` and `ChecksAnswered`
  are liveness under fairness, which the prover does not reach.
- `AsMeant` for the settings, the ini files and the presets. A reader of lines that skips
  comments and counts braces, and a parser that builds a tree by recursion, would each take an
  induction over data of their own kind; of the inputs of these jobs `IsJob` says nothing.
- `LastMessageShown`, an invariant over the places of several threads in `print_status`.

Every other invariant and every action property of the runs is stated by a theorem, `AsMeant` for
fifteen of the nineteen kinds of job, and so is the refinement of `InstallCall`.

## What the checks found

- `api_mutex_busy`: `libwdi.h:93` explains `WDI_ERROR_BUSY` as "Resource busy, or API call
  already running". `wdi_prepare_driver` has two `return` statements (`libwdi.c:1577`, `1584`,
  a catalog that cannot be created or signed on Windows 10) that skip the `CloseHandle(mutex)`
  at `out:`; from then on every call answers BUSY with no call running, until the process ends.
- `install_hang`: `libwdi_i.h:28` describes the timeout as "Initial timeout delay to wait for
  the installer to run". While the pipe is listening the loop (`libwdi.c:1910`) sleeps and reads
  again, whatever the process and the clock do: if the installer ends before it opens the pipe
  the call never returns.
- `install_policy_end`: `installer.c:917` says "Restore the system restore point creation
  original settings". An installer that fails before `disable_system_restore(TRUE)` reaches
  `out:` with `original_val` at its initial -1, and `disable_system_restore(FALSE)` deletes the
  user's value.
- `progress_refused`: `libwdi_dlg.c:267` reports "program assertion failed - another operation
  is in progress". If the worker is done before `_beginthread` returns in the window's thread,
  its reset of `progress_thid` (`134`) comes before the assignment (`270`), and the handle that
  stays refuses the next operation when none is running.
- `status_bar_held`: `zadig.c:160-161` says of the status bar "If duration is non zero, ensures
  that message is displayed for at least duration ms, regardless of any other incoming message".
  `dsprintf` (`zadig.h:172`, `zadig.c:145-147`) writes the bar whatever the timer says, for example
  when the list is refreshed (1649), and leaves `szStatusMessage` alone: the message is
  replaced at once, and at the timeout (169) it comes back over the newer text.

Two behaviours that no text of the repository contradicts, seen in the models: a log line that
leaves one byte for its last read is refused by `process_message` as "no data" and ends the
call while the installer runs on (`libwdi.c:1645-1655` with `1929`); and the timeout stays
infinite for the next call if an installer disappears while it is suspended
(`libwdi.c:1665`; `SuccessRestoresTimeout` is the part that does hold, and `EndNoticed` shows
that the end of the next call's installer still ends that call).

## Observations

Behaviours met while modelling that no property forbids: either the properties name them as
exceptions, or no text of the repository promises otherwise.

*Installation.* Devices that are known but not plugged in are flagged for reinstallation
(`check_removed`) only when `SetupCopyOEMInf` fails with an error that counts as success; after
a copy that succeeds, line 902 goes to `out`. The reader of the log starts behind a mark that
Windows then overwrites (`installer.c:461` is a TODO), and an end of line that is read in two
parts sends "<Garbled data>".

*Logger.* Two overlapping updates of a counter may make the window wait in `ReadFile` for good.

*Preparation.* A private key whose deletion fails is only warned of (`pki.c:896`), and 1052
reports success for it. `pki.c:902-919` adds the certificate again, also to the store that
refused it. A hash that fails is passed over (`pki.c:1291-1296`). An old catalog stays beside a
new inf when no catalog is made (`libwdi.c:1523`, `1589`). A driver that stands in for one that
is not supported gets version 0.0.0.0 (1340-1346). Line 1505 leaves the inf open. An external inf
with carriage returns is refused (1225, 1237).

*Window.* A device event that arrives during an install may disable all that follow
(`zadig.c:1550`), and with it the refresh that 402 forces. An install that ends during an edit
selects another item than `device`, and makes the assertion of 621 fail. `wdi_create_list` that
answers BUSY leaves the pointer to the list that was destroyed (`libwdi.c:903`). Two devices
whose descriptions differ only in characters no file name has share an inf
(`zadig_stdlg.c:111-128`). Two checks for updates may give a message with a duration each
(`zadig.c:186-187`): if the timer of the first fires while the second is set, its handler kills the
second timer, the flag is set afterwards, and messages without a duration (the progress of a
download) stay off the bar until one with a duration comes. Of two threads that give a message
at once, the older text may reach the bar last (182).

*Updates.* A forced check is lost when the automatic one is about to end (`zadig_net.c:722`
against 732); two threads may start (733); if none can be, nobody tells the user (735-737).
A check that is asked for in the dialog of the first run, once a frequency is chosen there, loses its
flag at the end of the set-up (732). The
error code is one for all downloads: the end of one that was aborted (474-475) may take back the
abort of the next. An aborted download and a new one overlap, and the
dialog frees the name that the thread uses (`zadig_stdlg.c:1182`). Where the registry cannot be
written the user is never asked and checks are made all the same: nobody looks at the result
of `SetUpdateCheck` (`zadig.c:1582`). A request that fails in the release channel keeps the beta
channel from being asked (`zadig_net.c:619`). A `platform_min` of one number keeps the default
second number, so that 6 means 6.2, and the default 5.2 leaves out Windows XP, which its comment
names (`zadig_parser.c:240-241`).

*Texts.* A stray `}` hides the lines that follow (`zadig_parser.c:172-175`). An unquoted value
with a blank, or a relation without a value that no `{` follows, rejects the whole ini file; a
byte order mark makes its first section ignored (`profile.c:419-423`). `trim_whitespaces` is
TRUE without an ini file and FALSE with one that lacks it. `zadig.ini:21` numbers the custom
driver 3, which is the number of CDC. A header is kept when a file was replaced by an older
one (`embedder.c:360`), and names of arrays wrap at 256 (428).

## Assumptions and abstractions

- A named pipe instance exists until both of its ends are closed, and holds data that was
  written before its writer closed it. Writes do not block (the quota of the pipe is ignored)
  and answers complete reads in the order the reads were started.
- Errors of `ReadFile` and of the waits that the code does not name (`default:`) are left out:
  the loop logs them and goes round.
- A call of the filter driver is the elevated one, whose installer inherits the application's
  second handle on the pipe.
- `TerminateProcess` takes effect at once, later, or never (its result is not looked at).
- The calls of one application are sequential, which `Exclusion` justifies.
- After a crash of the application or a failed allocation (`faults > 0`), an orphaned installer
  may open the pipe of a later call; `ResultFaithful`, `IdentityIsOwn`, `OwnInstaller` and
  `SuccessRestoresTimeout` are stated for executions without such faults. `BracketsDisjoint` and
  `PolicyRestored` need no such condition (the run has no faults to stay small, the theorems
  have any number).
- A progress dialog belongs to the one thread with a window that the application has; messages
  posted to a dialog vanish with it, and what a late worker posts to the closed dialog's
  `INVALID_HANDLE_VALUE` reaches nobody. Without a window the library calls the function
  directly, and there is nothing to model.
- Identities are abstracted to "the identity k of the device of call c, or none", errors of
  Windows to the result `process_error` gives them, log lines to their size.
- What a lock-free counter does is a load and a store that may be separated from those of other
  threads; each is atomic. Compilers and processors are not assumed to reorder them further.
- The steps of Windows in `Prepare` work or fail as a whole; a file that is open for writing
  cannot be opened, nor deleted, by another.
- `PostMessage` succeeds; posted messages come before the input of the user; a window that is
  disabled by a dialog gets no input.
- Windows writes over its mark only a text that covers it.
- The names of an ini file are compared as `strcmp` orders them (`NameOrder`), and texts read as
  numbers as `strtol` does (`Strtol`, `Strtoul`); a line fits its buffer.
- `SetTimer` and `KillTimer` on a window work from another thread of its process. A text is copied to
  `szStatusMessage` in one step, though two threads may tear it (`zadig.c:177`), and the log line
  that `print_status` writes first (178-179) is left out. What a check says, and in which order, is
  left open.

Smaller than the code, and why that does not matter to what is checked:

- *Logger*: the pipe has the default size. `wdi_register_logger` passes another one on
  (`logging.c:191-205`, 244-255), which `write_to_pipe` does not look at (65): with a `buffsize` below
  `LOGGER_PIPE_SIZE`, `WriteHasRoom` is not claimed. Zadig passes 0 (`zadig.c:1276`).
- *Zadig*: the box for an empty description (`zadig.c:333`) is a frame `filter` whose preparation
  fails: the same messages are handled under it, and the same end follows.
- *Error codes of a download*: that of a step that fails is one of those which cancel a
  download, or not (`zadig_net.c:108`, 415, 455), whichever the step.
- *Preparation*: the binaries that are extracted (`libwdi.c:1184-1191`) are no state of their own.
  `PackageTrusted` speaks of the inf and the catalog, and of a call that missed a step; that a later
  extraction to the same directory is cut short, and damages a file the earlier catalog covers, is
  not looked at. The truncation of an inf
  (1494) and its writing (1510) are one step, as the mutex admits one call; a process that is killed in
  between leaves what `PutInf(FALSE)` does, an inf of a call that reports nothing.
- *Device list*: vendor and product ids are one value, as `wdi-simple.c:233` compares both.
- *Update search*: each check begins with the zeroed `update` of the first one. It is a global,
  and a reply that is no version file leaves it (`zadig_parser.c:223`), so that a second check of
  the same process compares what an earlier one read (`zadig_net.c:676-684`). `force_update` announces whatever is found, and the failures of 573-579
  end a check before it asks.
- *Update policy*: an interval of 0 is replaced by the default (`zadig_net.c:555`), which
  `SetUpdateCheck` has written before.
- *Embedder*: a path that has no full form ends it with an error, the header kept
  (`embedder.c:351-354`), and without memory for the user's files (292) it goes on with a table that is not
  there. Both end the build.

## Not modelled

Vendor names (`vid_data.c`, 3470 lines) are generated data, the UTF-8 wrappers
(`msapi_utf8.h`, 1300 lines) one-to-one conversions, `getopt` third-party code. Of `profile.c`
what changes a profile or writes it is not called by this program. What shows things and keeps
nothing is left out: the layout of Zadig's window, fonts, tooltips, the notification and the
about dialog, status texts and error strings (`wdi_strerror`, `GetEdition`), and of `pki.c` the
declarations of what is loaded from Windows. The single instance of Zadig and the two magic
keys of its main loop are not modelled.

## Plan

All components are modelled as far as is said above, and all properties of the protocols are
proved. What is left is `AsMeant` for the remaining kinds of job:

1. the settings of `UpdateFile` (`TokenDataLine`, `TokenDataBuffer`), line by line like the log of
   Windows in `SyslogProofs`;
2. the presets, whose fields are looked up in the tree of `Profile`;
3. the ini files, by an induction over the levels of that tree.
