------------------------------- MODULE Install -------------------------------
(***************************************************************************)
(* One application that calls wdi_install_driver again and again, and the  *)
(* elevated installer process each call starts (libwdi.c, installer.c).    *)
(*                                                                         *)
(* install_driver_internal creates the one instance of a message pipe,     *)
(* launches the installer and serves it from a loop that reads the pipe    *)
(* and, while a read is pending, also waits for the end of the process and *)
(* for `timeout`.  The installer asks for the identity of the device,      *)
(* brackets the two long operations it leaves to Windows with messages     *)
(* that suspend the timeout, and reports its status before it exits.       *)
(* Either process may disappear at any point.                              *)
(***************************************************************************)
EXTENDS Naturals, Sequences

CONSTANTS
  MaxCalls,      \* bound: how many installs the application makes
  LogBufSize,    \* LOGBUF_SIZE, the size of the first read buffer
  LineSizes,     \* the sizes of the messages that carry a log line
  MaxLines,      \* bound: log lines an installer sends
  Knowledge,     \* which identities a device may have: subsets of 1..3
  InstallErrors, \* what process_error makes of a Windows error
  MaxFaults      \* bound: crashes of the application and failed allocations

ASSUME InstallAssumption ==
  /\ MaxCalls \in Nat /\ MaxLines \in Nat /\ MaxFaults \in Nat
  /\ LogBufSize \in Nat \ {0, 1}
  /\ LineSizes \subseteq Nat \ {0, 1}
  /\ Knowledge \subseteq SUBSET (1..3)
  \* process_error makes errors of errors.
  /\ InstallErrors \cap {"WDI_SUCCESS", "none", "STILL_ACTIVE", "CRASHED"} = {}

Call == 1..MaxCalls      \* a call, its device and the installer it starts
None == 0

Success == "WDI_SUCCESS"
\* Failures of install_driver_internal before and while it launches the installer.
StartErrors == {"WDI_ERROR_NOT_SUPPORTED", "WDI_ERROR_RESOURCE",
                "WDI_ERROR_INVALID_PARAM", "WDI_ERROR_PENDING_INSTALLATION"}
LaunchErrors == {"WDI_ERROR_RESOURCE", "WDI_ERROR_NOT_FOUND",
                 "WDI_ERROR_USER_CANCEL", "WDI_ERROR_NEEDS_ADMIN"}
\* Failures of the installer before it asks for the device.
InitErrors == {"WDI_ERROR_RESOURCE", "WDI_ERROR_ACCESS"}
ReadErrors == {"WDI_ERROR_INVALID_PARAM", "WDI_ERROR_NOT_FOUND",
               "WDI_ERROR_TIMEOUT", "WDI_ERROR_OTHER"}
Statuses == {Success} \cup InstallErrors \cup InitErrors
Results == Statuses \cup StartErrors \cup LaunchErrors \cup ReadErrors
NoStatus == "none"
ExitCodes == Statuses \cup {"STILL_ACTIVE", "WDI_ERROR_NOT_SUPPORTED", "CRASHED"}

\* The three identities the installer asks for, in its order.
Requests == <<"IC_GET_DEVICE_ID", "IC_GET_HARDWARE_ID", "IC_GET_USER_SID">>
HardwareId == 2

\* A message to the application: its code, its bytes, and IC_SET_STATUS's status.
Message == [code : {Requests[k] : k \in 1..3} \cup
                     {"IC_PRINT_MESSAGE", "IC_SYSLOG_MESSAGE", "IC_SET_TIMEOUT_INFINITE",
                      "IC_SET_TIMEOUT_DEFAULT", "IC_SET_STATUS", "IC_INSTALLER_COMPLETED",
                      "text"},
            size : Nat \ {0},
            status : Statuses \cup {NoStatus}]
Msg(code, size) == [code |-> code, size |-> size, status |-> NoStatus]

\* An answer: the request it was written for and the device it describes, None when
\* the device has no such identity (an empty answer).
Reply == [req : 0..3, of : Call \cup {None}]
NoReply == [req |-> 0, of |-> None]

Phases == {"idle", "launch", "reading", "expired", "broken"}
PipeStates == {"none",       \* no instance of the pipe
               "listening",  \* the application's end, not connected yet
               "connected",
               "closed",     \* the installer has closed its end
               "orphan"}     \* the application has closed its end
Steps == {"absent", "connect", "init", "ask", "await", "syslog", "policy", "update",
          "updating", "copy", "copying", "done", "report", "restore", "close", "exit",
          "filter", "dead"}
Installer == [pc : Steps,
              asked : 0..3,                   \* requests made
              abandoned : 0..3,               \* reads given up on, still pending
              answer : Reply,                 \* what the current read received
              ids : [1..3 -> Reply],          \* the identities it got
              syslog : BOOLEAN,               \* the syslog reader thread is running
              lines : 0..MaxLines,
              ret : Statuses \cup {NoStatus}, \* what main has decided to return
              exit : ExitCodes]

VARIABLES
  phase,           \* where install_driver_internal is
  call,            \* the latest call
  current_device,  \* the device of the call and the identities it has
  filter_driver,
  timeout,         \* "default" or "infinite"
  bufsize, offset,
  result,          \* what the latest call returned, once it has
  pipe,            \* the state of the pipe instance
  client,          \* the installer that has the other end open
  msgs,            \* the messages to the application that are not read to the end
  replies,         \* the answers that no read of the installer was waiting for
  inst,            \* inst[c]: the installer of call c
  faults

parentVars == <<phase, call, current_device, filter_driver, timeout, result>>
bufVars == <<bufsize, offset>>
pipeVars == <<pipe, client, msgs, replies>>
vars == <<parentVars, bufVars, pipeVars, inst, faults>>

Absent == [pc |-> "absent", asked |-> 0, abandoned |-> 0, answer |-> NoReply,
           ids |-> [k \in 1..3 |-> NoReply], syslog |-> FALSE, lines |-> 0,
           ret |-> NoStatus, exit |-> "STILL_ACTIVE"]
NoDevice == [of |-> None, knows |-> {}]

TypeOK ==
  /\ phase \in Phases
  /\ call \in 0..MaxCalls
  /\ current_device \in [of : Call \cup {None}, knows : SUBSET (1..3)]
  /\ filter_driver \in BOOLEAN
  /\ timeout \in {"default", "infinite"}
  /\ bufsize \in Nat /\ offset \in Nat
  /\ result \in Results \cup {NoStatus}
  /\ pipe \in PipeStates
  /\ client \in Call \cup {None}
  /\ msgs \in Seq(Message)
  /\ replies \in Seq(Reply)
  /\ inst \in [Call -> Installer]
  /\ faults \in 0..MaxFaults

Init ==
  /\ phase = "idle" /\ call = 0
  /\ current_device = NoDevice /\ filter_driver = FALSE
  /\ timeout = "default"
  /\ bufsize = LogBufSize /\ offset = 0
  /\ result = NoStatus
  /\ pipe = "none" /\ client = None /\ msgs = <<>> /\ replies = <<>>
  /\ inst = [c \in Call |-> Absent]
  /\ faults = 0

Alive(i) == inst[i].pc \notin {"absent", "dead"}
Linked(i) == pipe = "connected" /\ client = i

\* The process of i ends with an exit code, and its memory goes with it (what main had
\* decided on is kept, for the properties).
Gone(i, ret, code) ==
  inst' = [inst EXCEPT ![i] = [Absent EXCEPT !.pc = "dead", !.ret = ret, !.exit = code]]
Dead(i, code) == Gone(i, inst[i].ret, code)

----------------------------------------------------------------------------
(* The application: install_driver_internal.                               *)

\* `out:` the call returns r, and `left` is the installer that still has its end of
\* the pipe open.
Finish(r, left) ==
  /\ phase' = "idle"
  /\ result' = r
  /\ current_device' = NoDevice
  /\ client' = left
  /\ pipe' = IF left = None THEN "none" ELSE "orphan"
  /\ msgs' = <<>> /\ replies' = <<>>
  /\ UNCHANGED <<call, filter_driver>>

\* A call that fails before it has a pipe: every call does while an instance of the
\* pipe is still open somewhere, for CreateNamedPipe allows one instance.
StartFails ==
  /\ phase = "idle" /\ call < MaxCalls
  /\ call' = call + 1
  /\ result' \in StartErrors
  /\ filter_driver' \in BOOLEAN
  /\ UNCHANGED <<phase, current_device, timeout, bufVars, pipeVars, inst, faults>>

\* A mutant of CreatePipe: the pipe may have several instances.
CreatePipeAnyway ==
  /\ phase = "idle" /\ call < MaxCalls
  /\ phase' = "launch" /\ call' = call + 1
  /\ \E k \in Knowledge : current_device' = [of |-> call', knows |-> k]
  /\ filter_driver' \in BOOLEAN
  /\ pipe' = IF filter_driver' THEN "connected" ELSE "listening"
  /\ result' = NoStatus
  /\ UNCHANGED <<timeout, bufVars, client, msgs, replies, inst, faults>>

\* The parameters are copied to the globals and the pipe is created; for a filter
\* driver the application also opens the other end, for the installer to inherit.
CreatePipe ==
  /\ phase = "idle" /\ call < MaxCalls /\ pipe = "none"
  /\ phase' = "launch" /\ call' = call + 1
  /\ \E k \in Knowledge : current_device' = [of |-> call', knows |-> k]
  /\ filter_driver' \in BOOLEAN
  /\ pipe' = IF filter_driver' THEN "connected" ELSE "listening"
  /\ result' = NoStatus
  /\ UNCHANGED <<timeout, bufVars, client, msgs, replies, inst, faults>>

LaunchFails ==
  /\ phase = "launch"
  /\ \E r \in LaunchErrors : Finish(r, client)
  /\ UNCHANGED <<timeout, bufVars, inst, faults>>

\* The process of the call starts: libwdi's installer, or the one of a filter driver.
StartInstaller ==
  inst' = [inst EXCEPT ![call] =
             [Absent EXCEPT !.pc = IF filter_driver THEN "filter" ELSE "connect"]]

\* ShellExecuteEx or CreateProcess, and the first buffer.
Launch ==
  /\ phase = "launch"
  /\ StartInstaller
  /\ client' = IF filter_driver THEN call ELSE client
  /\ phase' = "reading"
  /\ bufsize' = LogBufSize /\ offset' = 0
  /\ UNCHANGED <<call, current_device, filter_driver, timeout, result, pipe, msgs, replies,
                 faults>>

\* The installer is started and the allocation of the buffer fails.
LaunchWithoutBuffer ==
  /\ phase = "launch" /\ faults < MaxFaults
  /\ StartInstaller
  /\ Finish("WDI_ERROR_RESOURCE", IF filter_driver THEN call ELSE client)
  /\ faults' = faults + 1
  /\ UNCHANGED <<timeout, bufVars>>

\* A mutant of ReadListening: the call gives up on an installer that has not connected.
ReadListeningGivesUp ==
  /\ phase = "reading" /\ pipe = "listening"
  /\ Finish("WDI_ERROR_TIMEOUT", client)
  /\ UNCHANGED <<timeout, bufVars, inst, faults>>

\* ReadFile answers ERROR_PIPE_LISTENING: sleep 100 ms, try again.
ReadListening ==
  /\ phase = "reading" /\ pipe = "listening"
  /\ UNCHANGED vars

\* The bytes of the message at the head of the pipe that are not read yet.
Remaining == Head(msgs).size - offset

\* A mutant of ReadOverflow: the buffer keeps its size.
ReadOverflowSameBuffer ==
  /\ phase = "reading" /\ msgs # <<>>
  /\ Remaining > bufsize - offset
  /\ offset' = offset + (bufsize - offset)
  /\ UNCHANGED <<bufsize, parentVars, pipeVars, inst, faults>>

\* ERROR_MORE_DATA: what fits is read, the buffer is doubled.
ReadOverflow ==
  /\ phase = "reading" /\ msgs # <<>>
  /\ Remaining > bufsize - offset
  /\ bufsize' = 2 * bufsize
  /\ offset' = offset + (bufsize - offset)
  /\ UNCHANGED <<parentVars, pipeVars, inst, faults>>

\* ERROR_MORE_DATA, and the larger buffer cannot be had.
ReadOverflowFails ==
  /\ phase = "reading" /\ msgs # <<>> /\ faults < MaxFaults
  /\ Remaining > bufsize - offset
  /\ Finish("WDI_ERROR_RESOURCE", client)
  /\ bufsize' = 2 * bufsize
  /\ faults' = faults + 1
  /\ UNCHANGED <<timeout, offset, inst>>

\* What process_message returns for message m, of which the last read gave n bytes.
Verdict(m, n) ==
  CASE n = 0 -> "WDI_ERROR_INVALID_PARAM"
    [] n > 0 /\ current_device = NoDevice -> "WDI_ERROR_NOT_FOUND"
    [] n > 0 /\ current_device # NoDevice /\ ~filter_driver
         /\ m.code \in {"IC_PRINT_MESSAGE", "IC_SYSLOG_MESSAGE", "IC_SET_STATUS"}
         /\ n < 2 -> "WDI_ERROR_NOT_FOUND"
    [] n > 1 /\ current_device # NoDevice /\ ~filter_driver
         /\ m.code = "IC_SET_STATUS" -> m.status
    [] OTHER -> Success

\* The answer to request k: the identity of the device of the current call.
Answer(k) ==
  [req |-> k, of |-> IF k \in current_device.knows THEN current_device.of ELSE None]

\* A mutant of Deliver: a read the installer gave up on takes nothing from the pipe.
DeliverToCurrent(k) ==
  IF client = None THEN UNCHANGED <<inst, replies>>
  ELSE IF inst[client].pc = "await" /\ inst[client].answer = NoReply
  THEN inst' = [inst EXCEPT ![client].answer = Answer(k)] /\ UNCHANGED replies
  ELSE replies' = Append(replies, Answer(k)) /\ UNCHANGED inst

\* A mutant of Deliver: an answer is taken for a late one whatever the reads pending.
DeliverLate(k) ==
  IF client = None THEN UNCHANGED <<inst, replies>>
  ELSE inst' = [inst EXCEPT ![client].abandoned = @ - 1] /\ UNCHANGED replies

\* WriteFile of the answer to k: it completes the oldest read of the client that is
\* pending, and stays in the pipe when there is none.
Deliver(k) ==
  IF client = None THEN UNCHANGED <<inst, replies>>
  ELSE IF inst[client].abandoned > 0
  THEN inst' = [inst EXCEPT ![client].abandoned = @ - 1] /\ UNCHANGED replies
  ELSE IF inst[client].pc = "await" /\ inst[client].answer = NoReply
  THEN inst' = [inst EXCEPT ![client].answer = Answer(k)] /\ UNCHANGED replies
  ELSE replies' = Append(replies, Answer(k)) /\ UNCHANGED inst

\* The timeout that message m leaves.
TimeoutAfter(m) ==
  CASE m.code = "IC_SET_TIMEOUT_INFINITE" /\ ~filter_driver -> "infinite"
    [] m.code = "IC_SET_TIMEOUT_DEFAULT" /\ ~filter_driver -> "default"
    [] OTHER -> timeout

\* The end of the message is read: process_message, and back to the loop.
ReadMessage ==
  /\ phase = "reading" /\ msgs # <<>>
  /\ Remaining <= bufsize - offset
  /\ Verdict(Head(msgs), Remaining) = Success
  /\ offset' = 0
  /\ timeout' = TimeoutAfter(Head(msgs))
  /\ msgs' = Tail(msgs)
  /\ IF ~filter_driver /\ \E k \in 1..3 : Head(msgs).code = Requests[k]
     THEN \E k \in 1..3 : Head(msgs).code = Requests[k] /\ Deliver(k)
     ELSE UNCHANGED <<inst, replies>>
  /\ UNCHANGED <<phase, call, current_device, filter_driver, result, bufsize, pipe, client,
                 faults>>

\* process_message does not return WDI_SUCCESS: the loop ends.
ReadVerdict ==
  /\ phase = "reading" /\ msgs # <<>>
  /\ Remaining <= bufsize - offset
  /\ Verdict(Head(msgs), Remaining) # Success
  /\ Finish(Verdict(Head(msgs), Remaining), client)
  /\ offset' = 0
  /\ UNCHANGED <<timeout, bufsize, inst, faults>>

\* A mutant of Completion: every process that is gone has succeeded.
CompletionByEnd(exit) == IF exit = "STILL_ACTIVE" THEN "WDI_ERROR_TIMEOUT" ELSE Success

\* check_completion
Completion(exit) ==
  CASE exit = Success -> Success
    [] exit = "STILL_ACTIVE" -> "WDI_ERROR_TIMEOUT"
    [] OTHER -> "WDI_ERROR_OTHER"

\* A mutant of ProcessEnded: only the end of libwdi's own installer is waited for.
OwnProcessEnded ==
  /\ phase = "reading" /\ pipe = "connected" /\ msgs = <<>> /\ ~filter_driver
  /\ inst[call].exit # "STILL_ACTIVE"
  /\ Finish(Completion(inst[call].exit), client)
  /\ UNCHANGED <<timeout, bufVars, inst, faults>>

\* A read is pending and the process handle is signalled.
ProcessEnded ==
  /\ phase = "reading" /\ pipe = "connected" /\ msgs = <<>>
  /\ inst[call].exit # "STILL_ACTIVE"
  /\ Finish(Completion(inst[call].exit), client)
  /\ UNCHANGED <<timeout, bufVars, inst, faults>>

\* A mutant of WaitExpires: the timeout is not suspended.
WaitExpiresAlways ==
  /\ phase = "reading" /\ pipe = "connected" /\ msgs = <<>>
  /\ inst[call].exit = "STILL_ACTIVE"
  /\ phase' = "expired"
  /\ UNCHANGED <<call, current_device, filter_driver, timeout, result, bufVars, pipeVars,
                 inst, faults>>

\* A read is pending, and nothing has happened for `timeout`.
WaitExpires ==
  /\ phase = "reading" /\ pipe = "connected" /\ msgs = <<>>
  /\ inst[call].exit = "STILL_ACTIVE"
  /\ timeout = "default"
  /\ phase' = "expired"
  /\ UNCHANGED <<call, current_device, filter_driver, timeout, result, bufVars, pipeVars,
                 inst, faults>>

\* TerminateProcess(handle, 0): the process may be gone at once, or stay for a while, or
\* for good when the application may not terminate it (the answer is not looked at).
Terminate(i) == Dead(i, Success) \/ UNCHANGED inst

KillSilent ==
  /\ phase = "expired"
  /\ IF inst[call].exit = "STILL_ACTIVE" THEN Terminate(call) ELSE UNCHANGED inst
  /\ Finish("WDI_ERROR_TIMEOUT",
            IF client = call /\ inst'[call].pc = "dead" THEN None ELSE client)
  /\ UNCHANGED <<timeout, bufVars, faults>>

\* ERROR_BROKEN_PIPE: wait for the process.
PipeBroken ==
  /\ phase = "reading" /\ pipe = "closed" /\ msgs = <<>>
  /\ phase' = "broken"
  /\ UNCHANGED <<call, current_device, filter_driver, timeout, result, bufVars, pipeVars,
                 inst, faults>>

BrokenEnded ==
  /\ phase = "broken"
  /\ inst[call].exit # "STILL_ACTIVE"
  /\ Finish(Completion(inst[call].exit), client)
  /\ UNCHANGED <<timeout, bufVars, inst, faults>>

\* The process outlives its end of the pipe by `timeout`: it is terminated, and
\* check_completion reads the exit code it was just given, or STILL_ACTIVE.
BrokenExpires ==
  /\ phase = "broken"
  /\ inst[call].exit = "STILL_ACTIVE" /\ timeout = "default"
  /\ Terminate(call)
  /\ Finish(Completion(inst'[call].exit), client)
  /\ UNCHANGED <<timeout, bufVars, faults>>

\* The application crashes or is closed during a call; the next one starts afresh.
ParentCrash ==
  /\ phase # "idle" /\ faults < MaxFaults
  /\ faults' = faults + 1
  /\ phase' = "idle" /\ current_device' = NoDevice /\ filter_driver' = FALSE
  /\ timeout' = "default" /\ bufsize' = LogBufSize /\ offset' = 0
  /\ pipe' = IF client = None THEN "none" ELSE "orphan"
  /\ msgs' = <<>> /\ replies' = <<>>
  /\ UNCHANGED <<call, result, client, inst>>

----------------------------------------------------------------------------
(* The installer: main and its syslog reader thread.                       *)

\* WriteFile: the message is lost when the application is no longer there.
Send(i, m) == msgs' = IF Linked(i) THEN Append(msgs, m) ELSE msgs

\* The installer's end of the pipe is closed, by CloseHandle or with its process.  The
\* end a filter driver's installer inherits stays open in the application too.
CloseEnd(i) ==
  IF client # i THEN UNCHANGED <<pipe, client>>
  ELSE /\ client' = None
       /\ pipe' = CASE pipe = "orphan" -> "none"
                     [] pipe = "connected" /\ ~filter_driver -> "closed"
                     [] OTHER -> pipe

Step(i, from, to) == inst[i].pc = from /\ inst' = [inst EXCEPT ![i].pc = to]

\* CreateFile on the pipe: only the first to come gets the one instance.
Connect(i) ==
  /\ inst[i].pc = "connect"
  /\ IF pipe = "listening"
     THEN /\ inst' = [inst EXCEPT ![i].pc = "init"]
          /\ pipe' = "connected" /\ client' = i
     ELSE /\ Dead(i, "WDI_ERROR_NOT_SUPPORTED")
          /\ UNCHANGED <<pipe, client>>
  /\ UNCHANGED <<msgs, replies>>

InitDone(i) == Step(i, "init", "ask") /\ UNCHANGED pipeVars

\* The DLLs, the arguments or the working directory cannot be had.
InitFails(i) ==
  /\ inst[i].pc = "init"
  /\ \E r \in InitErrors : inst' = [inst EXCEPT ![i].pc = "done", ![i].ret = r]
  /\ UNCHANGED pipeVars

\* Where main goes when request k is over.
AfterRequest(k) == IF k < 3 THEN "ask" ELSE "syslog"

\* request_data: start the read, then write the request.
Ask(i) ==
  /\ inst[i].pc = "ask" /\ Linked(i) /\ replies = <<>>
  /\ inst' = [inst EXCEPT ![i].pc = "await", ![i].asked = @ + 1, ![i].answer = NoReply]
  /\ msgs' = Append(msgs, Msg(Requests[inst[i].asked + 1], 1))
  /\ UNCHANGED <<pipe, client, replies>>

\* The read fails at once, or completes at once with something nobody asked for.
AskFails(i) ==
  /\ inst[i].pc = "ask" /\ (~Linked(i) \/ replies # <<>>)
  /\ inst' = [inst EXCEPT ![i].asked = @ + 1, ![i].pc = AfterRequest(inst[i].asked + 1)]
  /\ replies' = IF Linked(i) THEN Tail(replies) ELSE replies
  /\ UNCHANGED <<pipe, client, msgs>>

\* The read completes: an empty answer counts as no identity.
GotAnswer(i) ==
  /\ inst[i].pc = "await" /\ inst[i].answer # NoReply
  /\ inst' = [inst EXCEPT ![i].pc = AfterRequest(inst[i].asked),
                          ![i].ids[inst[i].asked] =
                             IF inst[i].answer.of = None THEN NoReply ELSE inst[i].answer]
  /\ UNCHANGED pipeVars

\* REQUEST_TIMEOUT: the request fails, and its read stays pending.
RequestExpires(i) ==
  /\ inst[i].pc = "await" /\ inst[i].answer = NoReply /\ Linked(i)
  /\ inst' = [inst EXCEPT ![i].pc = AfterRequest(inst[i].asked), ![i].abandoned = @ + 1]
  /\ UNCHANGED pipeVars

\* The application closes its end: the pending reads fail.
RequestBreaks(i) ==
  /\ inst[i].pc = "await" /\ inst[i].answer = NoReply /\ ~Linked(i)
  /\ inst' = [inst EXCEPT ![i].pc = AfterRequest(inst[i].asked), ![i].abandoned = 0]
  /\ UNCHANGED pipeVars

\* The reader thread starts, or cannot be started, or is told to stop at once.
StartSyslog(i) ==
  /\ inst[i].pc = "syslog"
  /\ \E on \in BOOLEAN : inst' = [inst EXCEPT ![i].pc = "policy", ![i].syslog = on]
  /\ UNCHANGED pipeVars

\* A line for the log: plog from the main thread at any time, a line of the system log
\* from the reader thread, the output of a filter driver's installer.
LogLine(i) ==
  /\ Alive(i) /\ Linked(i) /\ inst[i].lines < MaxLines
  /\ inst' = [inst EXCEPT ![i].lines = @ + 1]
  /\ \E n \in LineSizes :
       \/ n <= LogBufSize /\ inst[i].pc # "filter" /\ Send(i, Msg("IC_PRINT_MESSAGE", n))
       \/ inst[i].syslog /\ Send(i, Msg("IC_SYSLOG_MESSAGE", n))
       \/ inst[i].pc = "filter" /\ Send(i, Msg("text", n))
  /\ UNCHANGED <<pipe, client, replies>>

\* disable_system_restore(TRUE)
DisableRestore(i) == Step(i, "policy", "update") /\ UNCHANGED pipeVars

\* The timeout is suspended; the update needs a hardware id.
BeginUpdate(i) ==
  /\ Step(i, "update", IF inst[i].ids[HardwareId] = NoReply THEN "copy" ELSE "updating")
  /\ Send(i, Msg("IC_SET_TIMEOUT_INFINITE", 1))
  /\ UNCHANGED <<pipe, client, replies>>

\* UpdateDriverForPlugAndPlayDevices returns; process_error makes some of its errors a
\* success, and then the inf file is copied for the next time the device is plugged in.
EndUpdate(i) ==
  /\ inst[i].pc = "updating"
  /\ \/ inst' = [inst EXCEPT ![i].pc = "copy"]
     \/ \E r \in {Success} \cup InstallErrors :
           inst' = [inst EXCEPT ![i].pc = "done", ![i].ret = r]
  /\ Send(i, Msg("IC_SET_TIMEOUT_DEFAULT", 1))
  /\ UNCHANGED <<pipe, client, replies>>

BeginCopy(i) ==
  /\ Step(i, "copy", "copying")
  /\ Send(i, Msg("IC_SET_TIMEOUT_INFINITE", 1))
  /\ UNCHANGED <<pipe, client, replies>>

\* A mutant of EndCopy: the timeout stays suspended.
EndCopySuspended(i) ==
  /\ inst[i].pc = "copying"
  /\ \E r \in {Success} \cup InstallErrors :
       inst' = [inst EXCEPT ![i].pc = "done", ![i].ret = r]
  /\ UNCHANGED pipeVars

\* SetupCopyOEMInf returns.
EndCopy(i) ==
  /\ inst[i].pc = "copying"
  /\ \E r \in {Success} \cup InstallErrors :
       inst' = [inst EXCEPT ![i].pc = "done", ![i].ret = r]
  /\ Send(i, Msg("IC_SET_TIMEOUT_DEFAULT", 1))
  /\ UNCHANGED <<pipe, client, replies>>

\* `out:` the end is announced, and then the status.
Completed(i) ==
  /\ Step(i, "done", "report")
  /\ Send(i, Msg("IC_INSTALLER_COMPLETED", 1))
  /\ UNCHANGED <<pipe, client, replies>>

Report(i) ==
  /\ Step(i, "report", "restore")
  /\ Send(i, [code |-> "IC_SET_STATUS", size |-> 2, status |-> inst[i].ret])
  /\ UNCHANGED <<pipe, client, replies>>

\* disable_system_restore(FALSE), and a second for the application to read the status.
EnableRestore(i) == Step(i, "restore", "close") /\ UNCHANGED pipeVars

\* The reader thread is told to stop, and the pipe is closed.
ClosePipe(i) ==
  /\ inst[i].pc = "close"
  /\ inst' = [inst EXCEPT ![i].pc = "exit", ![i].syslog = FALSE]
  /\ CloseEnd(i)
  /\ UNCHANGED <<msgs, replies>>

\* main returns ret.
Exit(i) ==
  /\ inst[i].pc = "exit"
  /\ Dead(i, inst[i].ret)
  /\ UNCHANGED pipeVars

\* install-filter.exe ends with an exit code of its own.
FilterExit(i) ==
  /\ inst[i].pc = "filter"
  /\ \E r \in {Success} \cup InstallErrors : Gone(i, r, r)
  /\ CloseEnd(i)
  /\ UNCHANGED <<msgs, replies>>

\* The installer crashes, or somebody else terminates it.
InstallerCrash(i) ==
  /\ Alive(i)
  /\ Dead(i, "CRASHED")
  /\ CloseEnd(i)
  /\ UNCHANGED <<msgs, replies>>

----------------------------------------------------------------------------
\* The steps of a call that its thread takes as soon as it can.
CallStep ==
  \/ LaunchFails \/ Launch \/ ReadListening \/ ReadOverflow \/ ReadMessage \/ ReadVerdict
  \/ ProcessEnded \/ WaitExpires \/ KillSilent \/ PipeBroken \/ BrokenEnded
  \/ BrokenExpires

ParentStep ==
  \/ StartFails \/ CreatePipe \/ CallStep
  \/ LaunchWithoutBuffer \/ ReadOverflowFails \/ ParentCrash

InstallerStep(i) ==
  /\ \/ Connect(i) \/ InitDone(i) \/ InitFails(i)
     \/ Ask(i) \/ AskFails(i) \/ GotAnswer(i) \/ RequestExpires(i) \/ RequestBreaks(i)
     \/ StartSyslog(i) \/ LogLine(i)
     \/ BeginUpdate(i) \/ EndUpdate(i) \/ BeginCopy(i) \/ EndCopy(i)
     \/ Completed(i) \/ Report(i) \/ ClosePipe(i) \/ Exit(i)
     \/ FilterExit(i) \/ InstallerCrash(i)
  /\ UNCHANGED <<parentVars, bufVars, faults>>

\* The two steps that change the policy of the machine (module InstallPolicy says how).
PolicyStep(i) ==
  /\ DisableRestore(i) \/ EnableRestore(i)
  /\ UNCHANGED <<parentVars, bufVars, faults>>

\* Every install is made and every process is gone: the system stops.
Over ==
  /\ phase = "idle" /\ call = MaxCalls /\ \A i \in Call : ~Alive(i)
  /\ UNCHANGED vars

Next == ParentStep \/ (\E i \in Call : InstallerStep(i) \/ PolicyStep(i)) \/ Over

Spec == Init /\ [][Next]_vars

\* The thread that runs the call is scheduled; nothing is assumed of the installer.
Fairness == WF_vars(CallStep)

----------------------------------------------------------------------------
Ended(i) == inst[i].exit # "STILL_ACTIVE"

\* A call reports what its installer came to: while no application has crashed, success
\* only when its installer decided on success, and an error that is not one of the call
\* itself only when its installer decided on that one.
\* TerminateProcess gives a silent installer the exit code 0, which must never be taken
\* for a success.
ResultFaithful ==
  faults = 0 /\ result \in Statuses \ (StartErrors \cup LaunchErrors \cup ReadErrors)
    => inst[call].ret = result

\* Nobody installs on the identity of something else: each identity an installer holds
\* was sent for the request it made, and (while no application has crashed) describes
\* the device of its own call, whatever timed out or came late before.
IdentityIsOwn ==
  \A i \in Call, k \in 1..3 :
    inst[i].ids[k] # NoReply =>
      /\ inst[i].ids[k].req = k
      /\ faults = 0 => inst[i].ids[k].of = i

\* The application only listens to the installer it started for this call: none that
\* an earlier call left behind is ever at the other end of the pipe of a later one.
OwnInstaller ==
  faults = 0 /\ phase # "idle" => client \in {None, call}

\* The reassembly of a long message: what is read of it is a part of it, there is room
\* for more, and between messages the read starts at the beginning of the buffer.
Reassembly ==
  /\ offset < bufsize
  /\ offset > 0 => \/ phase \in {"idle", "launch"}
                   \/ msgs # <<>> /\ offset < Head(msgs).size

\* The decision that the installer has stopped responding is never taken while the
\* installer is inside one of the operations of Windows that may take for ever.
NeverGivesUpOnWindows ==
  [][phase = "reading" /\ phase' = "expired" =>
       inst[call].pc \notin {"updating", "copying"}]_vars

\* After an install that succeeded, the timeout is back to its default.
SuccessRestoresTimeout ==
  phase = "idle" /\ call > 0 /\ ~filter_driver /\ faults = 0
    => (result = Success => timeout = "default")

\* Once an installer has been connected, its end is noticed and the call returns.
EndNoticed ==
  (phase # "idle" /\ pipe # "listening" /\ Ended(call)) ~> phase = "idle"

\* The call as its user sees it, without the installer, the pipe and the timeouts.
Promise == INSTANCE InstallCall WITH
  busy <- phase # "idle",
  decided <- IF call = 0 THEN NoStatus ELSE inst[call].ret,
  returned <- result,
  faulty <- faults > 0

\* The protocol implements the promise of a call.
KeepsPromise == Promise!Spec

\* The installer has ended before it opened the pipe, and its call is still reading.
Hung == phase = "reading" /\ pipe = "listening" /\ Ended(call)

\* From there nothing gets the call out, neither the timeout nor an installer that an
\* earlier call left behind and that could still open the pipe: only the end of the
\* application does (which may also have left an installer behind that comes to the pipe).
HungForEver == [][Hung /\ faults = 0 => Hung' \/ faults' > 0]_vars

\* libwdi_i.h:28, "Initial timeout delay to wait for the installer to run": a call does
\* not wait for ever for an installer that has ended.
EndAlwaysNoticed ==
  (phase # "idle" /\ Ended(call)) ~> phase = "idle"
=============================================================================
