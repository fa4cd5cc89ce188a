----------------------------- MODULE ZadigUpdate -----------------------------
(***************************************************************************)
(* Zadig with its check for updates (zadig_net.c and the two dialogs of    *)
(* zadig_stdlg.c): the thread that looks for a new version, the dialog it  *)
(* shows, and the thread that downloads the new program for that dialog.   *)
(*                                                                         *)
(* They share flags and a few static variables with the window's thread    *)
(* and with each other, none of them protected.                            *)
(***************************************************************************)
EXTENDS Zadig

\* Two threads of each kind are as many as the bounds let start.
Checker == 1..2
Loader == 1..2

VARIABLES
  force,     \* force_update_check
  checking,  \* update_check_in_progress
  checker,   \* where the threads of CheckForUpdatesThread are
  asked,     \* history: the user has asked for a check and waits for the answer
  dialogs,   \* the threads whose new version dialog is open
  status,    \* download_status: 0 none, 1 in progress, 2 to be launched
  path,      \* filepath, 0 for NULL
  freed,     \* the file names that are freed
  error,     \* IS_ERROR(error_code): the download is cancelled, or a step of one failed
  launching, \* the dialog sleeps before it launches the file
  loader,    \* where the threads of DownloadFile are
  ok,        \* r of each of them
  name,      \* the file name of each of them
  file,      \* what is in the file, and who has it open (0: nobody)
  mishap     \* history: threads that got in each other's way

checkVars == <<force, checking, checker, asked>>
loadVars == <<dialogs, status, path, freed, error, launching, loader, ok, name, file>>
updateVars == <<checkVars, loadVars, mishap>>
vars == <<uiVars, updateVars>>

UpdateTypeOK ==
  /\ force \in BOOLEAN /\ checking \in BOOLEAN /\ asked \in BOOLEAN
  /\ checker \in [Checker -> {"none", "start", "wait", "query", "hold", "dialog",
                              "answer", "clear", "end"}]
  /\ dialogs \subseteq Checker /\ status \in 0..2
  /\ path \in 0..2 /\ freed \subseteq 1..2
  /\ error \in BOOLEAN /\ launching \in BOOLEAN
  /\ loader \in [Loader -> {"none", "start", "connect", "read", "exit", "close",
                            "unlink", "gone"}]
  /\ ok \in [Loader -> BOOLEAN] /\ name \in [Loader -> 0..2]
  /\ file \in [content : {"none", "partial", "complete"}, by : 0..2]
  /\ mishap \subseteq {"double", "late", "refused", "reset", "overlap", "abandoned"}

TypeOK == UiTypeOK /\ UpdateTypeOK

First(place) == [c \in Checker |-> IF c = 1 THEN place ELSE "none"]

\* WM_INITDIALOG ends with CheckForUpdates(FALSE), when checks are part of the bounds.  It
\* takes the flag from a check that was asked for in the dialog of the first run.
Init ==
  /\ UiInit
  /\ force = FALSE
  /\ \/ /\ checker = First(IF left.checks + left.loads > 0 THEN "start" ELSE "none")
        /\ checking = FALSE /\ asked = FALSE /\ mishap = {}
     \/ /\ left.checks > 0
        /\ \E place \in {"query", "hold", "answer"} : checker = First(place)
        /\ checking = TRUE /\ asked = TRUE /\ mishap = {"reset"}
  /\ dialogs = {} /\ status = 0 /\ path = 0 /\ freed = {}
  /\ error = FALSE /\ launching = FALSE
  /\ loader = [d \in Loader |-> "none"] /\ ok = [d \in Loader |-> FALSE]
  /\ name = [d \in Loader |-> 0]
  /\ file = [content |-> "none", by |-> 0]

----------------------------------------------------------------------------
(* The check.                                                              *)

At(c, place) == checker[c] = place
Goto(c, place) == checker' = [checker EXCEPT ![c] = place]
Unwatched == UNCHANGED <<w, stack, thid, delay, world, alive, bad, odd>>

\* No installation runs and no box of Zadig is open: a check may show itself.
Idle == /\ ~w.installing
        /\ \A i \in DOMAIN stack : stack[i].kind \notin {"notice", "file"}

SettingsOpened ==
  /\ CanInput /\ Spend("checks")
  /\ stack' = Push("settings", NoDev, FALSE, FALSE)
  /\ UNCHANGED <<w, queue, thid, delay, world, alive, bad, odd, updateVars>>

SettingsClosed ==
  /\ stack # <<>> /\ Top.kind = "settings" /\ stack' = Front(stack)
  /\ UNCHANGED <<w, queue, thid, delay, world, alive, bad, odd, left, updateVars>>

\* IDC_CHECK_NOW: CheckForUpdates(TRUE), which leaves the work to a thread that runs; a
\* new one may not be had.
CheckNow ==
  /\ stack # <<>> /\ Top.kind = "settings" /\ Spend("checks")
  /\ force' = TRUE
  /\ asked' = (\A c \in Checker : ~At(c, "dialog"))
  /\ IF checking
     THEN /\ UNCHANGED checker
          /\ mishap' = mishap \cup IF \E c \in Checker : At(c, "clear") \/ At(c, "end")
                                   THEN {"late"} ELSE {}
     ELSE \/ \E c \in Checker :
               /\ At(c, "none") /\ \A b \in Checker : b < c => ~At(b, "none")
               /\ Goto(c, "start")
               /\ mishap' = mishap \cup IF \E b \in Checker : ~At(b, "none")
                                        THEN {"double"} ELSE {}
          \/ UNCHANGED checker /\ mishap' = mishap \cup {"refused"}
  /\ Unwatched /\ UNCHANGED <<queue, checking, loadVars>>

CheckStarts(c) ==
  /\ At(c, "start") /\ checking' = TRUE
  /\ Goto(c, IF force THEN "query" ELSE "wait")
  /\ Unwatched /\ UNCHANGED <<queue, left, force, asked, loadVars, mishap>>

\* A mutant of Waited: the thread does not look at the flag while it waits.
WaitedOut(c) ==
  /\ At(c, "wait") /\ Idle
  /\ Goto(c, "clear")
  /\ Unwatched /\ UNCHANGED <<queue, left, force, checking, asked, loadVars, mishap>>

\* A check that is not forced waits until Zadig is idle, and may not be due.
Waited(c) ==
  /\ At(c, "wait") /\ (force \/ Idle)
  /\ \/ Goto(c, "query")
     \/ ~force /\ Goto(c, "answer")
  /\ Unwatched /\ UNCHANGED <<queue, left, force, checking, asked, loadVars, mishap>>

\* A new version is found, or none is, or the server is not reached.
Queried(c) ==
  /\ At(c, "query")
  /\ Goto(c, "hold") \/ Goto(c, "answer")
  /\ Unwatched /\ UNCHANGED <<queue, left, force, checking, asked, loadVars, mishap>>

\* download_new_version, once Zadig is idle or the user has asked.
Shown(c) ==
  /\ At(c, "hold") /\ (force \/ Idle)
  /\ Goto(c, "dialog")
  /\ dialogs' = dialogs \cup {c} /\ status' = 0
  /\ asked' = FALSE
  /\ Unwatched
  /\ UNCHANGED <<queue, left, force, checking, path, freed, error, launching, loader, ok,
                 name, file, mishap>>

\* "No new version", for a user who has asked.
Answered(c) ==
  /\ At(c, "answer") /\ Goto(c, "clear")
  /\ queue' = IF force THEN Post("noupdate") ELSE queue
  /\ asked' = (asked /\ ~force)
  /\ Unwatched /\ UNCHANGED <<left, force, checking, loadVars, mishap>>

CheckClears(c) ==
  /\ At(c, "clear") /\ Goto(c, "end") /\ force' = FALSE
  /\ Unwatched /\ UNCHANGED <<queue, left, checking, asked, loadVars, mishap>>

CheckEnds(c) ==
  /\ At(c, "end") /\ Goto(c, "none") /\ checking' = FALSE
  /\ Unwatched /\ UNCHANGED <<queue, left, force, asked, loadVars, mishap>>

----------------------------------------------------------------------------
(* The new version dialog.                                                 *)

Loading == {d \in Loader : loader[d] \notin {"none", "gone"}}

\* IDC_DOWNLOAD, as Download: a thread starts, and the button stays as it is until the
\* thread says that it runs.
DownloadClicked ==
  /\ dialogs # {} /\ status = 0 /\ ~launching /\ Spend("loads")
  /\ \E d \in Loader :
       /\ loader[d] = "none" /\ \A b \in Loader : b < d => loader[b] # "none"
       /\ loader' = [loader EXCEPT ![d] = "start"]
       /\ path' = d
  /\ mishap' = IF Loading # {} THEN mishap \cup {"overlap"} ELSE mishap
  /\ Unwatched
  /\ UNCHANGED <<queue, checkVars, dialogs, status, freed, error, launching, ok, name,
                 file>>

\* IDC_DOWNLOAD, as Abort.
AbortClicked ==
  /\ dialogs # {} /\ status = 1 /\ ~launching
  /\ status' = 0 /\ error' = TRUE
  /\ UNCHANGED <<uiVars, checkVars, dialogs, path, freed, launching, loader, ok, name,
                 file, mishap>>

\* IDC_DOWNLOAD, as Launch: a second's sleep, and the program is started.
LaunchClicked ==
  /\ dialogs # {} /\ status = 2 /\ ~launching
  /\ launching' = TRUE
  /\ UNCHANGED <<uiVars, checkVars, dialogs, status, path, freed, error, loader, ok, name,
                 file, mishap>>

\* IDCLOSE, IDCANCEL
EndDialog(c) ==
  /\ Goto(c, "clear") /\ dialogs' = dialogs \ {c}
  /\ freed' = freed \cup ({path} \ {0}) /\ path' = 0
  /\ mishap' = IF Loading # {} THEN mishap \cup {"abandoned"} ELSE mishap

\* Its end.  A file that is open for writing is not started; one that is ends Zadig.
Launched(c) ==
  /\ launching /\ launching' = FALSE /\ At(c, "dialog")
  /\ LET starts == file.by = 0 /\ file.content # "none"
     IN /\ queue' = IF starts THEN Post("close") ELSE queue
        /\ IF starts THEN EndDialog(c) ELSE UNCHANGED <<checker, dialogs, path, freed, mishap>>
  /\ Unwatched
  /\ UNCHANGED <<left, force, checking, asked, status, error, loader, ok, name, file>>

\* Not during a download, but one that was aborted may still run.
DialogClosed(c) ==
  /\ At(c, "dialog") /\ status # 1 /\ ~launching
  /\ EndDialog(c)
  /\ UNCHANGED <<uiVars, force, checking, asked, status, error, launching, loader, ok,
                 name, file>>

----------------------------------------------------------------------------
(* DownloadFile.  SendMessage waits for the dialog, and fails without one. *)

Go(d, place) == loader' = [loader EXCEPT ![d] = place]

\* The thread fetches its arguments, and UM_DOWNLOAD_INIT
LoadStarts(d) ==
  /\ loader[d] = "start" /\ ~launching
  /\ Go(d, "connect") /\ name' = [name EXCEPT ![d] = IF path = 0 THEN d ELSE path]
  /\ IF dialogs # {} THEN error' = FALSE /\ status' = 1 ELSE UNCHANGED <<error, status>>
  /\ UNCHANGED <<uiVars, checkVars, dialogs, path, freed, launching, ok, file, mishap>>

\* The server is asked and the file is created, if nobody has it open.  The error code of a
\* step that fails is that of every download.
LoadCreates(d) ==
  /\ loader[d] = "connect"
  /\ \/ /\ file.by = 0 /\ Go(d, "read") /\ file' = [content |-> "partial", by |-> d]
        /\ UNCHANGED <<error, left>>
     \/ /\ IF file.by = 0 THEN Spend("faults") ELSE UNCHANGED left
        /\ Go(d, "exit") /\ error' \in BOOLEAN /\ UNCHANGED file
  /\ Unwatched
  /\ UNCHANGED <<queue, checkVars, dialogs, status, path, freed, launching, ok, name, mishap>>

\* A mutant of LoadReads: the size of what was read is not compared.
LoadReadsLess(d) ==
  /\ loader[d] = "read" /\ Go(d, "exit")
  /\ \/ error /\ UNCHANGED <<error, ok, file, left>>
     \/ ok' = [ok EXCEPT ![d] = TRUE] /\ file' = [file EXCEPT !.content = "complete"]
        /\ UNCHANGED <<error, left>>
     \/ ok' = [ok EXCEPT ![d] = TRUE] /\ Spend("faults") /\ UNCHANGED <<error, file>>
  /\ Unwatched
  /\ UNCHANGED <<queue, checkVars, dialogs, status, path, freed, launching, name, mishap>>

\* Until it is cancelled, or everything is there, or the connection ends before.
LoadReads(d) ==
  /\ loader[d] = "read" /\ Go(d, "exit")
  /\ \/ error /\ UNCHANGED <<error, ok, file, left>>
     \/ ok' = [ok EXCEPT ![d] = TRUE] /\ file' = [file EXCEPT !.content = "complete"]
        /\ UNCHANGED <<error, left>>
     \/ Spend("faults") /\ error' \in BOOLEAN /\ UNCHANGED <<ok, file>>
  /\ Unwatched
  /\ UNCHANGED <<queue, checkVars, dialogs, status, path, freed, launching, name, mishap>>

\* UM_DOWNLOAD_EXIT, before the file is closed.
LoadTells(d) ==
  /\ loader[d] = "exit" /\ ~launching /\ Go(d, "close")
  /\ status' = IF dialogs = {} THEN status ELSE IF ok[d] THEN 2 ELSE 0
  /\ UNCHANGED <<uiVars, checkVars, dialogs, path, freed, error, launching, ok, name, file,
                 mishap>>

LoadCloses(d) ==
  /\ loader[d] = "close"
  /\ Go(d, IF ok[d] THEN "gone" ELSE "unlink")
  /\ file' = IF file.by = d THEN [file EXCEPT !.by = 0] ELSE file
  /\ UNCHANGED <<uiVars, checkVars, dialogs, status, path, freed, error, launching, ok, name,
                 mishap>>

\* The file is deleted, which fails while another thread has it open; with a name that
\* was freed, anything else may be meant.  What error_code said is reported, and replaced.
LoadUnlinks(d) ==
  /\ loader[d] = "unlink" /\ Go(d, "gone") /\ error' = FALSE
  /\ \/ file' = IF file.by = 0 THEN [file EXCEPT !.content = "none"] ELSE file
     \/ name[d] \in freed /\ UNCHANGED file
  /\ UNCHANGED <<uiVars, checkVars, dialogs, status, path, freed, launching, ok, name, mishap>>

Checking(c) ==
  \/ CheckStarts(c) \/ Waited(c) \/ Queried(c) \/ Shown(c) \/ Answered(c)
  \/ CheckClears(c) \/ CheckEnds(c)
Downloading(d) ==
  \/ LoadStarts(d) \/ LoadCreates(d) \/ LoadReads(d) \/ LoadTells(d)
  \/ LoadCloses(d) \/ LoadUnlinks(d)

\* The new version dialog disables the window, not the messages posted to it.
Next ==
  \/ Messaging /\ UNCHANGED updateVars
  \/ Returning /\ UNCHANGED updateVars
  \/ User /\ dialogs = {} /\ UNCHANGED updateVars
  \/ DelayEnds /\ UNCHANGED updateVars
  \/ Plugged /\ UNCHANGED updateVars
  \/ SettingsOpened /\ dialogs = {}
  \/ SettingsClosed \/ CheckNow
  \/ DownloadClicked \/ AbortClicked \/ LaunchClicked
  \/ \E c \in Checker : Checking(c) \/ DialogClosed(c) \/ Launched(c)
  \/ \E d \in Loader : Downloading(d)

\* The message loop and the threads are scheduled, and the user answers what is asked.
Fairness ==
  /\ WF_vars(Messaging /\ UNCHANGED updateVars)
  /\ WF_vars(Returning /\ UNCHANGED updateVars)
  /\ WF_vars(DelayEnds /\ UNCHANGED updateVars)
  /\ WF_vars(SettingsClosed)
  /\ \A c \in Checker : WF_vars(Checking(c)) /\ WF_vars(DialogClosed(c) \/ Launched(c))
  /\ \A d \in Loader : WF_vars(Downloading(d))

Spec == Init /\ [][Next]_vars /\ Fairness

----------------------------------------------------------------------------
(* Properties                                                              *)

\* What the dialog offers to launch is a complete program, whatever aborts and failures
\* came before, unless a download was started while another one had not ended; and an
\* incomplete file is not left behind, unless the dialog was closed, and freed the name,
\* while an aborted download still ran.
LaunchesComplete ==
  /\ dialogs # {} /\ status = 2 /\ "overlap" \notin mishap => file.content = "complete"
  /\ file.content = "partial" /\ "abandoned" \notin mishap => Loading # {}

\* A request for a check is not lost: while the user waits, the flag is set that makes a
\* thread answer at once, and there is a thread that has yet to look at it for the last
\* time; but for the four mishaps that ChecksAnswered names.
RequestHeard ==
  asked =>
    \/ /\ force
       /\ \E c \in Checker : checker[c] \in {"start", "wait", "query", "hold", "answer"}
    \/ mishap \cap {"late", "double", "refused", "reset"} # {}

\* A user who asks for a check gets an answer, even if the automatic check runs and
\* waits at that moment: unless it is about to end, a second thread was started before
\* the first had set its flag, a thread could not be had, it was asked for before the window
\* was set up, or the program ends.
ChecksAnswered ==
  asked ~> (~asked \/ mishap \cap {"late", "double", "refused", "reset"} # {} \/ "closing" \in odd)

=============================================================================
