------------------------------ MODULE StatusBar -------------------------------
(* The status bar of Zadig (zadig.c): print_status, which the threads that check  *)
(* for updates and download them call, dsprintf, which the window calls, and the  *)
(* timer of a message that has a duration.                                        *)
(*                                                                                *)
(* A text is named by the number of the call that gave it, in the order in which  *)
(* they reach the bar or szStatusMessage.  A thread other than the window's sends *)
(* its text to the bar, and waits until the window takes it between two handlers. *)
EXTENDS Naturals, FiniteSetsExt

CONSTANTS
  Check,     \* the threads that check for updates, whose first messages have a duration
  Load,      \* the threads that download one, whose messages have none
  TextCount  \* how many texts there are at most

ASSUME StatusAssumption == TextCount \in Nat /\ Check \cap Load = {}

Thread == Check \cup Load

VARIABLES
  shown,    \* the text of IDC_STATUS, 0 for none
  message,  \* szStatusMessage
  armed,    \* bStatusTimerArmed
  timer,    \* the timer TID_MESSAGE is set
  handler,  \* where PrintStatusTimeout is, "none" when it does not run
  thread,   \* each thread: where it is in print_status, its duration, the text it sends
  latest,   \* the number of the latest text
  printed,  \* history: the number of the last text of print_status
  held,     \* history: the text on the bar that has a duration, until its timer fires
  raced,    \* history: the last timer fired between a thread's SetTimer and its flag, or was
            \* set while the handler of the one before was on its way to KillTimer
  seen,     \* history: the newest text that print_status or the handler put on the bar
  late      \* history: the last of these to reach the bar came after a newer one

barvars == <<shown, message, armed, timer, handler, thread, latest, printed, held, raced,
            seen, late>>

Texts == 0..TextCount
Outside == [at |-> "out", lasting |-> FALSE, text |-> 0]

BarInit ==
  /\ shown = 0 /\ message = 0 /\ armed = FALSE /\ timer = FALSE /\ handler = "none"
  /\ thread = [t \in Thread |-> Outside] /\ latest = 0
  /\ printed = 0 /\ held = 0 /\ raced = FALSE /\ seen = 0 /\ late = FALSE

At(t, place) == thread[t].at = place
Go(t, place) == thread' = [thread EXCEPT ![t].at = place]

\* print_status or the handler puts a text on the bar.
Put(text) ==
  /\ shown' = text
  /\ seen' = Max({seen, text})
  /\ late' = (text < seen)

--------------------------------------------------------------------------------
(* print_status, in a thread that is not the window's.                          *)

\* The message is kept, whether it is shown or not.
Store(t) ==
  /\ At(t, "out") /\ latest < TextCount
  /\ latest' = latest + 1 /\ message' = latest' /\ printed' = latest'
  /\ \E lasting \in {t \in Check, FALSE} :
       thread' = [thread EXCEPT ![t] = [Outside EXCEPT !.at = "test", !.lasting = lasting]]
  /\ UNCHANGED <<shown, armed, timer, handler, held, raced, seen, late>>

\* A message without a duration leaves the bar to the timer that is armed.
Test(t) ==
  /\ At(t, "test")
  /\ IF thread[t].lasting \/ ~armed THEN Go(t, "show") ELSE thread' = [thread EXCEPT ![t] = Outside]
  /\ UNCHANGED <<shown, message, armed, timer, handler, latest, printed, held, raced, seen, late>>

\* SetDlgItemTextU: what is kept by now is converted, and sent ...
Show(t) ==
  /\ At(t, "show")
  /\ thread' = [thread EXCEPT ![t].at = "send", ![t].text = message]
  /\ UNCHANGED <<shown, message, armed, timer, handler, latest, printed, held, raced, seen, late>>

\* ... and arrives when the window's thread is in none of its handlers.
Arrive(t) ==
  /\ At(t, "send") /\ handler = "none"
  /\ Put(thread[t].text)
  /\ IF thread[t].lasting
     THEN Go(t, "set") /\ held' = thread[t].text
     ELSE thread' = [thread EXCEPT ![t] = Outside] /\ UNCHANGED held
  /\ UNCHANGED <<message, armed, timer, handler, latest, printed, raced>>

\* SetTimer, which replaces the timer when there is one.
SetBarTimer(t) ==
  /\ At(t, "set") /\ Go(t, "arm")
  /\ timer' = TRUE
  /\ raced' = (handler # "none")
  /\ UNCHANGED <<shown, message, armed, handler, latest, printed, held, seen, late>>

Arm(t) ==
  /\ At(t, "arm") /\ thread' = [thread EXCEPT ![t] = Outside]
  /\ armed' = TRUE
  /\ UNCHANGED <<shown, message, timer, handler, latest, printed, held, raced, seen, late>>

PrintStatus(t) == Store(t) \/ Test(t) \/ Show(t) \/ Arrive(t) \/ SetBarTimer(t) \/ Arm(t)

--------------------------------------------------------------------------------
(* The window's thread.                                                         *)

\* dsprintf: the text is on the bar at once, and szStatusMessage keeps the one before.
Dsprintf ==
  /\ handler = "none" /\ latest < TextCount
  /\ latest' = latest + 1 /\ shown' = latest'
  /\ UNCHANGED <<message, armed, timer, handler, thread, printed, held, raced, seen, late>>

\* The timer fires: PrintStatusTimeout, in its three steps.
Disarm ==
  /\ timer /\ handler = "none" /\ handler' = "show"
  /\ armed' = FALSE /\ held' = 0
  /\ raced' = \E t \in Thread : At(t, "arm")
  /\ UNCHANGED <<shown, message, timer, thread, latest, printed, seen, late>>

ShowLast ==
  /\ handler = "show" /\ handler' = "kill"
  /\ Put(message)
  /\ UNCHANGED <<message, armed, timer, thread, latest, printed, held, raced>>

KillBarTimer ==
  /\ handler = "kill" /\ handler' = "none"
  /\ timer' = FALSE
  /\ UNCHANGED <<shown, message, armed, thread, latest, printed, held, raced, seen, late>>

\* A mutant of PrintStatusTimeout: the flag is cleared last.
PrintStatusTimeoutLate ==
  \/ /\ timer /\ handler = "none" /\ handler' = "show" /\ held' = 0
     /\ raced' = \E t \in Thread : At(t, "arm")
     /\ UNCHANGED <<shown, message, armed, timer, thread, latest, printed, seen, late>>
  \/ ShowLast
  \/ /\ handler = "kill" /\ handler' = "none" /\ timer' = FALSE /\ armed' = FALSE
     /\ UNCHANGED <<shown, message, thread, latest, printed, held, raced, seen, late>>

PrintStatusTimeout == Disarm \/ ShowLast \/ KillBarTimer

BarNext == (\E t \in Thread : PrintStatus(t)) \/ Dsprintf \/ PrintStatusTimeout

BarSpec == BarInit /\ [][BarNext]_barvars

--------------------------------------------------------------------------------
(* zadig.c:160, "If duration is non zero, ensures that message is displayed for at *)
(* least duration ms, regardless of any other incoming message".                  *)
StatusHeld == armed /\ held # 0 => shown = held

\* No thread is inside print_status, and no timer is going to fire.
Quiet == handler = "none" /\ ~timer /\ \A t \in Thread : At(t, "out")

(* When all is quiet the bar shows the last message of print_status, or a newer text *)
(* of dsprintf: none is lost that came while another one was held, in whatever step  *)
(* of a thread the timer fires (zadig.c:165-189).  But for the last timer, if it     *)
(* fired while a thread set it, which leaves the flag without a timer, and for the   *)
(* texts of two threads, if the older one reached the bar last.                      *)
LastMessageShown == Quiet => shown >= printed \/ raced \/ late
================================================================================
