--------------------------- MODULE ProgressDialog ---------------------------
(***************************************************************************)
(* run_with_progress_bar (libwdi_dlg.c): one thread with a window runs a   *)
(* function in a worker thread and, meanwhile, a dialog with a message     *)
(* loop of its own.  The worker posts UM_PROGRESS_STOP when the function   *)
(* is over; a timer gives up on a worker that takes too long.  The two     *)
(* threads share progress_thid, hProgress and progress_arglist without a   *)
(* lock, and the function is install_driver_internal, which excludes other *)
(* calls of itself by its API mutex (module ApiMutex).                     *)
(***************************************************************************)
EXTENDS Naturals, Sequences

CONSTANTS
  MaxOps,  \* bound: how many times run_with_progress_bar is called
  Limit    \* the ticks of the timer after which the dialog gives up

ASSUME ProgressAssumption == MaxOps \in Nat /\ Limit \in Nat

Op == 1..MaxOps  \* a call of run_with_progress_bar, its dialog and its worker
None == 0

VARIABLES
  ui,              \* the window's thread: see UIStates
  op,              \* the latest call
  hProgress,       \* the dialog that is open, or None (INVALID_HANDLE_VALUE)
  parent,          \* the parent window is enabled
  progress_thid,   \* the worker it holds the handle of, or None (-1)
  progress_arglist,\* the call whose arguments it points to
  installation_time,
  queue,           \* the messages posted to the dialog
  quit,            \* what PostQuitMessage was given
  result,          \* result[i]: what call i returned
  worker,          \* worker[i]: where the worker of call i is
  args,            \* args[i]: the call whose arguments worker i works with
  refused,         \* the workers that install_driver_internal answered BUSY
  holders,         \* the workers with a handle on its API mutex
  prompt,          \* a security prompt of Windows is on the screen
  gaveUp           \* history: some dialog has given up on its worker

uiVars == <<ui, op, hProgress, parent, progress_arglist, installation_time, quit, result,
            gaveUp>>
workerVars == <<args, refused, holders>>
vars == <<uiVars, progress_thid, queue, worker, workerVars, prompt>>

UIStates == {"idle",     \* no call in progress
             "loop",     \* the message loop of the dialog
             "starting", \* _beginthread has returned, progress_thid is not assigned
             "killing"}  \* the timer has found that the time is over
WorkerStates == {"none", "created", "called", "inside", "returned", "reset", "ended",
                 "killed"}

\* What a call returns, and a UM_PROGRESS_STOP or WM_QUIT carries: what the worker of call
\* `of` returned, or an error of the dialog.
Outcome == [why : {"worker", "timeout", "resource"}, of : Op \cup {None}]
NoOutcome == [why |-> "none", of |-> None]
TimeOut == [why |-> "timeout", of |-> None]
Resource == [why |-> "resource", of |-> None]

\* A message posted to the dialog, and its wParam.
Message == [code : {"START", "STOP"}, res : Outcome \cup {NoOutcome}]
StartMessage == [code |-> "START", res |-> NoOutcome]

TypeOK ==
  /\ ui \in UIStates
  /\ op \in Op \cup {None}
  /\ hProgress \in Op \cup {None}
  /\ parent \in BOOLEAN
  /\ progress_thid \in Op \cup {None}
  /\ progress_arglist \in Op \cup {None}
  /\ installation_time \in 0..Limit
  /\ queue \in Seq(Message)
  /\ quit \in Outcome \cup {NoOutcome}
  /\ result \in [Op -> Outcome \cup {NoOutcome}]
  /\ worker \in [Op -> WorkerStates]
  /\ args \in [Op -> Op \cup {None}]
  /\ refused \in SUBSET Op
  /\ holders \in SUBSET Op
  /\ prompt \in BOOLEAN
  /\ gaveUp \in BOOLEAN

Init ==
  /\ ui = "idle" /\ op = None
  /\ hProgress = None /\ parent = TRUE
  /\ progress_thid = None /\ progress_arglist = None
  /\ installation_time = 0
  /\ queue = <<>> /\ quit = NoOutcome
  /\ result = [i \in Op |-> NoOutcome]
  /\ worker = [i \in Op |-> "none"]
  /\ args = [i \in Op |-> None]
  /\ refused = {} /\ holders = {}
  /\ prompt = FALSE /\ gaveUp = FALSE

\* Worker w is an operation in progress.
Busy(w) == worker[w] \in {"created", "called", "inside", "returned", "reset"}

----------------------------------------------------------------------------
(* The window's thread.                                                    *)

\* The class or the window of the dialog cannot be had (the mutex has no name, so it is
\* always had).
RunFails ==
  /\ ui = "idle" /\ op < MaxOps
  /\ op' = op + 1
  /\ progress_arglist' = op'
  /\ result' = [result EXCEPT ![op'] = Resource]
  /\ UNCHANGED <<ui, hProgress, parent, progress_thid, installation_time, queue, quit,
                 worker, workerVars, prompt, gaveUp>>

\* CreateWindowEx and its WM_CREATE.
OpenDialog ==
  /\ ui = "idle" /\ op < MaxOps
  /\ ui' = "loop" /\ op' = op + 1
  /\ progress_arglist' = op'
  /\ hProgress' = op' /\ parent' = FALSE
  /\ installation_time' = 0
  /\ queue' = <<StartMessage>>
  /\ UNCHANGED <<progress_thid, quit, result, worker, workerVars, prompt, gaveUp>>

\* GetMessage takes the next posted message.
Received(code) ==
  /\ ui = "loop" /\ queue # <<>>
  /\ Head(queue).code = code

\* DestroyWindow(hProgress), WM_DESTROY: the messages posted to the window go with it.
DestroyDialog == hProgress' = None /\ queue' = <<>>

\* A mutant of CloseDialog: the parent window stays disabled.
CloseDialogOnly(r) ==
  /\ quit' = r
  /\ DestroyDialog
  /\ UNCHANGED parent

\* A mutant of CloseDialog: wParam is not passed on.
CloseDialogAnyhow(r) ==
  /\ parent' = TRUE
  /\ quit' = Resource
  /\ DestroyDialog

\* case UM_PROGRESS_STOP, with r for wParam.
CloseDialog(r) ==
  /\ parent' = TRUE
  /\ quit' = r
  /\ DestroyDialog

\* A mutant of StartWorker: no return after the thread is created, and so the case falls
\* through to UM_PROGRESS_STOP.
StartWorkerFallThrough ==
  /\ Received("START") /\ progress_thid = None
  /\ worker' = [worker EXCEPT ![op] = "created"]
  /\ progress_thid' = op
  /\ CloseDialog(Resource)
  /\ UNCHANGED <<ui, op, progress_arglist, installation_time, result, workerVars, prompt,
                 gaveUp>>

\* case UM_PROGRESS_START: _beginthread creates the worker.
StartWorker ==
  /\ Received("START") /\ progress_thid = None
  /\ worker' = [worker EXCEPT ![op] = "created"]
  /\ ui' = "starting"
  /\ queue' = Tail(queue)
  /\ UNCHANGED <<op, hProgress, parent, progress_thid, progress_arglist, installation_time,
                 quit, result, workerVars, prompt, gaveUp>>

\* A mutant of KeepHandle: the handle of the thread is not kept.
DropHandle ==
  /\ ui = "starting"
  /\ ui' = "loop"
  /\ UNCHANGED <<op, hProgress, parent, progress_thid, progress_arglist, installation_time,
                 queue, quit, result, worker, workerVars, prompt, gaveUp>>

\* progress_thid = what _beginthread returned: the worker may have run meanwhile.
KeepHandle ==
  /\ ui = "starting"
  /\ ui' = "loop"
  /\ progress_thid' = op
  /\ UNCHANGED <<op, hProgress, parent, progress_arglist, installation_time, queue, quit,
                 result, worker, workerVars, prompt, gaveUp>>

\* case UM_PROGRESS_START: another operation is in progress, or there is no thread to be
\* had, and the case falls through to UM_PROGRESS_STOP.
StartFails ==
  /\ Received("START")
  /\ CloseDialog(Resource)
  /\ UNCHANGED <<ui, op, progress_thid, progress_arglist, installation_time, result, worker,
                 workerVars, prompt, gaveUp>>

\* case UM_PROGRESS_STOP, from a worker.
Stop ==
  /\ Received("STOP")
  /\ CloseDialog(Head(queue).res)
  /\ UNCHANGED <<ui, op, progress_thid, progress_arglist, installation_time, result, worker,
                 workerVars, prompt, gaveUp>>

\* case WM_TIMER, which GetMessage takes when nothing else is there: the time counts only
\* while there is no security prompt.
Ticks == ui = "loop" /\ queue = <<>> /\ quit = NoOutcome /\ ~prompt

Tick ==
  /\ Ticks
  /\ installation_time < Limit
  /\ installation_time' = installation_time + 1
  /\ UNCHANGED <<ui, op, hProgress, parent, progress_thid, progress_arglist, queue, quit,
                 result, worker, workerVars, prompt, gaveUp>>

\* The time is over, and progress_thid says that the worker is still there.
TimeIsOver ==
  /\ Ticks
  /\ installation_time = Limit /\ progress_thid # None
  /\ ui' = "killing"
  /\ UNCHANGED <<op, hProgress, parent, progress_thid, progress_arglist, installation_time,
                 queue, quit, result, worker, workerVars, prompt, gaveUp>>

\* OpenThread is given the handle progress_thid as an id: the worker is terminated if the
\* two happen to be equal, and otherwise goes on.
GiveUp ==
  /\ ui = "killing"
  /\ ui' = "loop"
  /\ \/ /\ progress_thid # None /\ Busy(progress_thid)
        /\ worker' = [worker EXCEPT ![progress_thid] = "killed"]
     \/ UNCHANGED worker
  /\ quit' = TimeOut
  /\ DestroyDialog
  /\ gaveUp' = TRUE
  /\ UNCHANGED <<op, parent, progress_thid, progress_arglist, installation_time, result,
                 workerVars, prompt>>

\* GetMessage returns 0 for WM_QUIT, which it takes after the posted messages: the call is
\* over.
Return ==
  /\ ui = "loop" /\ queue = <<>> /\ quit # NoOutcome
  /\ ui' = "idle"
  /\ result' = [result EXCEPT ![op] = quit]
  /\ quit' = NoOutcome
  /\ UNCHANGED <<op, hProgress, parent, progress_thid, progress_arglist, installation_time,
                 queue, worker, workerVars, prompt, gaveUp>>

----------------------------------------------------------------------------
(* The worker: progress_thread and the mutex of install_driver_internal.   *)

\* The worker reads progress_function and progress_arglist.
CallFunction(w) ==
  /\ worker[w] = "created"
  /\ worker' = [worker EXCEPT ![w] = "called"]
  /\ args' = [args EXCEPT ![w] = progress_arglist]
  /\ UNCHANGED <<uiVars, progress_thid, queue, refused, holders, prompt>>

\* MUTEX_START: the object exists while somebody has a handle on it.
Enter(w) ==
  /\ worker[w] = "called"
  /\ IF holders = {}
     THEN /\ worker' = [worker EXCEPT ![w] = "inside"]
          /\ holders' = {w}
          /\ UNCHANGED refused
     ELSE /\ worker' = [worker EXCEPT ![w] = "returned"]
          /\ refused' = refused \cup {w}
          /\ UNCHANGED holders
  /\ UNCHANGED <<uiVars, progress_thid, queue, args, prompt>>

\* A mutant of Leave: a return that skips CloseHandle(mutex).
LeaveOpen(w) ==
  /\ worker[w] = "inside"
  /\ worker' = [worker EXCEPT ![w] = "returned"]
  /\ UNCHANGED <<uiVars, progress_thid, queue, workerVars, prompt>>

\* install_driver_internal returns.
Leave(w) ==
  /\ worker[w] = "inside"
  /\ worker' = [worker EXCEPT ![w] = "returned"]
  /\ holders' = holders \ {w}
  /\ UNCHANGED <<uiVars, progress_thid, queue, args, refused, prompt>>

ResetThid(w) ==
  /\ worker[w] = "returned"
  /\ worker' = [worker EXCEPT ![w] = "reset"]
  /\ progress_thid' = None
  /\ UNCHANGED <<uiVars, queue, workerVars, prompt>>

StopMessage(w) == [code |-> "STOP", res |-> [why |-> "worker", of |-> w]]

\* PostMessage(hProgress, UM_PROGRESS_STOP): lost when the dialog is no longer there.
PostStop(w) ==
  /\ worker[w] = "reset"
  /\ worker' = [worker EXCEPT ![w] = "ended"]
  /\ queue' = IF hProgress = None THEN queue ELSE Append(queue, StopMessage(w))
  /\ UNCHANGED <<uiVars, progress_thid, workerVars, prompt>>

\* Windows shows a security prompt, or the user answers it.
TogglePrompt ==
  /\ prompt' = ~prompt
  /\ UNCHANGED <<uiVars, progress_thid, queue, worker, workerVars>>

----------------------------------------------------------------------------
\* What the window's thread does once it is in a call.
LoopStep ==
  \/ StartWorker \/ KeepHandle \/ StartFails \/ Stop
  \/ Tick \/ TimeIsOver \/ GiveUp \/ Return

\* What a worker does outside the function it was given.
ThreadStep(w) == CallFunction(w) \/ Enter(w) \/ ResetThid(w) \/ PostStop(w)

Next ==
  \/ RunFails \/ OpenDialog \/ LoopStep
  \/ \E w \in Op : ThreadStep(w) \/ Leave(w)
  \/ TogglePrompt

Spec == Init /\ [][Next]_vars

\* Both threads are scheduled and the timer ticks; the function may never return.
FairSpec == Spec /\ WF_vars(LoopStep) /\ \A w \in Op : WF_vars(ThreadStep(w))

----------------------------------------------------------------------------
\* As long as no dialog has given up, a call returns what its own worker returned, or an
\* error when it never had a worker: no message of another operation closes it.
ResultIsOwn ==
  ~gaveUp => \A i \in Op :
               \/ result[i] \in {NoOutcome, [why |-> "worker", of |-> i]}
               \/ result[i] = Resource /\ worker[i] = "none"

\* The arguments are on the stack of the caller (wdi_install_driver): as long as no dialog
\* has given up, a worker only works with those of its own call, and that has not returned.
ArgumentsAlive ==
  ~gaveUp => \A w \in Op : worker[w] \in {"called", "inside"} =>
                             args[w] = w /\ op = w /\ ui # "idle"

\* The parent window is enabled again when a call returns, unless it gave up.
ParentEnabled == ui = "idle" /\ ~gaveUp => parent

\* Installs in a row never refuse one another: only a worker somebody gave up on is met.
NotRefused == refused # {} => gaveUp

\* The loop of a call never waits for nothing, also when dialogs have given up and their
\* workers go on: it has been told to quit, a message is there, progress_thid lets the
\* timer give up, or a worker is about to post its end.
CallCanEnd ==
  ui = "loop" =>
    \/ quit # NoOutcome \/ queue # <<>> \/ progress_thid # None
    \/ \E w \in Op : worker[w] = "reset"

\* A call returns: at the end of its worker, or else by the timer, however long the worker
\* stays in its function, once there are no more security prompts.
CallReturns == <>[]~prompt => (ui # "idle" ~> ui = "idle")

\* libwdi_dlg.c:267, "another operation is in progress": when UM_PROGRESS_START says so,
\* there is one (even if no dialog has ever given up on a worker).
RefusedForCause ==
  ~gaveUp /\ Received("START") /\ progress_thid # None => \E w \in Op : Busy(w)
=============================================================================
