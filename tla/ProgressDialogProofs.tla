------------------------ MODULE ProgressDialogProofs ------------------------
(***************************************************************************)
(* What holds of ProgressDialog for any number of calls and any limit: its *)
(* types, and, until a dialog gives up on its worker, that a call returns  *)
(* the result of its own worker, whose arguments outlive it, and leaves    *)
(* the parent window enabled and the API mutex free.                       *)
(***************************************************************************)
EXTENDS ProgressDialog, SequenceTheorems, TLAPS

Own(w) == [why |-> "worker", of |-> w]

\* The dialog of the latest call is open, and its worker is at work or has said that it is
\* done.
Working ==
  /\ hProgress = op /\ quit = NoOutcome
  /\ \/ queue = <<>> /\ Busy(op)
     \/ queue = <<StopMessage(op)>> /\ worker[op] = "ended"

\* The dialog is open and has no worker yet.
Opened ==
  /\ hProgress = op /\ quit = NoOutcome
  /\ queue = <<StartMessage>> /\ worker[op] = "none"

\* The dialog is closed and its loop is about to end.
Closed ==
  /\ parent /\ hProgress = None /\ queue = <<>>
  /\ \/ quit = Own(op) /\ worker[op] = "ended"
     \/ quit = Resource /\ worker[op] = "none"

\* Between two calls.
Resting ==
  /\ parent /\ hProgress = None /\ queue = <<>> /\ quit = NoOutcome
  /\ \A w \in Op : worker[w] \in {"none", "ended"}

\* How the two threads stand to each other as long as no dialog has given up: only the
\* worker of the latest call may be at work, and the dialog's state says whether it is.
Calm ==
  /\ \A w \in Op : w > op => worker[w] = "none" /\ result[w] = NoOutcome
  /\ \A w \in Op : w # op => worker[w] \in {"none", "ended"}
  /\ \A w \in Op : worker[w] \in {"called", "inside"} => args[w] = w
  /\ refused = {}
  /\ \A w \in holders : worker[w] = "inside"
  /\ ui = "idle" => Resting
  /\ ui # "idle" => op \in Op /\ result[op] = NoOutcome /\ progress_arglist = op
  /\ ui = "loop" => Opened \/ Working \/ Closed
  /\ ui \in {"starting", "killing"} => Working
  /\ \A i \in Op : \/ result[i] \in {NoOutcome, Own(i)}
                   \/ result[i] = Resource /\ worker[i] = "none"

DialogInv == TypeOK /\ (~gaveUp => Calm)

\* The definitions that say where the two threads are.
USE DEF Op, None

\* What the dialog stores and posts is of the types it declares.
LEMMA MessagesTyped ==
  /\ {NoOutcome, Resource, TimeOut} \subseteq Outcome \cup {NoOutcome}
  /\ <<>> \in Seq(Message) /\ <<StartMessage>> \in Seq(Message)
  /\ \A w \in Op : StopMessage(w) \in Message
<1>1. /\ {NoOutcome, Resource, TimeOut} \subseteq Outcome \cup {NoOutcome}
      /\ StartMessage \in Message
      /\ \A w \in Op : StopMessage(w) \in Message
  BY DEF Resource, TimeOut, Outcome, NoOutcome, StartMessage, StopMessage, Message
<1>. QED
  BY <1>1

\* Taking a posted message leaves posted messages, and it has an outcome.
LEMMA ReceivedTyped ==
  ASSUME NEW code, Received(code), queue \in Seq(Message)
  PROVE  Tail(queue) \in Seq(Message) /\ Head(queue).res \in Outcome \cup {NoOutcome}
<1>1. Head(queue) \in Message /\ Tail(queue) \in Seq(Message)
  BY HeadTailProperties DEF Received
<1>. QED
  BY <1>1 DEF Message

\* The types are kept by every step.
LEMMA TypeStep == TypeOK /\ [Next]_vars => TypeOK'
<1>. USE ProgressAssumption, MessagesTyped
<1>. SUFFICES ASSUME TypeOK, [Next]_vars PROVE TypeOK'
  OBVIOUS
<1>. USE DEF TypeOK, UIStates, WorkerStates, workerVars, uiVars
<1>1. CASE RunFails
  BY <1>1 DEF RunFails
<1>2. CASE OpenDialog
  <2>1. op' \in Op
    BY <1>2 DEF OpenDialog
  <2>2. installation_time' \in 0..Limit /\ queue' \in Seq(Message)
    BY <1>2 DEF OpenDialog
  <2>. QED
    BY <1>2, <2>1, <2>2 DEF OpenDialog
<1>3. CASE StartWorker
  BY <1>3, ReceivedTyped DEF StartWorker
<1>4. CASE KeepHandle
  BY <1>4 DEF KeepHandle
<1>5. CASE StartFails
  BY <1>5 DEF StartFails, CloseDialog, DestroyDialog
<1>6. CASE Stop
  BY <1>6, ReceivedTyped DEF Stop, CloseDialog, DestroyDialog
<1>7. CASE Tick
  BY <1>7 DEF Tick
<1>8. CASE TimeIsOver
  BY <1>8 DEF TimeIsOver
<1>9. CASE GiveUp
  BY <1>9 DEF GiveUp, DestroyDialog
<1>10. CASE Return
  BY <1>10 DEF Return
<1>11. ASSUME NEW w \in Op, CallFunction(w) PROVE TypeOK'
  BY <1>11 DEF CallFunction
<1>12. ASSUME NEW w \in Op, Enter(w) PROVE TypeOK'
  <2>1. /\ worker' \in [Op -> WorkerStates] /\ holders' \in SUBSET Op /\ refused' \in SUBSET Op
    BY <1>12 DEF Enter
  <2>. QED
    BY <1>12, <2>1 DEF Enter
<1>13. ASSUME NEW w \in Op, Leave(w) PROVE TypeOK'
  BY <1>13 DEF Leave
<1>14. ASSUME NEW w \in Op, ResetThid(w) PROVE TypeOK'
  BY <1>14 DEF ResetThid
<1>15. ASSUME NEW w \in Op, PostStop(w) PROVE TypeOK'
  <2>1. Append(queue, StopMessage(w)) \in Seq(Message)
    BY AppendProperties
  <2>. QED
    BY <1>15, <2>1 DEF PostStop
<1>16. CASE TogglePrompt
  BY <1>16 DEF TogglePrompt
<1>17. CASE UNCHANGED vars
  BY <1>17 DEF vars
<1>. QED
  BY <1>1, <1>2, <1>3, <1>4, <1>5, <1>6, <1>7, <1>8, <1>9, <1>10, <1>11, <1>12, <1>13,
     <1>14, <1>15, <1>16, <1>17 DEF Next, LoopStep, ThreadStep

\* As long as nobody has given up, what the two threads do keeps them in step.
LEMMA CalmStep == TypeOK /\ Calm /\ ~gaveUp' /\ [Next]_vars => Calm'
<1>. USE ProgressAssumption
<1>. SUFFICES ASSUME TypeOK, Calm, ~gaveUp', [Next]_vars PROVE Calm'
  OBVIOUS
<1>. USE DEF Calm, Resting, Opened, Working, Closed, Busy, Own, NoOutcome, Resource,
             StartMessage, StopMessage, uiVars, workerVars
<1>1. CASE RunFails
  BY <1>1 DEF RunFails, TypeOK
<1>2. CASE OpenDialog
  BY <1>2 DEF OpenDialog, TypeOK
<1>3. CASE StartWorker
  <2>1. Opened /\ op \in Op
    BY <1>3 DEF StartWorker, Received, TypeOK
  <2>2. Working'
    BY <1>3, <2>1 DEF StartWorker, TypeOK
  <2>. QED
    BY <1>3, <2>1, <2>2 DEF StartWorker, TypeOK
<1>4. CASE KeepHandle
  <2>1. Working /\ op \in Op /\ ui' = "loop"
    BY <1>4 DEF KeepHandle
  <2>2. Working'
    BY <1>4, <2>1 DEF KeepHandle, TypeOK
  <2>. QED
    BY <1>4, <2>1, <2>2 DEF KeepHandle, TypeOK
<1>5. CASE StartFails
  BY <1>5 DEF StartFails, Received, CloseDialog, DestroyDialog, TypeOK
<1>6. CASE Stop
  BY <1>6 DEF Stop, Received, CloseDialog, DestroyDialog, TypeOK
<1>7. CASE Tick
  BY <1>7 DEF Tick, Ticks, TypeOK
<1>8. CASE TimeIsOver
  BY <1>8 DEF TimeIsOver, Ticks, TypeOK
<1>9. ~GiveUp
  BY DEF GiveUp
<1>10. CASE Return
  BY <1>10 DEF Return, TypeOK
<1>11. ASSUME NEW w \in Op, CallFunction(w) PROVE Calm'
  BY <1>11 DEF CallFunction, TypeOK
<1>12. ASSUME NEW w \in Op, Enter(w) PROVE Calm'
  <2>1. /\ ui \in {"loop", "starting", "killing"} /\ w = op /\ holders = {}
        /\ Working
    BY <1>12 DEF Enter, TypeOK, UIStates
  <2>2. /\ worker' = [worker EXCEPT ![op] = "inside"] /\ holders' = {op}
        /\ UNCHANGED <<uiVars, progress_thid, queue, args, refused>>
    BY <1>12, <2>1 DEF Enter
  <2>3. /\ \A v \in Op : v # op => worker'[v] = worker[v]
        /\ worker'[op] = "inside" /\ worker[op] = "called"
    BY <1>12, <2>1, <2>2 DEF TypeOK, Enter
  <2>4. Working'
    BY <2>1, <2>2, <2>3
  <2>. QED
    BY <2>1, <2>2, <2>3, <2>4 DEF TypeOK
<1>13. ASSUME NEW w \in Op, Leave(w) PROVE Calm'
  BY <1>13 DEF Leave, TypeOK
<1>14. ASSUME NEW w \in Op, ResetThid(w) PROVE Calm'
  BY <1>14 DEF ResetThid, TypeOK
<1>15. ASSUME NEW w \in Op, PostStop(w) PROVE Calm'
  <2>1. /\ ui \in {"loop", "starting", "killing"} /\ w = op
        /\ hProgress = op /\ quit = NoOutcome /\ queue = <<>>
    BY <1>15 DEF PostStop, TypeOK, UIStates
  <2>2. /\ worker' = [worker EXCEPT ![op] = "ended"]
        /\ queue' = <<StopMessage(op)>>
        /\ UNCHANGED <<uiVars, workerVars>>
    BY <1>15, <2>1 DEF PostStop, TypeOK
  <2>3. Working'
    BY <2>1, <2>2 DEF TypeOK
  <2>4. /\ \A v \in Op : v # op => worker'[v] = worker[v]
        /\ worker'[op] = "ended" /\ worker[op] = "reset"
    BY <1>15, <2>1, <2>2 DEF TypeOK, PostStop
  <2>5. ui # "idle" /\ ui' = ui
    BY <2>1, <2>2
  <2>. QED
    BY <2>1, <2>2, <2>3, <2>4, <2>5 DEF TypeOK
<1>16. CASE TogglePrompt
  BY <1>16 DEF TogglePrompt, TypeOK
<1>17. CASE UNCHANGED vars
  BY <1>17 DEF vars, TypeOK
<1>. QED
  BY <1>1, <1>2, <1>3, <1>4, <1>5, <1>6, <1>7, <1>8, <1>9, <1>10, <1>11, <1>12, <1>13,
     <1>14, <1>15, <1>16, <1>17 DEF Next, LoopStep, ThreadStep

\* The invariant holds of the initial state.
LEMMA DialogInvInit == Init => DialogInv
<1>. SUFFICES ASSUME Init PROVE DialogInv
  OBVIOUS
<1>1. TypeOK
  <2>1. /\ result \in [Op -> Outcome \cup {NoOutcome}]
        /\ worker \in [Op -> WorkerStates]
        /\ args \in [Op -> Op \cup {None}]
    BY DEF Init, WorkerStates
  <2>2. queue \in Seq(Message)
    BY MessagesTyped DEF Init
  <2>3. /\ quit \in Outcome \cup {NoOutcome}
        /\ installation_time \in 0..Limit
    BY ProgressAssumption DEF Init
  <2>. QED
    BY <2>1, <2>2, <2>3 DEF Init, TypeOK, UIStates
<1>2. Calm
  BY ProgressAssumption DEF Init, Calm, Resting
<1>. QED
  BY <1>1, <1>2 DEF DialogInv

\* Nobody takes back that a dialog has given up.
LEMMA DialogInvStep == DialogInv /\ [Next]_vars => DialogInv'
<1>1. TypeOK /\ [Next]_vars /\ gaveUp => gaveUp'
  BY DEF TypeOK, Next, LoopStep, ThreadStep, RunFails, OpenDialog, StartWorker, KeepHandle,
         StartFails, Stop, Tick, TimeIsOver, GiveUp, Return, CallFunction, Enter, Leave,
         ResetThid, PostStop, TogglePrompt, vars, uiVars
<1>. QED
  BY <1>1, TypeStep, CalmStep DEF DialogInv

\* The variables of the dialog and its workers keep their types.
THEOREM DialogTypeCorrect == Spec => []TypeOK
  BY DialogInvInit, DialogInvStep, PTL DEF Spec, DialogInv

\* Until a dialog gives up, every call returns the result of its own worker.
THEOREM DialogResultIsOwn == Spec => []ResultIsOwn
<1>1. DialogInv => ResultIsOwn
  BY DEF DialogInv, Calm, ResultIsOwn, Own
<1>. QED
  BY <1>1, DialogInvInit, DialogInvStep, PTL DEF Spec

\* Until a dialog gives up, the arguments of a worker are those of a call in progress.
THEOREM DialogArgumentsAlive == Spec => []ArgumentsAlive
<1>1. DialogInv => ArgumentsAlive
  BY DEF DialogInv, Calm, ArgumentsAlive, Resting
<1>. QED
  BY <1>1, DialogInvInit, DialogInvStep, PTL DEF Spec

\* A call that does not give up leaves the parent window enabled.
THEOREM DialogParentEnabled == Spec => []ParentEnabled
<1>1. DialogInv => ParentEnabled
  BY DEF DialogInv, Calm, ParentEnabled, Resting
<1>. QED
  BY <1>1, DialogInvInit, DialogInvStep, PTL DEF Spec

\* Without giving up, no worker finds the API mutex taken.
THEOREM DialogNotRefused == Spec => []NotRefused
<1>1. DialogInv => NotRefused
  BY DEF DialogInv, Calm, NotRefused
<1>. QED
  BY <1>1, DialogInvInit, DialogInvStep, PTL DEF Spec

----------------------------------------------------------------------------
(* Whatever dialogs have given up.                                          *)

\* What a call returns is not nothing, and if it is that of a worker, this one has ended
\* and was started by the call or by one before.
Given(r, i, ended) == r # NoOutcome /\ (r.why = "worker" => r.of \in (1..i) \cap ended)
Ended == {w \in Op : worker[w] = "ended"}

\* How far the window's thread is: while it has not been told to quit, its dialog is open.
\* No worker is ahead of it, nor what one posts or a call returns.
InLoop ==
  /\ ui # "idle" => op \in Op /\ (quit = NoOutcome => hProgress = op)
  /\ \A w \in Op : worker[w] # "none" => w <= op
  /\ \A k \in DOMAIN queue : queue[k].code = "STOP" => Given(queue[k].res, op, Ended)
  /\ \A k \in DOMAIN queue :
       queue[k].code = "START" => k = 1 /\ ui = "loop" /\ worker[op] = "none"
  /\ quit # NoOutcome => Given(quit, op, Ended)

\* Every result is of a worker that has ended, of the call or one before, or an error.
ResultsGiven == \A i \in Op : result[i] # NoOutcome => Given(result[i], i, Ended)

\* One worker at most is inside the function.
OneInside == \A w \in Op : worker[w] = "inside" => holders = {w}

LoopInv == TypeOK /\ InLoop /\ ResultsGiven /\ OneInside /\ CallCanEnd

\* A worker is created by the latest call, and its end is the last of it.
LEMMA WorkersStep ==
  ASSUME TypeOK, InLoop, [Next]_vars
  PROVE  \A w \in Op : /\ worker[w] = "ended" => worker'[w] = "ended"
                       /\ worker[w] = "none" /\ worker'[w] # "none" => w = op
                       /\ worker'[w] = "inside" => worker[w] \in {"inside", "called"}
<1>. USE DEF TypeOK
<1>1. CASE StartWorker
  <2>1. queue # <<>> /\ Head(queue) = queue[1] /\ 1 \in DOMAIN queue /\ op \in Op
    BY <1>1 DEF StartWorker, InLoop, Received
  <2>2. worker[op] = "none"
    BY <1>1, <2>1 DEF StartWorker, InLoop, Received
  <2>. QED
    BY <1>1, <2>1, <2>2 DEF StartWorker
<1>2. CASE GiveUp
  BY <1>2 DEF GiveUp, Busy
<1>3. ASSUME NEW v \in Op, ThreadStep(v) \/ Leave(v)
      PROVE  \A w \in Op : /\ worker[w] = "ended" => worker'[w] = "ended"
                           /\ worker[w] = "none" => worker'[w] = "none"
                           /\ worker'[w] = "inside" => worker[w] \in {"inside", "called"}
  BY <1>3 DEF ThreadStep, CallFunction, Enter, Leave, ResetThid, PostStop
<1>4. CASE UNCHANGED worker
  BY <1>4
<1>5. \/ StartWorker \/ GiveUp \/ (\E v \in Op : ThreadStep(v) \/ Leave(v)) \/ UNCHANGED worker
  BY DEF Next, LoopStep, RunFails, OpenDialog, KeepHandle, StartFails, Stop, Tick, TimeIsOver,
     Return, TogglePrompt, vars
<1>. QED
  BY <1>1, <1>2, <1>3, <1>4, <1>5

\* What has been given stays so.
LEMMA GivenStays ==
  ASSUME NEW r \in Outcome, NEW i \in Nat, NEW j \in Nat, NEW before, NEW after,
         i <= j, before \subseteq after, Given(r, i, before)
  PROVE  Given(r, j, after)
  BY DEF Given, Outcome

\* Every step keeps it.
LEMMA LoopInvStep == LoopInv /\ [Next]_vars => LoopInv'
<1>. SUFFICES ASSUME LoopInv, [Next]_vars PROVE LoopInv'
  OBVIOUS
<1>1. TypeOK /\ TypeOK'
  BY TypeStep DEF LoopInv
<1>2. op \in Nat /\ op' \in Nat /\ op <= op' /\ (ui # "idle" => op' = op)
  BY <1>1, ProgressAssumption DEF TypeOK, Next, LoopStep, ThreadStep, RunFails, OpenDialog,
     StartWorker, KeepHandle, StartFails, Stop, Tick, TimeIsOver, GiveUp, Return, CallFunction,
     Enter, Leave, ResetThid, PostStop, TogglePrompt, vars, uiVars
<1>3. Ended \subseteq Ended'
  BY WorkersStep DEF LoopInv, Ended
<1>4. \A w \in Op : worker'[w] # "none" => w <= op'
  <2>1. /\ \A w \in Op : worker[w] # "none" => w <= op
        /\ \A w \in Op : worker[w] = "none" /\ worker'[w] # "none" => w = op
    BY <1>1, WorkersStep DEF LoopInv, InLoop
  <2>2. \A w \in Op : w \in Nat
    BY ProgressAssumption
  <2>. QED
    BY <1>2, <2>1, <2>2
<1>5. /\ Resource \in Outcome /\ TimeOut \in Outcome
      /\ \A i \in Nat : Given(Resource, i, Ended') /\ Given(TimeOut, i, Ended')
  BY DEF Resource, TimeOut, Outcome, NoOutcome, Given
<1>6. ui' # "idle" => op' \in Op /\ (quit' = NoOutcome => hProgress' = op')
  <2>. USE DEF LoopInv, InLoop, TypeOK
  <2>1. CASE OpenDialog
    BY <1>2, <2>1, ProgressAssumption DEF OpenDialog
  <2>2. CASE StartFails \/ Stop
    <3>1. quit' # NoOutcome /\ UNCHANGED <<ui, op>>
      BY <2>2, <1>5 DEF StartFails, Stop, CloseDialog, Resource, NoOutcome, Received, Given
    <3>. QED
      BY <1>2, <3>1
  <2>3. CASE GiveUp
    BY <1>2, <2>3 DEF GiveUp, TimeOut, NoOutcome
  <2>4. CASE RunFails \/ Return
    BY <1>2, <2>4 DEF RunFails, Return
  <2>5. CASE UNCHANGED <<ui, op, quit, hProgress>>
    BY <2>5
  <2>6. CASE StartWorker \/ KeepHandle \/ TimeIsOver
    BY <2>6 DEF StartWorker, KeepHandle, TimeIsOver, Received, Ticks
  <2>. QED
    BY <2>1, <2>2, <2>3, <2>4, <2>5, <2>6 DEF Next, LoopStep, ThreadStep, Tick, CallFunction,
       Enter, Leave, ResetThid, PostStop, TogglePrompt, vars, uiVars
<1>7. \A k \in DOMAIN queue' : queue'[k].code = "STOP" => Given(queue'[k].res, op', Ended')
  <2>. USE DEF LoopInv, InLoop, TypeOK
  <2>1. \A k \in DOMAIN queue : queue[k].code = "STOP" =>
          queue[k].res \in Outcome /\ Given(queue[k].res, op', Ended')
    <3>1. \A k \in DOMAIN queue : queue[k].code = "STOP" =>
            queue[k] \in Message /\ Given(queue[k].res, op, Ended)
      OBVIOUS
    <3>2. \A k \in DOMAIN queue : queue[k].code = "STOP" =>
            queue[k].res \in Outcome /\ Given(queue[k].res, op, Ended)
      BY <3>1 DEF Message, Given
    <3>. QED
      BY <1>2, <1>3, <3>2, GivenStays
  <2>2. CASE UNCHANGED queue
    BY <2>1, <2>2
  <2>3. CASE queue' = <<>> \/ queue' = <<StartMessage>>
    BY <2>3 DEF StartMessage
  <2>4. CASE queue # <<>> /\ queue' = Tail(queue)
    <3>1. Len(queue) \in Nat \ {0} /\ DOMAIN queue' = 1..(Len(queue) - 1)
          /\ \A k \in DOMAIN queue' : queue'[k] = queue[k + 1] /\ k + 1 \in DOMAIN queue
      BY <2>4
    <3>. QED
      BY <2>1, <3>1
  <2>5. ASSUME NEW w \in Op, PostStop(w), hProgress # None
        PROVE  \A k \in DOMAIN queue' : queue'[k].code = "STOP" => Given(queue'[k].res, op', Ended')
    <3>1. queue' = Append(queue, StopMessage(w)) /\ worker'[w] = "ended" /\ w <= op'
      <4>1. queue' = Append(queue, StopMessage(w)) /\ worker' = [worker EXCEPT ![w] = "ended"]
            /\ op' = op /\ worker[w] = "reset"
        BY <2>5 DEF PostStop, uiVars
      <4>. QED
        BY <1>4, <4>1
    <3>2. Given(StopMessage(w).res, op', Ended')
      BY <3>1, <1>2 DEF Given, StopMessage, NoOutcome, Ended
    <3>3. \A k \in DOMAIN queue' : \/ k \in DOMAIN queue /\ queue'[k] = queue[k]
                                   \/ queue'[k] = StopMessage(w)
      BY <3>1
    <3>. QED
      BY <2>1, <3>2, <3>3
  <2>6. \/ UNCHANGED queue \/ queue' = <<>> \/ queue' = <<StartMessage>>
        \/ queue # <<>> /\ queue' = Tail(queue)
        \/ \E w \in Op : PostStop(w) /\ hProgress # None
    BY DEF Next, LoopStep, ThreadStep, RunFails, OpenDialog, StartWorker, KeepHandle,
       StartFails, Stop, Tick, TimeIsOver, GiveUp, Return, CallFunction, Enter, Leave,
       ResetThid, PostStop, TogglePrompt, Received, CloseDialog, DestroyDialog, vars
  <2>. QED
    BY <2>2, <2>3, <2>4, <2>5, <2>6
<1>8. quit' # NoOutcome => Given(quit', op', Ended')
  <2>. USE DEF LoopInv, InLoop, TypeOK
  <2>1. CASE UNCHANGED quit
    BY <1>2, <1>3, <2>1, GivenStays
  <2>2. CASE quit' \in {NoOutcome, Resource, TimeOut}
    BY <1>2, <1>5, <2>2
  <2>3. CASE Stop
    <3>1. Head(queue) = queue[1] /\ 1 \in DOMAIN queue /\ Head(queue) \in Message
      BY <2>3 DEF Stop, Received
    <3>2. Given(Head(queue).res, op, Ended) /\ Head(queue).res \in Outcome
      BY <2>3, <3>1 DEF Stop, Received, Message, Given
    <3>. QED
      BY <1>2, <1>3, <2>3, <3>2, GivenStays DEF Stop, CloseDialog
  <2>. QED
    BY <2>1, <2>2, <2>3 DEF Next, LoopStep, ThreadStep, RunFails, OpenDialog, StartWorker,
       KeepHandle, StartFails, Tick, TimeIsOver, GiveUp, Return, CallFunction, Enter, Leave,
       ResetThid, PostStop, TogglePrompt, CloseDialog, vars, uiVars
<1>9. \A k \in DOMAIN queue' :
          queue'[k].code = "START" => k = 1 /\ ui' = "loop" /\ worker'[op'] = "none"
  <2>. USE DEF LoopInv, InLoop, TypeOK
  <2>1. CASE OpenDialog
    <3>1. op' \in Op /\ op' = op + 1 /\ queue' = <<StartMessage>> /\ ui' = "loop"
          /\ worker' = worker
      BY <2>1, ProgressAssumption DEF OpenDialog
    <3>2. worker[op'] = "none"
      BY <1>2, <3>1
    <3>. QED
      BY <3>1, <3>2
  <2>2. CASE queue' = <<>>
    BY <2>2
  <2>3. CASE queue # <<>> /\ queue' = Tail(queue)
    <3>1. Len(queue) \in Nat \ {0} /\ DOMAIN queue' = 1..(Len(queue) - 1)
          /\ \A k \in DOMAIN queue' : queue'[k] = queue[k + 1] /\ k + 1 \in DOMAIN queue
      BY <2>3
    <3>. QED
      BY <3>1
  <2>4. CASE UNCHANGED <<queue, ui, op, worker>>
    BY <2>4
  <2>5. ASSUME NEW v \in Op, ThreadStep(v) \/ Leave(v)
        PROVE  \A k \in DOMAIN queue' :
                 queue'[k].code = "START" => k = 1 /\ ui' = "loop" /\ worker'[op'] = "none"
    <3>1. /\ \A w \in Op : worker[w] = "none" => worker'[w] = "none"
          /\ UNCHANGED <<ui, op>>
      BY <2>5 DEF ThreadStep, CallFunction, Enter, Leave, ResetThid, PostStop, uiVars
    <3>2. UNCHANGED queue \/ queue' = Append(queue, StopMessage(v))
      BY <2>5 DEF ThreadStep, CallFunction, Enter, Leave, ResetThid, PostStop
    <3>3. \A k \in DOMAIN queue' :
            (k \in DOMAIN queue /\ queue'[k] = queue[k]) \/ queue'[k] = StopMessage(v)
      <4>1. CASE UNCHANGED queue
        BY <4>1
      <4>2. CASE queue' = Append(queue, StopMessage(v))
        BY <4>2
      <4>. QED
        BY <3>2, <4>1, <4>2
    <3>4. StopMessage(v).code # "START"
      BY DEF StopMessage
    <3>. QED
      BY <3>1, <3>3, <3>4
  <2>6. CASE ui # "loop" /\ UNCHANGED queue
    BY <2>6
  <2>7. CASE queue = <<>> /\ UNCHANGED queue
    BY <2>7
  <2>. QED
    BY <2>1, <2>2, <2>3, <2>4, <2>5, <2>6, <2>7 DEF Next, LoopStep, RunFails, StartWorker,
       KeepHandle, StartFails, Stop, Tick, TimeIsOver, GiveUp, Return, TogglePrompt, Received,
       CloseDialog, DestroyDialog, Ticks, vars, uiVars
<1>10. InLoop'
  BY <1>4, <1>6, <1>7, <1>8, <1>9 DEF InLoop
<1>11. ResultsGiven'
  <2>. USE DEF LoopInv, InLoop, ResultsGiven, TypeOK
  <2>1. \A i \in Op : result[i] # NoOutcome => Given(result[i], i, Ended')
    BY <1>3, GivenStays
  <2>2. CASE UNCHANGED result
    BY <2>1, <2>2
  <2>3. CASE RunFails
    BY <1>2, <1>5, <2>1, <2>3 DEF RunFails
  <2>4. CASE Return
    <3>1. Given(quit, op, Ended') /\ op \in Op
      BY <1>2, <1>3, <2>4, GivenStays DEF Return
    <3>. QED
      BY <2>1, <2>4, <3>1 DEF Return
  <2>. QED
    BY <2>2, <2>3, <2>4 DEF Next, LoopStep, ThreadStep, OpenDialog, StartWorker, KeepHandle,
       StartFails, Stop, Tick, TimeIsOver, GiveUp, CallFunction, Enter, Leave, ResetThid,
       PostStop, TogglePrompt, vars, uiVars
<1>12. OneInside'
  <2>. USE DEF LoopInv, OneInside, TypeOK
  <2>1. CASE UNCHANGED holders /\ ~\E w \in Op : Enter(w)
    <3>1. \A w \in Op : worker'[w] = "inside" => worker[w] = "inside"
      BY <2>1, WorkersStep DEF Next, LoopStep, ThreadStep, RunFails, OpenDialog, StartWorker,
         KeepHandle, StartFails, Stop, Tick, TimeIsOver, GiveUp, Return, CallFunction, Leave,
         ResetThid, PostStop, TogglePrompt, vars
    <3>. QED
      BY <2>1, <3>1
  <2>2. ASSUME NEW w \in Op, Enter(w) PROVE OneInside'
    BY <2>2 DEF Enter
  <2>3. ASSUME NEW w \in Op, Leave(w) PROVE OneInside'
    BY <2>3 DEF Leave
  <2>. QED
    BY <2>1, <2>2, <2>3 DEF Next, LoopStep, ThreadStep, RunFails, OpenDialog, StartWorker,
       KeepHandle, StartFails, Stop, Tick, TimeIsOver, GiveUp, Return, CallFunction,
       ResetThid, PostStop, TogglePrompt, vars, workerVars
<1>13. CallCanEnd'
  <2>. USE DEF LoopInv, InLoop, CallCanEnd, TypeOK
  <2>1. CASE OpenDialog
    BY <2>1 DEF OpenDialog
  <2>2. CASE KeepHandle
    BY <2>2 DEF KeepHandle
  <2>3. CASE StartFails \/ Stop
    <3>1. quit' # NoOutcome
      BY <2>3, <1>5 DEF StartFails, Stop, CloseDialog, Resource, NoOutcome, Received, Given
    <3>. QED
      BY <3>1
  <2>4. CASE GiveUp
    BY <2>4 DEF GiveUp, TimeOut, NoOutcome
  <2>5. CASE RunFails \/ StartWorker \/ TimeIsOver \/ Return
    BY <2>5 DEF RunFails, StartWorker, TimeIsOver, Return
  <2>6. ASSUME NEW w \in Op, ResetThid(w) PROVE CallCanEnd'
    BY <2>6 DEF ResetThid
  <2>7. ASSUME NEW w \in Op, PostStop(w) PROVE CallCanEnd'
    <3>1. CASE ui = "loop" /\ quit = NoOutcome
      <4>1. hProgress # None
        BY <3>1
      <4>. QED
        BY <2>7, <4>1 DEF PostStop
    <3>2. CASE ~(ui = "loop" /\ quit = NoOutcome)
      BY <2>7, <3>2 DEF PostStop, uiVars
    <3>. QED
      BY <3>1, <3>2
  <2>8. ASSUME NEW w \in Op, CallFunction(w) \/ Enter(w) \/ Leave(w) PROVE CallCanEnd'
    BY <2>8 DEF CallFunction, Enter, Leave, uiVars
  <2>9. CASE Tick \/ TogglePrompt \/ UNCHANGED vars
    BY <2>9 DEF Tick, TogglePrompt, vars, uiVars
  <2>. QED
    BY <2>1, <2>2, <2>3, <2>4, <2>5, <2>6, <2>7, <2>8, <2>9 DEF Next, LoopStep, ThreadStep
<1>. QED
  BY <1>1, <1>10, <1>11, <1>12, <1>13 DEF LoopInv

\* It holds from the beginning on.
LEMMA LoopInvariant == Spec => []LoopInv
<1>1. Init => LoopInv
  <2>1. Init => InLoop /\ ResultsGiven /\ OneInside /\ CallCanEnd
    BY DEF Init, InLoop, ResultsGiven, OneInside, CallCanEnd
  <2>. QED
    BY <2>1, DialogInvInit DEF DialogInv, LoopInv
<1>. QED
  BY <1>1, LoopInvStep, PTL DEF Spec

\* The loop of a call never waits for nothing, also after dialogs have given up.
THEOREM DialogCanEnd == Spec => []CallCanEnd
  BY LoopInvariant, PTL DEF LoopInv

\* Whatever dialogs have given up, a call returns what a worker of its own or of an earlier
\* call has returned, or an error: it is never told of a later one, nor of one that goes on.
THEOREM ResultsAreOfThePast == Spec => []ResultsGiven
  BY LoopInvariant, PTL DEF LoopInv

\* The function is never in two workers at a time, also when those that a dialog gave up on
\* go on or are terminated inside it.
THEOREM FunctionIsExclusive ==
  Spec => [](\A v, w \in Op : worker[v] = "inside" /\ worker[w] = "inside" => v = w)
<1>1. LoopInv => \A v, w \in Op : worker[v] = "inside" /\ worker[w] = "inside" => v = w
  BY DEF LoopInv, OneInside
<1>. QED
  BY <1>1, LoopInvariant, PTL
=============================================================================
