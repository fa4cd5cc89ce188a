---------------------------- MODULE InstallProofs ----------------------------
(***************************************************************************)
(* What holds of Install for any number of calls, log lines, identities,   *)
(* sizes and faults: its types; that the one instance of the pipe          *)
(* serialises the installers, whatever crashes, times out or is left       *)
(* behind; what a call to wdi_install_driver tells its user, which is that *)
(* the result is what the installer decided on, that an installer works    *)
(* with the identities of its own device, that nobody is given up on       *)
(* inside an operation of Windows, that an installer which ended before it *)
(* opened the pipe is waited for for ever, and that the protocol keeps the *)
(* promise of InstallCall; and what a call leaves its user: the system     *)
(* restore policy that the machine had.                                    *)
(***************************************************************************)
EXTENDS InstallPolicy, Integers, SequenceTheorems, TLAPS

\* What main has decided on is known from here on.
Decided == {"done", "report", "restore", "close", "exit"}

\* An installer that makes each request once, gives up on a read only after it was made,
\* and comes to its end with a decision.
PacedInstaller ==
  {q \in Installer :
     /\ q.pc \in {"connect", "init"} => q.asked = 0
     /\ q.pc = "ask" => q.asked < 3
     /\ q.pc = "await" => q.abandoned < q.asked
     /\ q.abandoned <= q.asked
     /\ q.pc \in Decided => q.ret \in Statuses}

TypeInv ==
  /\ TypeOK
  /\ inst \in [Call -> PacedInstaller]
  /\ phase # "idle" => call \in Call

\* The places in which an installer has its end of the pipe open.
Connected == Steps \ {"absent", "connect", "exit", "dead"}

\* Only the client of the pipe is connected, there is none before it connects, and the end
\* that is opened for a filter driver's installer is not taken by another.
PipeOwned ==
  /\ \A i \in Call : inst[i].pc \in Connected => client = i
  /\ client # None => pipe \in {"connected", "orphan"}
  /\ phase = "launch" /\ filter_driver => client = None /\ pipe = "connected"

----------------------------------------------------------------------------
\* The messages and the answers are of the types they are declared with.
LEMMA MessagesTyped ==
  /\ \A k \in 1..3 : Msg(Requests[k], 1) \in Message
  /\ \A n \in LineSizes \cup {1} :
       \A c \in {"IC_PRINT_MESSAGE", "IC_SYSLOG_MESSAGE", "IC_SET_TIMEOUT_INFINITE",
                 "IC_SET_TIMEOUT_DEFAULT", "IC_INSTALLER_COMPLETED", "text"} :
          Msg(c, n) \in Message
  /\ \A r \in Statuses :
       [code |-> "IC_SET_STATUS", size |-> 2, status |-> r] \in Message
<1>. USE DEF Msg, Message
<1>1. \A k \in 1..3 : Msg(Requests[k], 1) \in Message
  OBVIOUS
<1>2. ASSUME NEW n \in LineSizes \cup {1},
             NEW c \in {"IC_PRINT_MESSAGE", "IC_SYSLOG_MESSAGE", "IC_SET_TIMEOUT_INFINITE",
                       "IC_SET_TIMEOUT_DEFAULT", "IC_INSTALLER_COMPLETED", "text"}
      PROVE  Msg(c, n) \in Message
  <2>1. n \in Nat \ {0}
    BY InstallAssumption
  <2>. QED
    BY <2>1
<1>3. \A r \in Statuses :
        [code |-> "IC_SET_STATUS", size |-> 2, status |-> r] \in Message
  OBVIOUS
<1>. QED
  BY <1>1, <1>2, <1>3

\* WriteFile leaves the pipe its type.
LEMMA SendTyped ==
  ASSUME NEW i, NEW m \in Message, msgs \in Seq(Message), Send(i, m)
  PROVE  msgs' \in Seq(Message)
  BY AppendProperties DEF Send

\* handle_data's answer to a request is a reply.
LEMMA AnswerTyped ==
  ASSUME TypeOK, NEW k \in 1..3
  PROVE  Answer(k) \in Reply
  BY DEF TypeOK, Answer, Reply

\* A call that is over has left everything it ends with its type.
LEMMA FinishTyped ==
  ASSUME TypeOK, NEW r \in Results \cup {NoStatus}, NEW left \in Call \cup {None},
         Finish(r, left)
  PROVE  /\ phase' \in Phases /\ result' \in Results \cup {NoStatus}
         /\ current_device' \in [of : Call \cup {None}, knows : SUBSET (1..3)]
         /\ client' \in Call \cup {None} /\ pipe' \in PipeStates
         /\ msgs' \in Seq(Message) /\ replies' \in Seq(Reply)
         /\ call' = call /\ filter_driver' = filter_driver
<1>1. <<>> \in Seq(Message) /\ <<>> \in Seq(Reply)
  OBVIOUS
<1>2. NoDevice \in [of : Call \cup {None}, knows : SUBSET (1..3)]
  BY DEF NoDevice
<1>. QED
  BY <1>1, <1>2 DEF Finish, Phases, PipeStates

\* The end of the pipe that is closed leaves the pipe its type.
LEMMA CloseEndTyped ==
  ASSUME TypeOK, NEW i, CloseEnd(i)
  PROVE  pipe' \in PipeStates /\ client' \in Call \cup {None}
  BY DEF TypeOK, CloseEnd, PipeStates

\* process_message returns a status the call may return, or success.
LEMMA VerdictTyped ==
  ASSUME NEW m \in Message, NEW n \in Int
  PROVE  Verdict(m, n) \in Results \cup {NoStatus}
  BY DEF Verdict, Results, ReadErrors, Statuses, Message

\* check_completion returns a status the call may return.
LEMMA CompletionTyped ==
  ASSUME NEW exit
  PROVE  Completion(exit) \in Results
  BY DEF Completion, Results, ReadErrors, Statuses

\* An installer that was not started is of the type of installers.
LEMMA AbsentTyped == Absent \in PacedInstaller
<1>1. [k \in 1..3 |-> NoReply] \in [1..3 -> Reply] /\ NoReply \in Reply
  BY DEF NoReply, Reply
<1>2. "STILL_ACTIVE" \in ExitCodes
  BY DEF ExitCodes
<1>3. Absent \in Installer
  BY InstallAssumption, <1>1, <1>2 DEF Absent, Installer, Steps
<1>. QED
  BY <1>3 DEF Absent, PacedInstaller, Decided

\* The process of an installer that is gone.
LEMMA GoneTyped ==
  ASSUME inst \in [Call -> PacedInstaller], NEW i \in Call,
         NEW ret \in Statuses \cup {NoStatus}, NEW code \in ExitCodes, Gone(i, ret, code)
  PROVE  inst' \in [Call -> PacedInstaller]
<1>. DEFINE q == [Absent EXCEPT !.pc = "dead", !.ret = ret, !.exit = code]
<1>1. q \in Installer
  BY AbsentTyped DEF PacedInstaller, Installer, Steps
<1>2. q.pc = "dead" /\ q.abandoned = Absent.abandoned /\ q.asked = Absent.asked
  BY AbsentTyped DEF PacedInstaller, Installer
<1>3. q \in PacedInstaller
  <2>1. Absent.abandoned <= Absent.asked
    BY AbsentTyped DEF PacedInstaller
  <2>. HIDE DEF q
  <2>. QED
    BY <1>1, <1>2, <2>1 DEF PacedInstaller, Decided
<1>. HIDE DEF q
<1>4. inst' = [inst EXCEPT ![i] = q]
  BY DEF Gone, q
<1>. QED
  BY <1>3, <1>4

\* The process that is gone with what main had decided on.
LEMMA DeadTyped ==
  ASSUME inst \in [Call -> PacedInstaller], NEW i \in Call, NEW code \in ExitCodes,
         Dead(i, code)
  PROVE  inst' \in [Call -> PacedInstaller]
<1>1. inst[i].ret \in Statuses \cup {NoStatus}
  BY DEF PacedInstaller, Installer
<1>. QED
  BY <1>1, GoneTyped DEF Dead

\* The process that starts.
LEMMA StartTyped ==
  ASSUME inst \in [Call -> PacedInstaller], StartInstaller
  PROVE  inst' \in [Call -> PacedInstaller]
<1>1. [Absent EXCEPT !.pc = "filter"] \in PacedInstaller
  BY AbsentTyped DEF Absent, PacedInstaller, Installer, Steps, Decided
<1>2. [Absent EXCEPT !.pc = "connect"] \in PacedInstaller
  BY AbsentTyped DEF Absent, PacedInstaller, Installer, Steps, Decided
<1>. QED
  BY <1>1, <1>2 DEF StartInstaller

\* The message at the head of the pipe, and what is left behind it.
LEMMA HeadTyped ==
  ASSUME TypeOK, msgs # <<>>
  PROVE  /\ Head(msgs) \in Message /\ Tail(msgs) \in Seq(Message)
         /\ Head(msgs).size \in Nat \ {0} /\ Remaining \in Int
<1>1. Head(msgs) \in Message /\ Tail(msgs) \in Seq(Message)
  BY HeadTailProperties DEF TypeOK
<1>2. Head(msgs).size \in Nat \ {0}
  BY <1>1 DEF Message
<1>. QED
  BY <1>1, <1>2 DEF Remaining, TypeOK

\* An answer is taken by a read of the client, or stays in the pipe.
LEMMA DeliverTyped ==
  ASSUME TypeInv, NEW k \in 1..3, Deliver(k)
  PROVE  inst' \in [Call -> PacedInstaller] /\ replies' \in Seq(Reply)
<1>1. Answer(k) \in Reply
  BY AnswerTyped DEF TypeInv
<1>2. CASE UNCHANGED <<inst, replies>>
  BY <1>2 DEF TypeInv, TypeOK
<1>3. CASE /\ client # None /\ inst[client].abandoned > 0 /\ UNCHANGED replies
           /\ inst' = [inst EXCEPT ![client].abandoned = @ - 1]
  <2>1. client \in Call /\ inst[client] \in PacedInstaller
    BY <1>3 DEF TypeInv, TypeOK
  <2>2. [inst[client] EXCEPT !.abandoned = @ - 1] \in PacedInstaller
    BY <1>3, <2>1 DEF PacedInstaller, Installer
  <2>. QED
    BY <1>3, <2>1, <2>2 DEF TypeInv, TypeOK
<1>4. CASE /\ client # None /\ UNCHANGED replies
           /\ inst' = [inst EXCEPT ![client].answer = Answer(k)]
  <2>1. client \in Call /\ inst[client] \in PacedInstaller
    BY <1>4 DEF TypeInv, TypeOK
  <2>2. [inst[client] EXCEPT !.answer = Answer(k)] \in PacedInstaller
    BY <1>1, <2>1 DEF PacedInstaller, Installer
  <2>. QED
    BY <1>4, <2>1, <2>2 DEF TypeInv, TypeOK
<1>5. CASE replies' = Append(replies, Answer(k)) /\ UNCHANGED inst
  BY <1>1, <1>5, AppendProperties DEF TypeInv, TypeOK
<1>. QED
  BY <1>2, <1>3, <1>4, <1>5 DEF Deliver

\* The steps of the application keep the types.
LEMMA ParentTypes == TypeInv /\ ParentStep => TypeInv'
<1>. USE InstallAssumption
<1>. SUFFICES ASSUME TypeInv, ParentStep PROVE TypeInv'
  OBVIOUS
<1>. USE DEF TypeInv, bufVars, pipeVars, parentVars
<1>0. TypeOK
  OBVIOUS
<1>1. CASE StartFails
  BY <1>1 DEF StartFails, TypeOK, Results
<1>2. CASE CreatePipe
  BY <1>2 DEF CreatePipe, TypeOK, Phases, PipeStates, Call
<1>3. CASE LaunchFails
  <2>1. PICK r \in LaunchErrors : Finish(r, client)
    BY <1>3 DEF LaunchFails
  <2>. QED
    BY <1>3, <2>1, FinishTyped DEF LaunchFails, TypeOK, Results
<1>4. CASE Launch
  <2>1. inst' \in [Call -> PacedInstaller]
    BY <1>4, StartTyped DEF Launch
  <2>. QED
    BY <1>4, <2>1 DEF Launch, TypeOK, Phases, PacedInstaller
<1>5. CASE LaunchWithoutBuffer
  <2>1. inst' \in [Call -> PacedInstaller]
    BY <1>5, StartTyped DEF LaunchWithoutBuffer
  <2>2. (IF filter_driver THEN call ELSE client) \in Call \cup {None}
    BY <1>5 DEF LaunchWithoutBuffer, TypeOK
  <2>3. "WDI_ERROR_RESOURCE" \in Results
    BY DEF Results, StartErrors
  <2>4. inst' \in [Call -> Installer] /\ faults' \in 0..MaxFaults
    BY <1>5, <2>1 DEF LaunchWithoutBuffer, PacedInstaller, TypeOK
  <2>. QED
    BY <1>5, <2>1, <2>2, <2>3, <2>4, FinishTyped DEF LaunchWithoutBuffer, TypeOK, Finish
<1>6. CASE ReadListening
  BY <1>6 DEF ReadListening, vars, TypeOK
<1>7. CASE ReadOverflow
  BY <1>7 DEF ReadOverflow, TypeOK
<1>8. CASE ReadOverflowFails
  <2>1. "WDI_ERROR_RESOURCE" \in Results
    BY DEF Results, StartErrors
  <2>2. faults' \in 0..MaxFaults /\ bufsize' \in Nat /\ client \in Call \cup {None}
    BY <1>8 DEF ReadOverflowFails, TypeOK
  <2>. QED
    BY <1>8, <2>1, <2>2, FinishTyped DEF ReadOverflowFails, TypeOK, Finish
<1>9. CASE ReadMessage
  <2>1. inst' \in [Call -> PacedInstaller] /\ replies' \in Seq(Reply)
    BY <1>9, DeliverTyped DEF ReadMessage, TypeOK
  <2>2. timeout' \in {"default", "infinite"}
    BY <1>9 DEF ReadMessage, TimeoutAfter, TypeOK
  <2>. QED
    BY <1>9, <2>1, <2>2, HeadTyped DEF ReadMessage, TypeOK, PacedInstaller
<1>10. CASE ReadVerdict
  <2>1. Verdict(Head(msgs), Remaining) \in Results \cup {NoStatus}
    BY <1>10, HeadTyped, VerdictTyped DEF ReadVerdict
  <2>2. client \in Call \cup {None}
    BY DEF TypeOK
  <2>. QED
    BY <1>10, <2>1, <2>2, FinishTyped DEF ReadVerdict, TypeOK, Finish
<1>11. CASE ProcessEnded
  BY <1>11, FinishTyped, CompletionTyped DEF ProcessEnded, TypeOK
<1>12. CASE WaitExpires
  BY <1>12 DEF WaitExpires, TypeOK, Phases
<1>13. CASE KillSilent
  <2>1. inst' \in [Call -> PacedInstaller]
    BY <1>13, DeadTyped DEF KillSilent, Terminate, ExitCodes, Statuses
  <2>2. PICK left \in Call \cup {None} : Finish("WDI_ERROR_TIMEOUT", left)
    BY <1>13 DEF KillSilent, TypeOK
  <2>3. "WDI_ERROR_TIMEOUT" \in Results
    BY DEF Results, ReadErrors
  <2>. QED
    BY <1>13, <2>1, <2>2, <2>3, FinishTyped
       DEF KillSilent, TypeOK, PacedInstaller, Finish
<1>14. CASE PipeBroken
  BY <1>14 DEF PipeBroken, TypeOK, Phases
<1>15. CASE BrokenEnded
  BY <1>15, FinishTyped, CompletionTyped DEF BrokenEnded, TypeOK
<1>16. CASE BrokenExpires
  <2>1. inst' \in [Call -> PacedInstaller]
    BY <1>16, DeadTyped DEF BrokenExpires, Terminate, ExitCodes, Statuses
  <2>2. client \in Call \cup {None}
    BY DEF TypeOK
  <2>3. Completion(inst'[call].exit) \in Results
    BY CompletionTyped
  <2>. QED
    BY <1>16, <2>1, <2>2, <2>3, FinishTyped
       DEF BrokenExpires, TypeOK, PacedInstaller, Finish
<1>17. CASE ParentCrash
  <2>1. /\ msgs' \in Seq(Message) /\ replies' \in Seq(Reply)
        /\ pipe' \in PipeStates /\ faults' \in 0..MaxFaults
    BY <1>17 DEF ParentCrash, PipeStates, TypeOK
  <2>2. current_device' \in [of : Call \cup {None}, knows : SUBSET (1..3)]
    BY <1>17 DEF ParentCrash, NoDevice
  <2>3. bufsize' \in Nat /\ offset' \in Nat
    BY <1>17 DEF ParentCrash
  <2>. QED
    BY <1>17, <2>1, <2>2, <2>3 DEF ParentCrash, TypeOK, Phases
<1>. QED
  BY <1>1, <1>2, <1>3, <1>4, <1>5, <1>6, <1>7, <1>8, <1>9, <1>10, <1>11, <1>12, <1>13,
     <1>14, <1>15, <1>16, <1>17 DEF ParentStep, CallStep

\* The pipe when an installer leaves it alone, or only writes to it.
LEMMA PipeTyped ==
  ASSUME TypeOK, NEW i, UNCHANGED <<pipe, client, replies>>,
         msgs' = msgs \/ \E m \in Message : Send(i, m)
  PROVE  /\ pipe' \in PipeStates /\ client' \in Call \cup {None}
         /\ msgs' \in Seq(Message) /\ replies' \in Seq(Reply)
  BY SendTyped DEF TypeOK

\* The places of main that need nothing, and the two ways to come to its end.
LEMMA MoveTyped ==
  ASSUME NEW q \in PacedInstaller, NEW to \in Steps, NEW r \in Statuses
  PROVE  /\ to \notin Decided \cup {"connect", "init", "ask", "await"}
              => [q EXCEPT !.pc = to] \in PacedInstaller
         /\ q.pc = "connect" => [q EXCEPT !.pc = "init"] \in PacedInstaller
         /\ q.pc = "init" => [q EXCEPT !.pc = "ask"] \in PacedInstaller
         /\ q.pc \in Decided /\ to \in Decided => [q EXCEPT !.pc = to] \in PacedInstaller
         /\ [q EXCEPT !.pc = "done", !.ret = r] \in PacedInstaller
<1>. USE DEF PacedInstaller, Installer, Decided
<1>1. ASSUME to \notin Decided \cup {"connect", "init", "ask", "await"}
      PROVE  [q EXCEPT !.pc = to] \in PacedInstaller
  BY <1>1
<1>2. ASSUME q.pc = "connect" PROVE [q EXCEPT !.pc = "init"] \in PacedInstaller
  BY <1>2 DEF Steps
<1>3. ASSUME q.pc = "init" PROVE [q EXCEPT !.pc = "ask"] \in PacedInstaller
  BY <1>3 DEF Steps
<1>4. ASSUME q.pc \in Decided, to \in Decided
      PROVE  [q EXCEPT !.pc = to] \in PacedInstaller
  BY <1>4
<1>5. [q EXCEPT !.pc = "done", !.ret = r] \in PacedInstaller
  BY ZenonT(60) DEF Steps
<1>. QED
  BY <1>1, <1>2, <1>3, <1>4, <1>5

\* The fields of an installer are of the types they are declared with.
LEMMA FieldsTyped ==
  ASSUME NEW q \in Installer, NEW p \in Steps, NEW n \in 0..3, NEW a \in Reply
  PROVE  /\ [q EXCEPT !.pc = p, !.asked = n, !.answer = a] \in Installer
         /\ [q EXCEPT !.asked = n, !.pc = p] \in Installer
         /\ [q EXCEPT !.pc = p, !.abandoned = n] \in Installer
         /\ n # 0 => [q EXCEPT !.pc = p, !.ids[n] = a] \in Installer
  BY DEF Installer

\* A request is made.
LEMMA AskTyped ==
  ASSUME NEW q \in PacedInstaller, q.pc = "ask", NEW a \in Reply
  PROVE  [q EXCEPT !.pc = "await", !.asked = @ + 1, !.answer = a] \in PacedInstaller
<1>1. PICK n \in 1..3 : n = q.asked + 1 /\ q.abandoned < n
  BY DEF PacedInstaller, Installer
<1>. DEFINE r == [q EXCEPT !.pc = "await", !.asked = n, !.answer = a]
<1>2. r \in Installer
  <2>1. q \in Installer /\ "await" \in Steps /\ n \in 0..3
    BY DEF PacedInstaller, Steps
  <2>. QED
    BY <2>1, FieldsTyped
<1>3. r.pc = "await" /\ r.asked = n /\ r.abandoned = q.abandoned
  BY DEF PacedInstaller, Installer
<1>4. r \in PacedInstaller
  <2>. HIDE DEF r
  <2>. QED
    BY <1>1, <1>2, <1>3 DEF PacedInstaller, Installer, Decided
<1>. QED
  BY <1>1, <1>4

\* Request k is over.
LEMMA RequestOver ==
  ASSUME NEW r \in Installer, NEW k \in 1..3, r.pc = AfterRequest(k), r.asked = k,
         r.abandoned \in 0..k
  PROVE  r \in PacedInstaller
  BY DEF PacedInstaller, AfterRequest, Decided

\* The ways in which a request is over keep the installer's pace.
LEMMA AskFailsTyped ==
  ASSUME NEW q \in PacedInstaller, q.pc = "ask"
  PROVE  [q EXCEPT !.asked = @ + 1, !.pc = AfterRequest(q.asked + 1)] \in PacedInstaller
<1>1. PICK n \in 1..3 : n = q.asked + 1 /\ q.abandoned \in 0..n
  BY DEF PacedInstaller, Installer
<1>. DEFINE r == [q EXCEPT !.asked = n, !.pc = AfterRequest(n)]
<1>2. r \in Installer
  <2>1. q \in Installer /\ AfterRequest(n) \in Steps /\ n \in 0..3 /\ NoReply \in Reply
    BY DEF PacedInstaller, Steps, AfterRequest, NoReply, Reply
  <2>. QED
    BY <2>1, FieldsTyped
<1>3. r.pc = AfterRequest(n) /\ r.asked = n /\ r.abandoned = q.abandoned
  BY DEF PacedInstaller, Installer
<1>4. r \in PacedInstaller
  <2>. HIDE DEF r
  <2>. QED
    BY <1>1, <1>2, <1>3, RequestOver
<1>. QED
  BY <1>1, <1>4

\* The steps that end a request.
LEMMA AwaitTyped ==
  ASSUME NEW q \in PacedInstaller, q.pc = "await", NEW a \in Reply
  PROVE  /\ [q EXCEPT !.pc = AfterRequest(q.asked), !.ids[q.asked] = a] \in PacedInstaller
         /\ [q EXCEPT !.pc = AfterRequest(q.asked), !.abandoned = @ + 1] \in PacedInstaller
         /\ [q EXCEPT !.pc = AfterRequest(q.asked), !.abandoned = 0] \in PacedInstaller
<1>1. PICK k \in 1..3 : k = q.asked /\ q.abandoned \in 0..k /\ q.abandoned < k
  BY DEF PacedInstaller, Installer
<1>2. PICK n \in 0..k : n = q.abandoned + 1
  BY <1>1
<1>3. k \in 1..3
  BY <1>1
<1>4. q \in Installer /\ AfterRequest(k) \in Steps
  BY DEF PacedInstaller, Steps, AfterRequest
<1>5. [q EXCEPT !.pc = AfterRequest(k), !.ids[k] = a] \in PacedInstaller
  <2>. DEFINE r == [q EXCEPT !.pc = AfterRequest(k), !.ids[k] = a]
  <2>1. r \in Installer
    <3>1. k \in 0..3 /\ k # 0
      OBVIOUS
    <3>. QED
      BY <1>4, <3>1, FieldsTyped
  <2>2. r.pc = AfterRequest(k) /\ r.asked = k /\ r.abandoned \in 0..k
    BY <1>1, <1>4 DEF Installer
  <2>3. r \in PacedInstaller
    <3>. HIDE DEF r
    <3>. QED
      BY <1>3, <2>1, <2>2, RequestOver
  <2>. QED
    BY <2>3
<1>6. ASSUME NEW m \in 0..k
      PROVE  [q EXCEPT !.pc = AfterRequest(k), !.abandoned = m] \in PacedInstaller
  <2>. DEFINE r == [q EXCEPT !.pc = AfterRequest(k), !.abandoned = m]
  <2>1. r \in Installer
    <3>1. m \in 0..3
      OBVIOUS
    <3>. QED
      BY <1>4, <3>1, FieldsTyped
  <2>2. r.pc = AfterRequest(k) /\ r.asked = k /\ r.abandoned \in 0..k
    BY <1>1, <1>4 DEF Installer
  <2>3. r \in PacedInstaller
    <3>. HIDE DEF r
    <3>. QED
      BY <1>3, <2>1, <2>2, RequestOver
  <2>. QED
    BY <2>3
<1>7. 0 \in 0..k
  OBVIOUS
<1>. QED
  BY <1>1, <1>2, <1>5, <1>6, <1>7

\* The steps of an installer keep the types.
LEMMA InstallerTypes ==
  ASSUME TypeInv, NEW i \in Call, InstallerStep(i) \/ PolicyStep(i)
  PROVE  TypeInv'
<1>. DEFINE q == inst[i]
<1>1. /\ TypeOK /\ q \in PacedInstaller /\ q \in Installer
      /\ inst \in [Call -> PacedInstaller] /\ msgs \in Seq(Message)
  BY DEF TypeInv, TypeOK, PacedInstaller
<1>2. UNCHANGED <<parentVars, bufVars, faults>>
  BY DEF InstallerStep, PolicyStep
<1>3. SUFFICES /\ inst' \in [Call -> PacedInstaller] /\ pipe' \in PipeStates
               /\ client' \in Call \cup {None}
               /\ msgs' \in Seq(Message) /\ replies' \in Seq(Reply)
  BY <1>2 DEF TypeInv, TypeOK, PacedInstaller, parentVars, bufVars
<1>4. \A r \in PacedInstaller : inst' = [inst EXCEPT ![i] = r]
                                  => inst' \in [Call -> PacedInstaller]
  BY <1>1
<1>5. ASSUME UNCHANGED <<pipe, client, replies>>,
             msgs' = msgs \/ \E m \in Message : Send(i, m)
      PROVE  /\ pipe' \in PipeStates /\ client' \in Call \cup {None}
             /\ msgs' \in Seq(Message) /\ replies' \in Seq(Reply)
  BY <1>1, <1>5, PipeTyped
<1>6. UNCHANGED pipeVars => UNCHANGED <<pipe, client, replies>> /\ msgs' = msgs
  BY DEF pipeVars
<1>. HIDE DEF q
<1>7. CASE Connect(i)
  <2>1. inst' \in [Call -> PacedInstaller]
    <3>1. q.pc = "connect" => [q EXCEPT !.pc = "init"] \in PacedInstaller
      BY <1>1, MoveTyped DEF Statuses, Steps
    <3>2. "WDI_ERROR_NOT_SUPPORTED" \in ExitCodes
      BY DEF ExitCodes
    <3>. QED
      BY <1>1, <1>4, <1>7, <3>1, <3>2, DeadTyped DEF Connect, q
  <2>. QED
    BY <1>1, <1>7, <2>1 DEF Connect, TypeOK, PipeStates
<1>8. CASE InitDone(i)
  <2>1. q.pc = "init" => [q EXCEPT !.pc = "ask"] \in PacedInstaller
    BY <1>1, MoveTyped DEF Statuses, Steps
  <2>. QED
    BY <1>4, <1>5, <1>6, <1>8, <2>1 DEF InitDone, Step, q
<1>9. CASE InitFails(i)
  <2>1. \A r \in InitErrors : [q EXCEPT !.pc = "done", !.ret = r] \in PacedInstaller
    BY <1>1, MoveTyped DEF Statuses, Steps
  <2>. QED
    BY <1>4, <1>5, <1>6, <1>9, <2>1, ZenonT(60) DEF InitFails, q
<1>10. CASE Ask(i)
  <2>1. NoReply \in Reply
    BY DEF NoReply, Reply
  <2>2. q.pc = "ask" => [q EXCEPT !.pc = "await", !.asked = @ + 1, !.answer = NoReply]
                           \in PacedInstaller
    BY <1>1, <2>1, AskTyped
  <2>3. inst' \in [Call -> PacedInstaller]
    BY <1>4, <1>10, <2>2 DEF Ask, q
  <2>4. Msg(Requests[q.asked + 1], 1) \in Message
    <3>1. q.asked + 1 \in 1..3
      BY <1>1, <1>10 DEF Ask, PacedInstaller, Installer, q
    <3>. QED
      BY <3>1, MessagesTyped
  <2>5. msgs' \in Seq(Message)
    BY <1>1, <1>10, <2>4, AppendProperties DEF Ask, q
  <2>. QED
    BY <1>1, <1>10, <2>3, <2>5 DEF Ask, TypeOK
<1>11. CASE AskFails(i)
  <2>1. q.pc = "ask" => [q EXCEPT !.asked = @ + 1, !.pc = AfterRequest(q.asked + 1)]
                           \in PacedInstaller
    BY <1>1, AskFailsTyped
  <2>2. inst' \in [Call -> PacedInstaller]
    BY <1>4, <1>11, <2>1 DEF AskFails, q
  <2>3. replies' \in Seq(Reply)
    BY <1>1, <1>11, HeadTailProperties DEF AskFails, TypeOK
  <2>. QED
    BY <1>1, <1>11, <2>2, <2>3 DEF AskFails, TypeOK
<1>12. CASE GotAnswer(i)
  <2>. DEFINE a == IF q.answer.of = None THEN NoReply ELSE q.answer
  <2>1. a \in Reply
    BY <1>1 DEF NoReply, Reply, Installer
  <2>. HIDE DEF a
  <2>2. q.pc = "await" => [q EXCEPT !.pc = AfterRequest(q.asked), !.ids[q.asked] = a]
                             \in PacedInstaller
    BY <1>1, <2>1, AwaitTyped
  <2>. QED
    BY <1>4, <1>5, <1>6, <1>12, <2>2, ZenonT(60) DEF GotAnswer, q, a
<1>13. CASE RequestExpires(i) \/ RequestBreaks(i)
  <2>1. NoReply \in Reply
    BY DEF NoReply, Reply
  <2>2. q.pc = "await" =>
          /\ [q EXCEPT !.pc = AfterRequest(q.asked), !.abandoned = @ + 1] \in PacedInstaller
          /\ [q EXCEPT !.pc = AfterRequest(q.asked), !.abandoned = 0] \in PacedInstaller
    BY <1>1, <2>1, AwaitTyped
  <2>. QED
    BY <1>4, <1>5, <1>6, <1>13, <2>2, ZenonT(60) DEF RequestExpires, RequestBreaks, q
<1>14. CASE StartSyslog(i)
  <2>1. \A on \in BOOLEAN : [q EXCEPT !.pc = "policy", !.syslog = on] \in PacedInstaller
    BY <1>1 DEF PacedInstaller, Installer, Steps, Decided
  <2>. QED
    BY <1>4, <1>5, <1>6, <1>14, <2>1, ZenonT(60) DEF StartSyslog, q
<1>15. CASE LogLine(i)
  <2>1. PICK n \in 1..MaxLines : n = q.lines + 1
    BY <1>1, <1>15, InstallAssumption DEF LogLine, Installer, q
  <2>2. [q EXCEPT !.lines = n] \in PacedInstaller
    <3>1. n \in 0..MaxLines
      BY <2>1, InstallAssumption
    <3>. QED
      BY <1>1, <3>1 DEF PacedInstaller, Installer
  <2>3. \E m \in Message : Send(i, m)
    BY <1>15, MessagesTyped DEF LogLine
  <2>. QED
    BY <1>4, <1>5, <1>15, <2>1, <2>2, <2>3 DEF LogLine, q
<1>16. CASE BeginUpdate(i) \/ BeginCopy(i)
  <2>1. /\ [q EXCEPT !.pc = "copy"] \in PacedInstaller
        /\ [q EXCEPT !.pc = "updating"] \in PacedInstaller
        /\ [q EXCEPT !.pc = "copying"] \in PacedInstaller
    BY <1>1, MoveTyped DEF Statuses, Steps, Decided
  <2>2. \E m \in Message : Send(i, m)
    BY <1>16, MessagesTyped DEF BeginUpdate, BeginCopy
  <2>. QED
    BY <1>4, <1>5, <1>16, <2>1, <2>2 DEF BeginUpdate, BeginCopy, Step, q
<1>17. CASE EndUpdate(i) \/ EndCopy(i)
  <2>1. /\ [q EXCEPT !.pc = "copy"] \in PacedInstaller
        /\ \A r \in {Success} \cup InstallErrors :
             [q EXCEPT !.pc = "done", !.ret = r] \in PacedInstaller
    BY <1>1, MoveTyped DEF Statuses, Steps, Decided
  <2>2. \E m \in Message : Send(i, m)
    BY <1>17, MessagesTyped DEF EndUpdate, EndCopy
  <2>. QED
    BY <1>4, <1>5, <1>17, <2>1, <2>2, ZenonT(60) DEF EndUpdate, EndCopy, q
<1>18. CASE Completed(i) \/ Report(i)
  <2>1. /\ q.pc = "done" => [q EXCEPT !.pc = "report"] \in PacedInstaller
        /\ q.pc = "report" => [q EXCEPT !.pc = "restore"] \in PacedInstaller
    BY <1>1, MoveTyped DEF Statuses, Steps, Decided
  <2>2. q.pc = "report" => q.ret \in Statuses
    BY <1>1 DEF PacedInstaller, Decided
  <2>3. \E m \in Message : Send(i, m)
    BY <1>18, <2>2, MessagesTyped DEF Completed, Report, Step, q
  <2>. QED
    BY <1>4, <1>5, <1>18, <2>1, <2>3 DEF Completed, Report, Step, q
<1>19. CASE ClosePipe(i)
  <2>1. q.pc = "close" => [q EXCEPT !.pc = "exit", !.syslog = FALSE] \in PacedInstaller
    BY <1>1 DEF PacedInstaller, Installer, Steps, Decided
  <2>2. inst' \in [Call -> PacedInstaller]
    BY <1>4, <1>19, <2>1 DEF ClosePipe, q
  <2>. QED
    BY <1>1, <1>19, <2>2, CloseEndTyped DEF ClosePipe, TypeOK
<1>20. CASE Exit(i)
  <2>1. q.pc = "exit" => q.ret \in ExitCodes
    BY <1>1 DEF PacedInstaller, Decided, ExitCodes
  <2>. QED
    BY <1>1, <1>5, <1>6, <1>20, <2>1, DeadTyped DEF Exit, q
<1>21. CASE FilterExit(i)
  <2>1. {Success} \cup InstallErrors \subseteq Statuses
    BY DEF Statuses
  <2>2. inst' \in [Call -> PacedInstaller]
    BY <1>1, <1>21, <2>1, GoneTyped DEF FilterExit, ExitCodes
  <2>. QED
    BY <1>1, <1>21, <2>2, CloseEndTyped DEF FilterExit, TypeOK
<1>22. CASE InstallerCrash(i)
  <2>1. inst' \in [Call -> PacedInstaller]
    BY <1>1, <1>22, DeadTyped DEF InstallerCrash, ExitCodes
  <2>. QED
    BY <1>1, <1>22, <2>1, CloseEndTyped DEF InstallerCrash, TypeOK
<1>23. CASE DisableRestore(i) \/ EnableRestore(i)
  <2>1. /\ q.pc = "policy" => [q EXCEPT !.pc = "update"] \in PacedInstaller
        /\ q.pc = "restore" => [q EXCEPT !.pc = "close"] \in PacedInstaller
    BY <1>1, MoveTyped DEF Statuses, Steps, Decided
  <2>. QED
    BY <1>4, <1>5, <1>6, <1>23, <2>1 DEF DisableRestore, EnableRestore, Step, q
<1>. QED
  BY <1>7, <1>8, <1>9, <1>10, <1>11, <1>12, <1>13, <1>14, <1>15, <1>16, <1>17, <1>18, <1>19,
     <1>20, <1>21, <1>22, <1>23 DEF InstallerStep, PolicyStep

\* The types hold of the initial state ...
LEMMA TypeInvInit == Init => TypeInv
<1>. SUFFICES ASSUME Init PROVE TypeInv
  OBVIOUS
<1>1. inst \in [Call -> PacedInstaller] /\ inst \in [Call -> Installer]
  BY AbsentTyped DEF Init, PacedInstaller
<1>2. current_device \in [of : Call \cup {None}, knows : SUBSET (1..3)]
  BY DEF Init, NoDevice
<1>3. msgs \in Seq(Message) /\ replies \in Seq(Reply)
  BY DEF Init
<1>4. /\ bufsize \in Nat /\ offset \in Nat /\ call \in 0..MaxCalls /\ faults \in 0..MaxFaults
  BY InstallAssumption DEF Init
<1>. QED
  BY <1>1, <1>2, <1>3, <1>4 DEF Init, TypeInv, TypeOK, Phases, PipeStates

\* ... and every step keeps them.
LEMMA TypeInvStep == TypeInv /\ [Next]_vars => TypeInv'
<1>1. TypeInv /\ UNCHANGED vars => TypeInv'
  BY DEF TypeInv, TypeOK, vars, parentVars, bufVars, pipeVars
<1>. QED
  BY <1>1, ParentTypes, InstallerTypes DEF Next, Over

\* The variables of Install keep their types.
THEOREM InstallTypeCorrect == Spec => []TypeOK
<1>1. TypeInv => TypeOK
  BY DEF TypeInv
<1>. QED
  BY <1>1, TypeInvInit, TypeInvStep, PTL DEF Spec

----------------------------------------------------------------------------
\* The start of an installer, and the end of one, concern no other.
LEMMA Started ==
  ASSUME inst \in [Call -> PacedInstaller], call \in Call, StartInstaller
  PROVE  /\ \A j \in Call : j # call => inst'[j] = inst[j]
         /\ inst'[call].pc = IF filter_driver THEN "filter" ELSE "connect"
  BY DEF StartInstaller, Absent

\* The process that is gone, and the others as they were.
LEMMA Died ==
  ASSUME inst \in [Call -> PacedInstaller], NEW i \in Call, NEW code, Dead(i, code)
  PROVE  /\ \A j \in Call : j # i => inst'[j] = inst[j]
         /\ inst'[i].pc = "dead"
  BY DEF Dead, Gone, Absent

\* Without a client nobody is connected, and a pipe that listens has none.
LEMMA Unowned ==
  ASSUME PipeOwned
  PROVE  /\ client = None => \A j \in Call : inst[j].pc \notin Connected
         /\ pipe = "listening" => client = None
  BY DEF PipeOwned, Call, None

\* An answer does not move an installer.
LEMMA ReadStays ==
  ASSUME inst \in [Call -> PacedInstaller], ReadMessage
  PROVE  \A i \in Call : inst'[i].pc = inst[i].pc
  BY DEF ReadMessage, Deliver, PacedInstaller, Installer

\* The steps of an installer between its connection and the end of its pipe.
LEMMA InsideSteps ==
  ASSUME inst \in [Call -> PacedInstaller], NEW i \in Call,
         InstallerStep(i) \/ PolicyStep(i),
         ~Connect(i), ~ClosePipe(i), ~FilterExit(i), ~InstallerCrash(i)
  PROVE  /\ UNCHANGED <<pipe, client>>
         /\ msgs' = msgs \/ pipe = "connected"
         /\ \A j \in Call : j # i => inst'[j] = inst[j]
         /\ inst'[i].pc \in Connected => inst[i].pc \in Connected
         /\ inst'[i].pc = "connect" => inst[i].pc = "connect"
<1>. USE DEF InstallerStep, PolicyStep, InitDone, InitFails, Ask, AskFails, GotAnswer,
             RequestExpires, RequestBreaks, StartSyslog, LogLine, BeginUpdate, EndUpdate,
             BeginCopy, EndCopy, Completed, Report, Exit, DisableRestore, EnableRestore
<1>1. UNCHANGED <<pipe, client>> /\ (msgs' = msgs \/ pipe = "connected")
  BY DEF pipeVars, Send, Linked
<1>2. \A j \in Call : j # i => inst'[j] = inst[j]
  BY DEF Step, Dead, Gone
<1>3. inst[i].pc \in Steps
  BY DEF PacedInstaller, Installer
<1>4. inst'[i].pc \in Connected => inst[i].pc \in Connected
  BY <1>3, ZenonT(60) DEF Step, Dead, Gone, Absent, Connected, PacedInstaller, Installer
<1>5. inst'[i].pc = "connect" => inst[i].pc = "connect"
  <2>1. \A k : AfterRequest(k) # "connect"
    BY DEF AfterRequest
  <2>2. CASE LogLine(i)
    BY <2>2 DEF PacedInstaller, Installer
  <2>3. CASE AskFails(i) \/ GotAnswer(i) \/ RequestExpires(i) \/ RequestBreaks(i)
    BY <2>1, <2>3 DEF PacedInstaller, Installer
  <2>4. CASE Ask(i) \/ Exit(i)
    BY <2>4, ZenonT(60) DEF Dead, Gone, Absent, PacedInstaller, Installer
  <2>5. CASE ~LogLine(i) /\ ~AskFails(i) /\ ~GotAnswer(i) /\ ~RequestExpires(i)
             /\ ~RequestBreaks(i) /\ ~Ask(i) /\ ~Exit(i)
    <3>. HIDE DEF LogLine, AskFails, GotAnswer, RequestExpires, RequestBreaks, Ask, Exit
    <3>. QED
      BY <2>5 DEF Step, PacedInstaller, Installer
  <2>. QED
    BY <2>2, <2>3, <2>4, <2>5
<1>. QED
  BY <1>1, <1>2, <1>4, <1>5

\* The application's steps leave the pipe to the installer that has it.
LEMMA ParentOwned == TypeInv /\ PipeOwned /\ ParentStep => PipeOwned'
<1>. SUFFICES ASSUME TypeInv, PipeOwned, ParentStep PROVE PipeOwned'
  OBVIOUS
<1>. USE DEF PipeOwned, Connected
<1>0. inst \in [Call -> PacedInstaller] /\ client \in Call \cup {None} /\ call \in 0..MaxCalls
  BY DEF TypeInv, TypeOK
<1>1. ASSUME NEW r, Finish(r, client), UNCHANGED inst PROVE PipeOwned'
  BY <1>1 DEF Finish
<1>2. CASE StartFails
  BY <1>2 DEF StartFails, pipeVars
<1>3. CASE CreatePipe
  BY <1>3 DEF CreatePipe
<1>4. CASE Launch
  <2>1. /\ \A j \in Call : j # call => inst'[j] = inst[j]
        /\ inst'[call].pc = IF filter_driver THEN "filter" ELSE "connect"
    BY <1>0, <1>4, Started DEF Launch, TypeInv
  <2>2. /\ phase = "launch" /\ phase' = "reading" /\ pipe' = pipe
        /\ client' = IF filter_driver THEN call ELSE client
    BY <1>4 DEF Launch
  <2>3. CASE filter_driver
    <3>1. client = None /\ pipe = "connected" /\ \A j \in Call : inst[j].pc \notin Connected
      BY <2>2, <2>3, Unowned
    <3>. QED
      BY <2>1, <2>2, <2>3, <3>1
  <2>4. CASE ~filter_driver
    BY <2>1, <2>2, <2>4
  <2>. QED
    BY <2>3, <2>4
<1>5. CASE LaunchWithoutBuffer
  <2>1. /\ \A j \in Call : j # call => inst'[j] = inst[j]
        /\ inst'[call].pc = IF filter_driver THEN "filter" ELSE "connect"
    BY <1>0, <1>5, Started DEF LaunchWithoutBuffer, TypeInv
  <2>2. /\ phase = "launch" /\ phase' = "idle"
        /\ client' = IF filter_driver THEN call ELSE client
        /\ client' # None => pipe' = "orphan"
    BY <1>5 DEF LaunchWithoutBuffer, Finish
  <2>3. CASE filter_driver
    <3>1. client = None /\ pipe = "connected" /\ \A j \in Call : inst[j].pc \notin Connected
      BY <2>2, <2>3, Unowned
    <3>. QED
      BY <2>1, <2>2, <2>3, <3>1
  <2>4. CASE ~filter_driver
    BY <2>1, <2>2, <2>4
  <2>. QED
    BY <2>3, <2>4
<1>6. CASE ReadMessage
  <2>1. \A i \in Call : inst'[i].pc = inst[i].pc
    BY <1>0, <1>6, ReadStays
  <2>. QED
    BY <1>6, <2>1 DEF ReadMessage
<1>7. CASE KillSilent
  BY <1>0, <1>7, ZenonT(60) DEF KillSilent, Terminate, Dead, Gone, Absent, Finish, TypeInv
<1>8. CASE BrokenExpires
  BY <1>0, <1>8, ZenonT(60) DEF BrokenExpires, Terminate, Dead, Gone, Absent, Finish, TypeInv
<1>9. CASE ParentCrash
  BY <1>9 DEF ParentCrash
<1>. QED
  BY <1>1, <1>2, <1>3, <1>4, <1>5, <1>6, <1>7, <1>8, <1>9
     DEF ParentStep, CallStep, LaunchFails, ReadListening, ReadOverflow, ReadOverflowFails,
         ReadVerdict, ProcessEnded, WaitExpires, PipeBroken, BrokenEnded, vars, parentVars,
         bufVars, pipeVars

\* An installer that is connected has the pipe, and gives it back when it is not.
LEMMA InstallerOwned ==
  ASSUME TypeInv, PipeOwned, NEW i \in Call, InstallerStep(i) \/ PolicyStep(i)
  PROVE  PipeOwned'
<1>. USE DEF PipeOwned
<1>0. inst \in [Call -> PacedInstaller] /\ client \in Call \cup {None} /\ inst[i].pc \in Steps
  BY DEF TypeInv, TypeOK, PacedInstaller, Installer
<1>1. UNCHANGED <<phase, filter_driver>> /\ i # None
  BY DEF InstallerStep, PolicyStep, parentVars, Call, None
<1>2. CASE Connect(i)
  <2>1. CASE pipe = "listening"
    <3>1. /\ \A j \in Call : j # i => inst'[j] = inst[j]
          /\ pipe' = "connected" /\ client' = i
      BY <1>0, <1>2, <2>1 DEF Connect
    <3>2. client = None /\ \A j \in Call : inst[j].pc \notin Connected
      BY <2>1, Unowned
    <3>. QED
      BY <1>1, <2>1, <3>1, <3>2
  <2>2. CASE pipe # "listening"
    <3>1. /\ \A j \in Call : j # i => inst'[j] = inst[j]
          /\ inst'[i].pc = "dead" /\ UNCHANGED <<pipe, client>>
      BY <1>0, <1>2, <2>2, Died DEF Connect
    <3>. QED
      BY <1>1, <3>1 DEF Connected
  <2>. QED
    BY <2>1, <2>2
<1>3. CASE ClosePipe(i) \/ FilterExit(i) \/ InstallerCrash(i)
  <2>1. \A j \in Call : j # i => inst'[j] = inst[j]
    BY <1>0, <1>3 DEF ClosePipe, FilterExit, InstallerCrash, Dead, Gone
  <2>2. inst'[i].pc \notin Connected
    BY <1>0, <1>3, ZenonT(60)
       DEF ClosePipe, FilterExit, InstallerCrash, Dead, Gone, Absent, Connected,
           PacedInstaller, Installer
  <2>. QED
    BY <1>1, <1>3, <2>1, <2>2
       DEF ClosePipe, FilterExit, InstallerCrash, CloseEnd
<1>4. CASE ~Connect(i) /\ ~(ClosePipe(i) \/ FilterExit(i) \/ InstallerCrash(i))
  BY <1>0, <1>1, <1>4, InsideSteps
<1>. QED
  BY <1>2, <1>3, <1>4

\* One client at most in the initial state ...
LEMMA OwnedInit == Init => PipeOwned
  BY DEF Init, PipeOwned, Connected, Absent

\* ... and after every step.
LEMMA OwnedStep == TypeInv /\ PipeOwned /\ [Next]_vars => PipeOwned'
<1>1. PipeOwned /\ UNCHANGED vars => PipeOwned'
  BY DEF PipeOwned, vars, parentVars, pipeVars
<1>. QED
  BY <1>1, ParentOwned, InstallerOwned DEF Next, Over

\* The pipe has one owner at a time: every installer between its connection and the end of
\* its pipe is the client, so that there are never two, whatever calls have left behind.
THEOREM OneInstallerConnected == Spec => []PipeOwned
  BY TypeInvInit, TypeInvStep, OwnedInit, OwnedStep, PTL DEF Spec

----------------------------------------------------------------------------
\* What the installers do to the pipe leaves the message that is being read at its head.
LEMMA HeadStays ==
  ASSUME TypeInv, NEW i \in Call, InstallerStep(i) \/ PolicyStep(i), msgs # <<>>
  PROVE  msgs' # <<>> /\ Head(msgs') = Head(msgs)
<1>1. ASSUME NEW m, msgs' = Append(msgs, m)
      PROVE  msgs' # <<>> /\ Head(msgs') = Head(msgs)
  BY <1>1 DEF TypeInv, TypeOK
<1>2. \/ msgs' = msgs
      \/ \E m : msgs' = Append(msgs, m)
  BY DEF InstallerStep, PolicyStep, Connect, InitDone, InitFails, Ask, AskFails, GotAnswer,
         RequestExpires, RequestBreaks, StartSyslog, LogLine, BeginUpdate, EndUpdate,
         BeginCopy, EndCopy, Completed, Report, Exit, FilterExit, InstallerCrash, ClosePipe,
         DisableRestore, EnableRestore, Send, pipeVars
<1>. QED
  BY <1>1, <1>2

\* Every step leaves the reassembly of a message in order.
LEMMA ReassemblyStep == TypeInv /\ Reassembly /\ [Next]_vars => Reassembly'
<1>. SUFFICES ASSUME TypeInv, Reassembly, [Next]_vars PROVE Reassembly'
  OBVIOUS
<1>. USE DEF Reassembly
<1>0. /\ bufsize \in Nat /\ offset \in Nat
      /\ msgs # <<>> => Head(msgs).size \in Nat
  BY HeadTyped DEF TypeInv, TypeOK
<1>1. CASE ReadOverflow
  BY <1>0, <1>1 DEF ReadOverflow, Remaining, parentVars, pipeVars
<1>2. CASE ReadOverflowFails
  BY <1>0, <1>2 DEF ReadOverflowFails, Finish
<1>3. CASE ReadMessage \/ ReadVerdict
  BY <1>0, <1>3 DEF ReadMessage, ReadVerdict
<1>4. CASE Launch
  BY <1>4, InstallAssumption DEF Launch
<1>5. CASE ParentCrash
  BY <1>5, InstallAssumption DEF ParentCrash
<1>6. CASE StartFails \/ CreatePipe \/ LaunchFails \/ LaunchWithoutBuffer
  BY <1>0, <1>6 DEF StartFails, CreatePipe, LaunchFails, LaunchWithoutBuffer, Finish, bufVars
<1>7. CASE ReadListening \/ WaitExpires \/ PipeBroken \/ UNCHANGED vars
  BY <1>0, <1>7 DEF ReadListening, WaitExpires, PipeBroken, vars, bufVars, pipeVars,
                    parentVars
<1>8. CASE ProcessEnded \/ KillSilent \/ BrokenEnded \/ BrokenExpires
  BY <1>0, <1>8 DEF ProcessEnded, KillSilent, BrokenEnded, BrokenExpires, Finish, bufVars
<1>9. ASSUME NEW i \in Call, InstallerStep(i) \/ PolicyStep(i) PROVE Reassembly'
  <2>1. UNCHANGED <<phase, bufsize, offset>>
    BY <1>9 DEF InstallerStep, PolicyStep, parentVars, bufVars
  <2>2. msgs # <<>> => msgs' # <<>> /\ Head(msgs') = Head(msgs)
    BY <1>9, HeadStays
  <2>. QED
    BY <2>1, <2>2
<1>. QED
  BY <1>1, <1>2, <1>3, <1>4, <1>5, <1>6, <1>7, <1>8, <1>9 DEF Next, ParentStep, CallStep, Over

\* The reassembly of long messages is right for every size of the first buffer, every size
\* of a line and every number of calls.
THEOREM ReassemblyCorrect == Spec => []Reassembly
<1>1. Init => Reassembly
  BY InstallAssumption DEF Init, Reassembly
<1>. QED
  BY <1>1, TypeInvInit, TypeInvStep, ReassemblyStep, PTL DEF Spec

----------------------------------------------------------------------------
\* Only a connected or closed end holds messages, and, while no application has crashed, an
\* installer that is about to connect is the one whose call waits for it.
Expected ==
  /\ msgs # <<>> => pipe \in {"connected", "closed"}
  /\ faults = 0 =>
       /\ \A i \in Call : inst[i].pc = "connect"
                            => i = call /\ phase = "reading" /\ pipe = "listening"
       /\ phase = "launch" /\ ~filter_driver => pipe = "listening"

OwnInv == TypeInv /\ PipeOwned /\ Expected /\ OwnInstaller

\* The application's steps leave it to its own installer.
LEMMA ParentOwn == OwnInv /\ ParentStep => Expected' /\ OwnInstaller'
<1>. SUFFICES ASSUME OwnInv, ParentStep PROVE Expected' /\ OwnInstaller'
  OBVIOUS
<1>. USE DEF OwnInv, PipeOwned, Expected, OwnInstaller
<1>0. inst \in [Call -> PacedInstaller] /\ client \in Call \cup {None} /\ faults \in Nat
  BY DEF TypeInv, TypeOK
<1>1. CASE StartFails
  BY <1>1 DEF StartFails, pipeVars
<1>2. CASE CreatePipe
  BY <1>2 DEF CreatePipe
<1>3. CASE LaunchFails
  BY <1>3 DEF LaunchFails, Finish
<1>4. CASE Launch
  <2>1. /\ \A j \in Call : j # call => inst'[j] = inst[j]
        /\ inst'[call].pc = IF filter_driver THEN "filter" ELSE "connect"
    BY <1>0, <1>4, Started DEF Launch, TypeInv
  <2>. QED
    BY <1>4, <2>1 DEF Launch
<1>5. CASE LaunchWithoutBuffer \/ ReadOverflowFails \/ ParentCrash
  BY <1>0, <1>5 DEF LaunchWithoutBuffer, ReadOverflowFails, ParentCrash, Finish
<1>6. CASE ReadListening \/ ReadOverflow
  BY <1>6 DEF ReadListening, ReadOverflow, vars, parentVars, pipeVars
<1>7. CASE ReadMessage
  <2>1. \A i \in Call : inst'[i].pc = inst[i].pc
    BY <1>0, <1>7, ReadStays
  <2>. QED
    BY <1>7, <2>1 DEF ReadMessage
<1>8. CASE ReadVerdict
  BY <1>8 DEF ReadVerdict, Finish
<1>9. CASE ProcessEnded \/ BrokenEnded
  BY <1>9 DEF ProcessEnded, BrokenEnded, Finish
<1>10. CASE WaitExpires \/ PipeBroken
  BY <1>10 DEF WaitExpires, PipeBroken, pipeVars
<1>11. CASE KillSilent \/ BrokenExpires
  <2>1. \A i \in Call : inst'[i] = inst[i] \/ inst'[i].pc = "dead"
    BY <1>0, <1>11 DEF KillSilent, BrokenExpires, Terminate, Dead, Gone, Absent
  <2>2. phase \notin {"reading", "launch"} /\ phase' = "idle" /\ msgs' = <<>> /\ faults' = faults
    BY <1>11 DEF KillSilent, BrokenExpires, Finish
  <2>. QED
    BY <2>1, <2>2
<1>. QED
  BY <1>1, <1>2, <1>3, <1>4, <1>5, <1>6, <1>7, <1>8, <1>9, <1>10, <1>11
     DEF ParentStep, CallStep

\* So do the steps of the installers, those left behind by earlier calls included.
LEMMA InstallerOwn ==
  ASSUME OwnInv, NEW i \in Call, InstallerStep(i) \/ PolicyStep(i)
  PROVE  Expected' /\ OwnInstaller'
<1>. USE DEF OwnInv, Expected, OwnInstaller
<1>0. inst \in [Call -> PacedInstaller] /\ inst[i].pc \in Steps
  BY DEF TypeInv, TypeOK, PacedInstaller, Installer
<1>1. UNCHANGED <<phase, call, filter_driver, faults>>
  BY DEF InstallerStep, PolicyStep, parentVars
<1>2. CASE Connect(i)
  <2>1. /\ \A j \in Call : j # i => inst'[j] = inst[j]
        /\ inst'[i].pc \in {"init", "dead"} /\ msgs' = msgs
    BY <1>0, <1>2, Died DEF Connect, PacedInstaller, Installer
  <2>2. /\ client' = i /\ pipe = "listening" /\ pipe' = "connected"
        \/ UNCHANGED <<pipe, client>>
    BY <1>2 DEF Connect
  <2>. QED
    BY <1>1, <1>2, <2>1, <2>2 DEF Connect
<1>3. CASE ClosePipe(i) \/ FilterExit(i) \/ InstallerCrash(i)
  <2>1. \A j \in Call : inst'[j].pc = "connect" => inst[j].pc = "connect"
    BY <1>0, <1>3, ZenonT(60) DEF ClosePipe, FilterExit, InstallerCrash, Dead, Gone, Absent,
         PacedInstaller, Installer
  <2>2. /\ client' \in {None, client} /\ msgs' = msgs
        /\ pipe' # pipe => client = i
        /\ pipe = "connected" => pipe' \in {"connected", "closed"}
        /\ pipe = "closed" => pipe' = "closed"
    BY <1>3 DEF ClosePipe, FilterExit, InstallerCrash, CloseEnd
  <2>3. pipe = "listening" => client # i
    BY DEF PipeOwned, Call, None
  <2>. QED
    BY <1>1, <2>1, <2>2, <2>3
<1>4. CASE ~Connect(i) /\ ~(ClosePipe(i) \/ FilterExit(i) \/ InstallerCrash(i))
  <2>1. /\ UNCHANGED <<pipe, client>> /\ (msgs' = msgs \/ pipe = "connected")
        /\ \A j \in Call : inst'[j].pc = "connect" => inst[j].pc = "connect"
    BY <1>0, <1>4, InsideSteps
  <2>. QED
    BY <1>1, <2>1
<1>. QED
  BY <1>2, <1>3, <1>4

\* A call only ever has its own installer at the other end of the pipe.
THEOREM OnlyOwnInstaller == Spec => []OwnInstaller
<1>1. Init => OwnInv
  BY TypeInvInit, OwnedInit DEF Init, OwnInv, Expected, OwnInstaller, Absent
<1>2. OwnInv /\ UNCHANGED vars => OwnInv'
  BY TypeInvStep, OwnedStep
     DEF OwnInv, Expected, OwnInstaller, vars, parentVars, bufVars, pipeVars
<1>3. OwnInv /\ [Next]_vars => OwnInv'
  BY <1>2, TypeInvStep, OwnedStep, ParentOwn, InstallerOwn DEF OwnInv, Next, Over
<1>4. OwnInv => OwnInstaller
  BY DEF OwnInv
<1>. QED
  BY <1>1, <1>3, <1>4, PTL DEF Spec

----------------------------------------------------------------------------
(***************************************************************************)
(* What a call tells its user.                                             *)
(***************************************************************************)
\* A message with code c is in s.
Holds(s, c) == \E j \in DOMAIN s : s[j].code = c

\* A message with code c is in s, and none with code d after it.
Ends(s, c, d) ==
  \E j \in DOMAIN s : s[j].code = c /\ \A l \in DOMAIN s : l > j => s[l].code # d

\* The requests in s are in the order of the installer.
InOrder(s) ==
  \A j, l \in DOMAIN s : j < l =>
    \A k, n \in 1..3 : s[j].code = Requests[k] /\ s[l].code = Requests[n] => k < n

\* A status other than success is in s.
Failing(s) == \E j \in DOMAIN s : s[j].code = "IC_SET_STATUS" /\ s[j].status # Success

----------------------------------------------------------------------------
\* What is in a sequence after a message is written to its end.
LEMMA AppendHolds ==
  ASSUME NEW s \in Seq(Message), NEW m \in Message
  PROVE  /\ \A c : Holds(Append(s, m), c) <=> Holds(s, c) \/ m.code = c
         /\ \A c, d : Ends(Append(s, m), c, d) <=>
                        m.code = c \/ (Ends(s, c, d) /\ m.code # d)
         /\ Failing(Append(s, m)) <=>
              Failing(s) \/ (m.code = "IC_SET_STATUS" /\ m.status # Success)
<1>. DEFINE t == Append(s, m)
<1>1. /\ DOMAIN s = 1..Len(s) /\ DOMAIN t = 1..(Len(s) + 1) /\ Len(s) \in Nat
      /\ t[Len(s) + 1] = m /\ \A j \in 1..Len(s) : t[j] = s[j]
  BY AppendProperties
<1>. HIDE DEF t
<1>2. \A c : Holds(t, c) <=> Holds(s, c) \/ m.code = c
  BY <1>1 DEF Holds
<1>3. Failing(t) <=> Failing(s) \/ (m.code = "IC_SET_STATUS" /\ m.status # Success)
  BY <1>1 DEF Failing
<1>4. ASSUME NEW c, NEW d, m.code = c PROVE Ends(t, c, d)
  BY <1>1, <1>4 DEF Ends
<1>5. ASSUME NEW c, NEW d, Ends(s, c, d), m.code # d PROVE Ends(t, c, d)
  BY <1>1, <1>5 DEF Ends
<1>6. ASSUME NEW c, NEW d, Ends(t, c, d), m.code # c
      PROVE  Ends(s, c, d) /\ m.code # d
  BY <1>1, <1>6 DEF Ends
<1>. QED
  BY <1>2, <1>3, <1>4, <1>5, <1>6 DEF t

\* What is in a sequence after its head is read.
LEMMA TailHolds ==
  ASSUME NEW s \in Seq(Message), s # <<>>
  PROVE  /\ \A c : Holds(s, c) <=> Head(s).code = c \/ Holds(Tail(s), c)
         /\ \A c, d : Ends(s, c, d) <=>
              Ends(Tail(s), c, d) \/ (Head(s).code = c /\ ~Holds(Tail(s), d))
         /\ Failing(s) <=>
              Failing(Tail(s)) \/ (Head(s).code = "IC_SET_STATUS" /\ Head(s).status # Success)
<1>. DEFINE t == Tail(s)
<1>1. /\ DOMAIN s = 1..Len(s) /\ DOMAIN t = 1..(Len(s) - 1) /\ Len(s) \in Nat \ {0}
      /\ s[1] = Head(s) /\ \A j \in 1..(Len(s) - 1) : t[j] = s[j + 1]
  BY HeadTailProperties
<1>2. \A j \in DOMAIN s : j # 1 => j - 1 \in DOMAIN t /\ t[j - 1] = s[j]
  BY <1>1
<1>3. \A j \in DOMAIN t : j + 1 \in DOMAIN s /\ t[j] = s[j + 1] /\ j > 0
  BY <1>1
<1>4. 1 \in DOMAIN s /\ s[1] = Head(s) /\ DOMAIN s \subseteq Nat /\ DOMAIN t \subseteq Nat
  BY <1>1
<1>. HIDE DEF t
<1>5. \A c : Holds(s, c) <=> Head(s).code = c \/ Holds(t, c)
  BY <1>2, <1>3, <1>4 DEF Holds
<1>6. Failing(s) <=>
        Failing(t) \/ (Head(s).code = "IC_SET_STATUS" /\ Head(s).status # Success)
  BY <1>2, <1>3, <1>4 DEF Failing
<1>7. ASSUME NEW c, NEW d, Ends(t, c, d) PROVE Ends(s, c, d)
  <2>1. PICK j \in DOMAIN t : t[j].code = c /\ \A l \in DOMAIN t : l > j => t[l].code # d
    BY <1>7 DEF Ends
  <2>2. j + 1 \in DOMAIN s /\ s[j + 1].code = c
    BY <1>3, <2>1
  <2>3. \A l \in DOMAIN s : l > j + 1 => s[l].code # d
    BY <1>1, <1>2, <2>1
  <2>. QED
    BY <2>2, <2>3 DEF Ends
<1>8. ASSUME NEW c, NEW d, Head(s).code = c, ~Holds(t, d) PROVE Ends(s, c, d)
  <2>1. \A l \in DOMAIN s : l > 1 => s[l].code # d
    BY <1>2, <1>8 DEF Holds
  <2>. QED
    BY <1>4, <1>8, <2>1 DEF Ends
<1>9. ASSUME NEW c, NEW d, Ends(s, c, d)
      PROVE  Ends(t, c, d) \/ (Head(s).code = c /\ ~Holds(t, d))
  <2>1. PICK j \in DOMAIN s : s[j].code = c /\ \A l \in DOMAIN s : l > j => s[l].code # d
    BY <1>9 DEF Ends
  <2>2. CASE j = 1
    BY <1>3, <1>4, <2>1, <2>2 DEF Holds
  <2>3. CASE j # 1
    <3>1. j - 1 \in DOMAIN t /\ t[j - 1].code = c
      BY <1>2, <2>1, <2>3
    <3>2. \A l \in DOMAIN t : l > j - 1 => t[l].code # d
      BY <1>1, <1>3, <2>1
    <3>. QED
      BY <3>1, <3>2 DEF Ends
  <2>. QED
    BY <2>2, <2>3
<1>. QED
  BY <1>5, <1>6, <1>7, <1>8, <1>9 DEF t

\* Nothing is in an empty sequence.
LEMMA EmptyHolds ==
  /\ \A c : ~Holds(<<>>, c)
  /\ \A c, d : ~Ends(<<>>, c, d)
  /\ ~Failing(<<>>) /\ InOrder(<<>>)
  BY DEF Holds, Ends, Failing, InOrder

\* The requests of a sequence stay in order when a later one is written or the first read,
\* and the one that is read is not there twice.
LEMMA OrderKept ==
  ASSUME NEW s \in Seq(Message), InOrder(s)
  PROVE  /\ \A m \in Message :
              (\A k, n \in 1..3 : m.code = Requests[n] /\ Holds(s, Requests[k]) => k < n)
                => InOrder(Append(s, m))
         /\ s # <<>> =>
              /\ InOrder(Tail(s))
              /\ \A k, n \in 1..3 :
                   Head(s).code = Requests[k] /\ Holds(Tail(s), Requests[n]) => k < n
<1>1. ASSUME NEW m \in Message,
             \A k, n \in 1..3 : m.code = Requests[n] /\ Holds(s, Requests[k]) => k < n
      PROVE  InOrder(Append(s, m))
  <2>. DEFINE t == Append(s, m)
  <2>1. /\ DOMAIN s = 1..Len(s) /\ DOMAIN t = 1..(Len(s) + 1) /\ Len(s) \in Nat
        /\ t[Len(s) + 1] = m /\ \A j \in 1..Len(s) : t[j] = s[j]
    BY AppendProperties
  <2>. HIDE DEF t
  <2>2. SUFFICES ASSUME NEW j \in DOMAIN t, NEW l \in DOMAIN t, j < l,
                        NEW k \in 1..3, NEW n \in 1..3,
                        t[j].code = Requests[k], t[l].code = Requests[n]
                 PROVE  k < n
    BY DEF InOrder, t
  <2>3. j \in DOMAIN s /\ s[j].code = Requests[k]
    BY <2>1, <2>2
  <2>4. CASE l = Len(s) + 1
    BY <1>1, <2>1, <2>2, <2>3, <2>4 DEF Holds
  <2>5. CASE l # Len(s) + 1
    <3>1. l \in DOMAIN s /\ s[l].code = Requests[n]
      BY <2>1, <2>2, <2>5
    <3>. QED
      BY <2>2, <2>3, <3>1 DEF InOrder
  <2>. QED
    BY <2>4, <2>5
<1>2. ASSUME s # <<>>
      PROVE  /\ InOrder(Tail(s))
             /\ \A k, n \in 1..3 :
                  Head(s).code = Requests[k] /\ Holds(Tail(s), Requests[n]) => k < n
  <2>. DEFINE t == Tail(s)
  <2>1. /\ DOMAIN s = 1..Len(s) /\ DOMAIN t = 1..(Len(s) - 1) /\ Len(s) \in Nat \ {0}
        /\ s[1] = Head(s) /\ \A j \in 1..(Len(s) - 1) : t[j] = s[j + 1]
    BY <1>2, HeadTailProperties
  <2>2. \A j \in DOMAIN t : j + 1 \in DOMAIN s /\ t[j] = s[j + 1] /\ j \in Nat /\ j > 0
    BY <2>1
  <2>3. 1 \in DOMAIN s /\ s[1] = Head(s)
    BY <2>1
  <2>. HIDE DEF t
  <2>4. InOrder(t)
    <3>1. SUFFICES ASSUME NEW j \in DOMAIN t, NEW l \in DOMAIN t, j < l,
                          NEW k \in 1..3, NEW n \in 1..3,
                          t[j].code = Requests[k], t[l].code = Requests[n]
                   PROVE  k < n
      BY DEF InOrder
    <3>2. /\ j + 1 \in DOMAIN s /\ l + 1 \in DOMAIN s /\ j + 1 < l + 1
          /\ s[j + 1].code = Requests[k] /\ s[l + 1].code = Requests[n]
      BY <2>2, <3>1
    <3>. QED
      BY <3>2 DEF InOrder
  <2>5. ASSUME NEW k \in 1..3, NEW n \in 1..3, Head(s).code = Requests[k],
               Holds(t, Requests[n])
        PROVE  k < n
    <3>1. PICK l \in DOMAIN t : t[l].code = Requests[n]
      BY <2>5 DEF Holds
    <3>2. l + 1 \in DOMAIN s /\ s[l + 1].code = Requests[n] /\ 1 < l + 1
      BY <2>2, <3>1
    <3>. QED
      BY <2>3, <2>5, <3>2 DEF InOrder
  <2>. QED
    BY <2>4, <2>5 DEF t
<1>. QED
  BY <1>1, <1>2

----------------------------------------------------------------------------
\* What an installer may do to itself: go on without a decision, decide, go on with the
\* decision it has, or end.  Only a decision on success gives the exit code of success.
LEMMA InstallerPace ==
  ASSUME TypeInv, NEW i \in Call, InstallerStep(i) \/ PolicyStep(i)
  PROVE  /\ inst[i].pc \notin {"absent", "dead"} /\ inst'[i].pc # "absent"
         /\ \A j \in Call : j # i => inst'[j] = inst[j]
         /\ \/ /\ inst'[i].ret = inst[i].ret /\ inst'[i].exit = inst[i].exit
               /\ inst'[i].pc # "dead"
               /\ inst'[i].pc \in Decided <=> inst[i].pc \in Decided
               /\ inst'[i].pc = "filter" <=> inst[i].pc = "filter"
            \/ /\ inst[i].pc \notin Decided \cup {"filter"} /\ inst'[i].pc = "done"
               /\ inst'[i].ret \in Statuses /\ inst'[i].exit = inst[i].exit
            \/ /\ inst'[i].pc = "dead" /\ inst'[i].ret = inst[i].ret
               /\ inst'[i].exit # "STILL_ACTIVE"
               /\ inst'[i].exit = Success => inst[i].ret = Success
            \/ /\ inst[i].pc = "filter" /\ inst'[i].pc = "dead"
               /\ inst'[i].ret \in Statuses /\ inst'[i].exit = inst'[i].ret
               /\ inst'[i].exit # "STILL_ACTIVE"
<1>1. inst \in [Call -> PacedInstaller] /\ inst[i] \in Installer
  BY DEF TypeInv, PacedInstaller
<1>2. inst[i].pc \in Steps
  BY <1>1 DEF Installer
<1>3. Success # "STILL_ACTIVE" /\ \A r \in Statuses : r # "STILL_ACTIVE"
  BY InstallAssumption DEF Success, Statuses, InitErrors
<1>4. \A k : AfterRequest(k) \in {"ask", "syslog"}
  BY DEF AfterRequest
<1>5. \A j \in Call : j # i => inst'[j] = inst[j]
  BY <1>1 DEF InstallerStep, PolicyStep, Connect, InitDone, InitFails, Ask, AskFails,
     GotAnswer, RequestExpires, RequestBreaks, StartSyslog, LogLine, BeginUpdate, EndUpdate,
     BeginCopy, EndCopy, Completed, Report, Exit, DisableRestore, EnableRestore, ClosePipe,
     FilterExit, InstallerCrash, Step, Dead, Gone
<1>6. ASSUME NEW code, Dead(i, code)
      PROVE  inst'[i].pc = "dead" /\ inst'[i].ret = inst[i].ret /\ inst'[i].exit = code
  BY <1>1, <1>6 DEF Dead, Gone, Absent
<1>7. CASE Connect(i)
  BY <1>1, <1>5, <1>6, <1>7 DEF Connect, Decided, Success, Installer
<1>8. CASE InitFails(i) \/ EndUpdate(i) \/ EndCopy(i)
  <2>1. {Success} \cup InstallErrors \cup InitErrors \subseteq Statuses
    BY DEF Statuses
  <2>. QED
    BY <1>1, <1>5, <1>8, <2>1 DEF InitFails, EndUpdate, EndCopy, Decided, Installer
<1>9. CASE AskFails(i) \/ GotAnswer(i) \/ RequestExpires(i) \/ RequestBreaks(i)
  BY <1>1, <1>4, <1>5, <1>9
     DEF AskFails, GotAnswer, RequestExpires, RequestBreaks, Decided, Installer
<1>10. CASE Ask(i) \/ StartSyslog(i) \/ LogLine(i) \/ ClosePipe(i)
  BY <1>1, <1>2, <1>5, <1>10
     DEF Ask, StartSyslog, LogLine, ClosePipe, Alive, Decided, Installer
<1>11. CASE InitDone(i) \/ BeginUpdate(i) \/ BeginCopy(i) \/ Completed(i) \/ Report(i)
            \/ DisableRestore(i) \/ EnableRestore(i)
  BY <1>1, <1>5, <1>11
     DEF InitDone, BeginUpdate, BeginCopy, Completed, Report, DisableRestore, EnableRestore,
         Step, Decided, Installer
<1>12. CASE Exit(i)
  <2>1. inst[i].pc = "exit" /\ inst[i].ret \in Statuses
    BY <1>1, <1>12 DEF Exit, PacedInstaller, Decided
  <2>. QED
    BY <1>3, <1>5, <1>6, <1>12, <2>1 DEF Exit
<1>13. CASE InstallerCrash(i)
  BY <1>5, <1>6, <1>13 DEF InstallerCrash, Alive, Success
<1>14. CASE FilterExit(i)
  <2>1. PICK r \in {Success} \cup InstallErrors : Gone(i, r, r)
    BY <1>14 DEF FilterExit
  <2>2. inst'[i].pc = "dead" /\ inst'[i].ret = r /\ inst'[i].exit = r /\ r \in Statuses
    BY <1>1, <2>1 DEF Gone, Absent, Statuses
  <2>. QED
    BY <1>3, <1>5, <1>14, <2>2 DEF FilterExit
<1>. QED
  BY <1>7, <1>8, <1>9, <1>10, <1>11, <1>12, <1>13, <1>14 DEF InstallerStep, PolicyStep

\* What an installer writes, from where, and what it must have written to get somewhere.
LEMMA InstallerWrites ==
  ASSUME TypeInv, NEW i \in Call, InstallerStep(i) \/ PolicyStep(i)
  PROVE  /\ \/ msgs' = msgs
            \/ Linked(i) /\ \E m \in Message :
                 /\ msgs' = Append(msgs, m)
                 /\ \A k \in 1..3 : m.code = Requests[k] => Ask(i) /\ k = inst[i].asked + 1
                 /\ m.code = "IC_SET_STATUS" =>
                      inst[i].pc = "report" /\ m.status = inst[i].ret
                 /\ m.code = "IC_SET_TIMEOUT_DEFAULT" =>
                      inst'[i].pc \notin {"updating", "copying"}
                 /\ m.code = "IC_SET_TIMEOUT_INFINITE" => inst[i].pc \in {"update", "copy"}
         /\ Linked(i) /\ inst'[i].pc \in {"updating", "copying"} =>
              \/ inst[i].pc = inst'[i].pc
              \/ \E m \in Message :
                   msgs' = Append(msgs, m) /\ m.code = "IC_SET_TIMEOUT_INFINITE"
         /\ Linked(i) /\ inst'[i].ret = Success /\ inst[i].pc # "filter" =>
              \/ inst[i].ret = Success
              \/ \E m \in Message :
                   msgs' = Append(msgs, m) /\ m.code = "IC_SET_TIMEOUT_DEFAULT"
         /\ Linked(i) /\ inst'[i].pc = "restore" =>
              \/ inst[i].pc = "restore"
              \/ \E m \in Message :
                   /\ msgs' = Append(msgs, m) /\ m.code = "IC_SET_STATUS"
                   /\ m.status = inst'[i].ret
<1>1. inst \in [Call -> PacedInstaller] /\ inst[i] \in PacedInstaller /\ inst[i] \in Installer
  BY DEF TypeInv, PacedInstaller
<1>2. \A n : Msg("IC_SET_TIMEOUT_INFINITE", n).code = "IC_SET_TIMEOUT_INFINITE"
           /\ Msg("IC_SET_TIMEOUT_DEFAULT", n).code = "IC_SET_TIMEOUT_DEFAULT"
           /\ Msg("IC_INSTALLER_COMPLETED", n).code = "IC_INSTALLER_COMPLETED"
           /\ Msg("IC_PRINT_MESSAGE", n).code = "IC_PRINT_MESSAGE"
           /\ Msg("IC_SYSLOG_MESSAGE", n).code = "IC_SYSLOG_MESSAGE"
           /\ Msg("text", n).code = "text"
           /\ \A k \in 1..3 : Msg(Requests[k], n).code = Requests[k]
  BY DEF Msg
<1>3. /\ \A k \in 1..3 : Requests[k] \in {"IC_GET_DEVICE_ID", "IC_GET_HARDWARE_ID",
                                          "IC_GET_USER_SID"}
      /\ \A k, n \in 1..3 : Requests[k] = Requests[n] => k = n
  BY DEF Requests
<1>4. \A k : AfterRequest(k) \in {"ask", "syslog"}
  BY DEF AfterRequest
<1>5. CASE LogLine(i)
  <2>1. PICK m \in Message : /\ msgs' = Append(msgs, m)
                             /\ m.code \in {"IC_PRINT_MESSAGE", "IC_SYSLOG_MESSAGE", "text"}
    BY <1>2, <1>5, MessagesTyped DEF LogLine, Send
  <2>2. inst'[i].pc = inst[i].pc /\ inst'[i].ret = inst[i].ret /\ Linked(i)
    BY <1>1, <1>5 DEF LogLine, Installer
  <2>. QED
    BY <1>3, <2>1, <2>2
<1>6. CASE Ask(i)
  <2>1. inst[i].asked + 1 \in 1..3 /\ Linked(i)
    BY <1>1, <1>6 DEF Ask, PacedInstaller, Installer
  <2>2. PICK m \in Message : /\ msgs' = Append(msgs, m)
                             /\ m.code = Requests[inst[i].asked + 1]
    BY <1>2, <1>6, <2>1, MessagesTyped DEF Ask
  <2>3. inst'[i].pc = "await" /\ inst'[i].ret = inst[i].ret
    BY <1>1, <1>6 DEF Ask, Installer
  <2>. QED
    BY <1>3, <1>6, <2>1, <2>2, <2>3
<1>7. CASE BeginUpdate(i) \/ BeginCopy(i)
  <2>1. /\ inst[i].pc \in {"update", "copy"} /\ inst'[i].ret = inst[i].ret
        /\ inst'[i].pc \in {"copy", "copying", "updating"}
    BY <1>1, <1>7 DEF BeginUpdate, BeginCopy, Step, Installer
  <2>2. CASE Linked(i)
    <3>1. PICK m \in Message : /\ msgs' = Append(msgs, m)
                               /\ m.code = "IC_SET_TIMEOUT_INFINITE"
      BY <1>2, <1>7, <2>2, MessagesTyped DEF BeginUpdate, BeginCopy, Send
    <3>. QED
      BY <1>3, <2>1, <2>2, <3>1 DEF Success
  <2>3. CASE ~Linked(i)
    BY <1>7, <2>3 DEF BeginUpdate, BeginCopy, Send
  <2>. QED
    BY <2>2, <2>3
<1>8. CASE EndUpdate(i) \/ EndCopy(i)
  <2>1. inst'[i].pc \in {"copy", "done"}
    BY <1>1, <1>8 DEF EndUpdate, EndCopy, Installer
  <2>2. CASE Linked(i)
    <3>1. PICK m \in Message : /\ msgs' = Append(msgs, m)
                               /\ m.code = "IC_SET_TIMEOUT_DEFAULT"
      BY <1>2, <1>8, <2>2, MessagesTyped DEF EndUpdate, EndCopy, Send
    <3>. QED
      BY <1>3, <2>1, <2>2, <3>1
  <2>3. CASE ~Linked(i)
    BY <1>8, <2>3 DEF EndUpdate, EndCopy, Send
  <2>. QED
    BY <2>2, <2>3
<1>9. CASE Completed(i)
  <2>1. inst'[i].pc = "report" /\ inst'[i].ret = inst[i].ret
    BY <1>1, <1>9 DEF Completed, Step, Installer
  <2>2. CASE Linked(i)
    <3>1. PICK m \in Message : /\ msgs' = Append(msgs, m)
                               /\ m.code = "IC_INSTALLER_COMPLETED"
      BY <1>2, <1>9, <2>2, MessagesTyped DEF Completed, Send
    <3>. QED
      BY <1>3, <2>1, <2>2, <3>1
  <2>3. CASE ~Linked(i)
    BY <1>9, <2>3 DEF Completed, Send
  <2>. QED
    BY <2>2, <2>3
<1>10. CASE Report(i)
  <2>1. /\ inst[i].pc = "report" /\ inst'[i].pc = "restore" /\ inst'[i].ret = inst[i].ret
        /\ inst[i].ret \in Statuses
    BY <1>1, <1>10 DEF Report, Step, Installer, PacedInstaller, Decided
  <2>2. CASE Linked(i)
    <3>1. PICK m \in Message : /\ msgs' = Append(msgs, m) /\ m.code = "IC_SET_STATUS"
                               /\ m.status = inst[i].ret
      BY <1>10, <2>1, <2>2, MessagesTyped DEF Report, Send
    <3>. QED
      BY <1>3, <2>1, <2>2, <3>1
  <2>3. CASE ~Linked(i)
    BY <1>10, <2>3 DEF Report, Send
  <2>. QED
    BY <2>2, <2>3
<1>11. CASE InitFails(i)
  <2>1. inst'[i].pc = "done" /\ inst'[i].ret \in InitErrors /\ msgs' = msgs
    BY <1>1, <1>11 DEF InitFails, pipeVars, Installer
  <2>. QED
    BY <2>1 DEF InitErrors, Success
<1>12. CASE AskFails(i) \/ GotAnswer(i) \/ RequestExpires(i) \/ RequestBreaks(i)
  <2>1. inst'[i].pc \in {"ask", "syslog"} /\ inst'[i].ret = inst[i].ret /\ msgs' = msgs
    BY <1>1, <1>4, <1>12
       DEF AskFails, GotAnswer, RequestExpires, RequestBreaks, pipeVars, Installer
  <2>. QED
    BY <2>1
<1>13. CASE InitDone(i) \/ StartSyslog(i) \/ ClosePipe(i) \/ DisableRestore(i)
            \/ EnableRestore(i)
  <2>1. /\ inst'[i].pc \in {"ask", "policy", "exit", "update", "close"}
        /\ inst'[i].ret = inst[i].ret /\ msgs' = msgs
    BY <1>1, <1>13 DEF InitDone, StartSyslog, ClosePipe, DisableRestore, EnableRestore,
       Step, pipeVars, Installer
  <2>. QED
    BY <2>1
<1>14. CASE Connect(i) \/ Exit(i) \/ InstallerCrash(i)
  <2>1. ASSUME NEW code, Dead(i, code)
        PROVE  inst'[i].pc = "dead" /\ inst'[i].ret = inst[i].ret
    BY <1>1, <2>1 DEF Dead, Gone, Absent
  <2>2. inst'[i].pc \in {"init", "dead"} /\ inst'[i].ret = inst[i].ret
    BY <1>1, <1>14, <2>1 DEF Connect, Exit, InstallerCrash, Installer
  <2>3. msgs' = msgs
    BY <1>14 DEF Connect, Exit, InstallerCrash, pipeVars
  <2>. QED
    BY <2>2, <2>3
<1>15. CASE FilterExit(i)
  <2>1. inst[i].pc = "filter" /\ inst'[i].pc = "dead" /\ msgs' = msgs
    BY <1>1, <1>15 DEF FilterExit, Gone, Absent, Installer
  <2>. QED
    BY <2>1
<1>. QED
  BY <1>5, <1>6, <1>7, <1>8, <1>9, <1>10, <1>11, <1>12, <1>13, <1>14, <1>15
     DEF InstallerStep, PolicyStep

\* What an installer does to its end of the pipe: it gets it, closes it, or stays where it
\* is on one side of it.
LEMMA InstallerEnd ==
  ASSUME TypeInv, PipeOwned, NEW i \in Call, InstallerStep(i) \/ PolicyStep(i)
  PROVE  \/ /\ pipe = "listening" /\ pipe' = "connected" /\ client' = i /\ msgs' = msgs
            /\ inst[i].pc = "connect" /\ inst'[i] = [inst[i] EXCEPT !.pc = "init"]
         \/ /\ client = i /\ client' = None /\ msgs' = msgs
            /\ pipe' = CASE pipe = "orphan" -> "none"
                          [] pipe = "connected" /\ ~filter_driver -> "closed"
                          [] OTHER -> pipe
            /\ inst'[i].pc \in {"exit", "dead"}
         \/ /\ UNCHANGED <<pipe, client>>
            /\ client = i /\ inst[i].pc \in Connected => inst'[i].pc \in Connected
<1>1. inst \in [Call -> PacedInstaller] /\ inst[i] \in Installer
  BY DEF TypeInv, PacedInstaller
<1>2. CASE Connect(i)
  <2>1. CASE pipe = "listening"
    BY <1>1, <1>2, <2>1 DEF Connect, Installer
  <2>2. CASE pipe # "listening"
    BY <1>2, <2>2 DEF Connect, Connected
  <2>. QED
    BY <2>1, <2>2
<1>3. CASE ClosePipe(i) \/ FilterExit(i) \/ InstallerCrash(i)
  <2>1. inst'[i].pc \in {"exit", "dead"} /\ msgs' = msgs
    <3>1. CASE ClosePipe(i)
      BY <1>1, <3>1 DEF ClosePipe, Installer
    <3>2. CASE FilterExit(i) \/ InstallerCrash(i)
      BY <1>1, <3>2 DEF FilterExit, InstallerCrash, Dead, Gone, Absent
    <3>. QED
      BY <1>3, <3>1, <3>2
  <2>. QED
    BY <1>3, <2>1 DEF ClosePipe, FilterExit, InstallerCrash, CloseEnd
<1>4. CASE ~Connect(i) /\ ~(ClosePipe(i) \/ FilterExit(i) \/ InstallerCrash(i))
  <2>1. UNCHANGED <<pipe, client>>
    BY <1>1, <1>4, InsideSteps
  <2>2. ASSUME inst[i].pc \in Connected PROVE inst'[i].pc \in Connected
    <3>. USE DEF Connected, Steps
    <3>1. \A k : AfterRequest(k) \in Connected
      BY DEF AfterRequest
    <3>2. ~Exit(i)
      BY <2>2 DEF Exit
    <3>3. CASE AskFails(i) \/ GotAnswer(i) \/ RequestExpires(i) \/ RequestBreaks(i)
      BY <1>1, <3>1, <3>3
         DEF AskFails, GotAnswer, RequestExpires, RequestBreaks, Installer
    <3>4. CASE InitDone(i) \/ InitFails(i) \/ Ask(i) \/ StartSyslog(i) \/ LogLine(i)
      BY <1>1, <2>2, <3>4 DEF InitDone, InitFails, Ask, StartSyslog, LogLine, Step, Installer
    <3>5. CASE BeginUpdate(i) \/ EndUpdate(i) \/ BeginCopy(i) \/ EndCopy(i)
      BY <1>1, <3>5 DEF BeginUpdate, EndUpdate, BeginCopy, EndCopy, Step, Installer
    <3>6. CASE Completed(i) \/ Report(i) \/ PolicyStep(i)
      BY <1>1, <3>6
         DEF Completed, Report, PolicyStep, DisableRestore, EnableRestore, Step, Installer
    <3>. QED
      BY <1>4, <3>2, <3>3, <3>4, <3>5, <3>6 DEF InstallerStep
  <2>. QED
    BY <2>1, <2>2
<1>. QED
  BY <1>2, <1>3, <1>4

\* What the application does to the installers: it starts the one of its call, terminates
\* it, or gives one an answer.
LEMMA ParentPace ==
  ASSUME TypeInv, ParentStep
  PROVE  \/ /\ phase = "launch" /\ inst' = [inst EXCEPT ![call] = inst'[call]]
            /\ inst'[call].pc = (IF filter_driver THEN "filter" ELSE "connect")
            /\ inst'[call].ret = NoStatus /\ inst'[call].exit = "STILL_ACTIVE"
            /\ inst'[call].abandoned = 0 /\ call' = call
            /\ phase' \in {"reading", "idle"}
         \/ /\ phase \in {"expired", "broken"} /\ phase' = "idle" /\ call' = call
            /\ inst' = [inst EXCEPT ![call] = inst'[call]]
            /\ inst[call].exit = "STILL_ACTIVE"
            /\ inst'[call].pc = "dead" /\ inst'[call].exit = Success
            /\ inst'[call].ret = inst[call].ret
         \/ ReadMessage /\ \A j \in Call :
              /\ inst'[j].pc = inst[j].pc /\ inst'[j].ret = inst[j].ret
              /\ inst'[j].exit = inst[j].exit /\ inst'[j].asked = inst[j].asked
              /\ inst'[j].ids = inst[j].ids
         \/ ~ReadMessage /\ inst' = inst
<1>1. inst \in [Call -> PacedInstaller] /\ \A j \in Call : inst[j] \in Installer
  BY DEF TypeInv, PacedInstaller
<1>2. phase # "idle" => call \in Call
  BY DEF TypeInv
<1>3. CASE Launch \/ LaunchWithoutBuffer
  <2>1. StartInstaller /\ phase = "launch" /\ call' = call /\ phase' \in {"reading", "idle"}
    BY <1>3 DEF Launch, LaunchWithoutBuffer, Finish
  <2>. QED
    BY <1>1, <1>2, <2>1 DEF StartInstaller, Absent
<1>4. CASE KillSilent \/ BrokenExpires
  <2>1. /\ phase \in {"expired", "broken"} /\ phase' = "idle" /\ call' = call
        /\ inst' = inst \/ (inst[call].exit = "STILL_ACTIVE" /\ Dead(call, Success))
    BY <1>4 DEF KillSilent, BrokenExpires, Finish, Terminate
  <2>2. ~ReadMessage
    BY <2>1 DEF ReadMessage
  <2>3. CASE Dead(call, Success)
    BY <1>1, <1>2, <2>1, <2>2, <2>3 DEF Dead, Gone, Absent
  <2>. QED
    BY <2>1, <2>2, <2>3
<1>5. CASE ReadMessage
  <2>1. CASE UNCHANGED inst
    BY <1>5, <2>1
  <2>2. CASE client \in Call /\ inst' = [inst EXCEPT ![client].abandoned = @ - 1]
    BY <1>1, <1>5, <2>2 DEF Installer
  <2>3. CASE client \in Call /\ \E k : inst' = [inst EXCEPT ![client].answer = Answer(k)]
    BY <1>1, <1>5, <2>3 DEF Installer
  <2>4. client \in Call \cup {None}
    BY DEF TypeInv, TypeOK
  <2>. QED
    BY <1>5, <2>1, <2>2, <2>3, <2>4 DEF ReadMessage, Deliver
<1>6. CASE inst' = inst
  BY <1>1, <1>6
<1>. QED
  BY <1>3, <1>4, <1>5, <1>6
     DEF ParentStep, CallStep, StartFails, CreatePipe, LaunchFails, ReadListening,
         ReadOverflow, ReadOverflowFails, ReadVerdict, ProcessEnded, WaitExpires, PipeBroken,
         BrokenEnded, ParentCrash, vars, parentVars, bufVars, pipeVars

----------------------------------------------------------------------------
\* The state of the pipe goes with the phase of the call, and whoever is its client is
\* connected.
PipeInPhase ==
  /\ phase = "idle" => pipe \in {"none", "orphan"}
  /\ phase # "idle" => /\ pipe \in {"listening", "connected", "closed"}
                       /\ current_device.of = call /\ result = NoStatus
  /\ phase = "broken" => pipe = "closed" /\ msgs = <<>>
  /\ pipe = "closed" => ~filter_driver
  /\ phase = "launch" /\ filter_driver => msgs = <<>>
  /\ client # None => inst[client].pc \in Connected

\* No installer runs before its call starts it, each decides once, and the exit code of a
\* success is its own while the call can see it.
DecidesOnce ==
  /\ phase = "launch" => inst[call].pc = "absent"
  /\ \A i \in Call :
       /\ i > call => inst[i].pc = "absent"
       /\ inst[i].pc \notin Decided \cup {"dead"} => inst[i].ret = NoStatus
       /\ inst[i].pc = "dead" <=> inst[i].exit # "STILL_ACTIVE"
       /\ inst[i].exit = Success => inst[i].ret = Success \/ i < call \/ phase = "idle"

\* A call for a filter driver has its end of the pipe from the start, and an installer of
\* its own kind.
FilterApart ==
  phase # "idle" =>
    /\ filter_driver => /\ pipe = "connected" /\ client \in {None, call}
                        /\ inst[call].pc \in {"absent", "filter", "dead"}
    /\ ~filter_driver => inst[call].pc # "filter"

\* While no application has crashed, every status on its way is what the installer of the
\* call decided on, and that one is at its end when the pipe is closed.  An installer that
\* has reported a failure has not succeeded as long as the report is not read.
StatusSent ==
  phase # "idle" =>
    /\ faults = 0 =>
         /\ \A j \in DOMAIN msgs : msgs[j].code = "IC_SET_STATUS" =>
              msgs[j].status = inst[call].ret /\ msgs[j].status # NoStatus
         /\ pipe = "closed" => inst[call].pc \in {"exit", "dead"}
    /\ inst[call].pc \in {"restore", "close", "exit"} =>
         inst[call].ret = Success \/ Failing(msgs)

\* While the installer is in an operation of Windows, the timeout is suspended, or will
\* be when what the installer wrote is read.
SuspensionSent ==
  phase # "idle" /\ inst[call].pc \in {"updating", "copying"} =>
    \/ timeout = "infinite" /\ ~Holds(msgs, "IC_SET_TIMEOUT_DEFAULT")
    \/ Ends(msgs, "IC_SET_TIMEOUT_INFINITE", "IC_SET_TIMEOUT_DEFAULT")

\* While no application has crashed, the timeout of an installer that has succeeded is back
\* to the default, or will be when what the installer wrote is read.
RestorationSent ==
  phase # "idle" /\ faults = 0 /\ ~filter_driver /\ inst[call].ret = Success =>
    \/ timeout = "default" /\ ~Holds(msgs, "IC_SET_TIMEOUT_INFINITE")
    \/ Ends(msgs, "IC_SET_TIMEOUT_DEFAULT", "IC_SET_TIMEOUT_INFINITE")

\* What is known of the pipe and of the decision, from which the rest follows.
CallBase == OwnInv /\ Reassembly /\ PipeInPhase /\ DecidesOnce /\ FilterApart

\* What an installer's step leaves to the application.
LEMMA InstallerLeaves ==
  ASSUME NEW i \in Call, InstallerStep(i) \/ PolicyStep(i)
  PROVE  /\ UNCHANGED <<phase, call, current_device, filter_driver, timeout, result>>
         /\ UNCHANGED <<bufsize, offset, faults>>
  BY DEF InstallerStep, PolicyStep, parentVars, bufVars

\* A step of an installer keeps what is known of the pipe and of the decisions.
LEMMA InstallerBase ==
  ASSUME CallBase, NEW i \in Call, InstallerStep(i) \/ PolicyStep(i)
  PROVE  PipeInPhase' /\ DecidesOnce' /\ FilterApart'
<1>. USE DEF CallBase, OwnInv
<1>1. UNCHANGED <<phase, call, current_device, filter_driver, timeout, result, faults>>
  BY InstallerLeaves
<1>2. /\ client \in Call \cup {None} /\ call \in 0..MaxCalls /\ i # None
      /\ inst \in [Call -> PacedInstaller] /\ \A j \in Call : inst[j] \in Installer
  BY SMTT(30) DEF TypeInv, TypeOK, PacedInstaller, Call, None
<1>3. msgs' = msgs \/ Linked(i)
  BY InstallerWrites
<1>4. PipeInPhase'
  <2>. USE DEF PipeInPhase
  <2>1. phase' = "broken" => pipe' = "closed" /\ msgs' = <<>>
    BY <1>1, <1>3, InstallerEnd DEF Linked, PipeOwned
  <2>2. phase' = "launch" /\ filter_driver' => msgs' = <<>>
    BY <1>1, <1>2, <1>3 DEF Linked, PipeOwned
  <2>3. /\ phase' = "idle" => pipe' \in {"none", "orphan"}
        /\ phase' # "idle" => pipe' \in {"listening", "connected", "closed"}
        /\ pipe' = "closed" => ~filter_driver'
    BY <1>1, InstallerEnd
  <2>4. client' # None => inst'[client'].pc \in Connected
    <3>1. \/ client' = i /\ inst'[i].pc = "init"
          \/ client' = None
          \/ client' = client /\ (client = i /\ inst[i].pc \in Connected
                                    => inst'[i].pc \in Connected)
      BY <1>2, InstallerEnd DEF Installer
    <3>2. client # None => inst[client].pc \in Connected
      OBVIOUS
    <3>3. \A j \in Call : j # i => inst'[j] = inst[j]
      BY InstallerPace
    <3>. HIDE DEF PipeInPhase, CallBase, OwnInv
    <3>4. "init" \in Connected
      BY DEF Connected, Steps
    <3>. QED
      BY <1>2, <3>1, <3>2, <3>3, <3>4
  <2>. QED
    BY <1>1, <2>1, <2>2, <2>3, <2>4
<1>5. DecidesOnce'
  <2>. USE DEF DecidesOnce
  <2>1. \A j \in Call : j # i => inst'[j] = inst[j]
    BY InstallerPace
  <2>2. i <= call /\ (phase = "launch" => i # call)
    BY <1>2, InstallerPace DEF Call
  <2>3. phase' = "launch" => inst'[call'].pc = "absent"
    BY <1>1, <2>1, <2>2 DEF TypeInv
  <2>4. /\ inst'[i].pc \notin Decided \cup {"dead"} => inst'[i].ret = NoStatus
        /\ inst'[i].pc = "dead" <=> inst'[i].exit # "STILL_ACTIVE"
        /\ inst'[i].exit = Success => inst'[i].ret = Success
    BY InstallerPace DEF Decided, Success
  <2>. QED
    BY <1>1, <1>2, <2>1, <2>2, <2>3, <2>4 DEF Call
<1>6. FilterApart'
  <2>. USE DEF FilterApart
  <2>1. SUFFICES ASSUME phase # "idle" PROVE FilterApart'
    BY <1>1
  <2>2. call \in Call /\ \A j \in Call : j # i => inst'[j] = inst[j]
    BY <2>1, InstallerPace DEF TypeInv
  <2>3. CASE filter_driver
    <3>1. pipe' = "connected" /\ client' \in {None, call}
      BY <2>1, <2>3, InstallerEnd
    <3>2. inst'[call].pc \in {"absent", "filter", "dead"}
      BY <2>1, <2>2, <2>3, InstallerPace DEF Decided
    <3>. QED
      BY <1>1, <2>3, <3>1, <3>2
  <2>4. CASE ~filter_driver
    BY <1>1, <2>1, <2>2, <2>4, InstallerPace
  <2>. QED
    BY <2>3, <2>4
<1>. QED
  BY <1>4, <1>5, <1>6

\* The steps of the application by what they make of the call: none starts or ends one but
\* these.
LEMMA ParentPhases ==
  ASSUME TypeInv, ParentStep
  PROVE  \/ StartFails \/ CreatePipe \/ Launch \/ ParentCrash
         \/ /\ phase # "idle" /\ UNCHANGED <<call, filter_driver>>
            /\ \E r, left : Finish(r, left)
            /\ LaunchFails \/ LaunchWithoutBuffer \/ ReadOverflowFails \/ ReadVerdict
                 \/ ProcessEnded \/ KillSilent \/ BrokenEnded \/ BrokenExpires
         \/ /\ phase \in {"reading", "expired"} /\ phase' \in {"reading", "expired", "broken"}
            /\ phase' = "broken" => pipe = "closed" /\ msgs = <<>> /\ msgs' = <<>>
            /\ UNCHANGED <<call, current_device, filter_driver, result, pipe, client, faults>>
            /\ msgs' = msgs \/ (ReadMessage /\ msgs # <<>> /\ msgs' = Tail(msgs))
            /\ ReadMessage \/ UNCHANGED <<timeout, inst, replies>>
  BY DEF ParentStep, CallStep, LaunchFails, LaunchWithoutBuffer, ReadListening, ReadOverflow,
     ReadOverflowFails, ReadMessage, ReadVerdict, ProcessEnded, WaitExpires, KillSilent,
     PipeBroken, BrokenEnded, BrokenExpires, Finish, vars, parentVars, pipeVars

\* A step of the application keeps what is known of the pipe and of the decisions.
LEMMA ParentBase ==
  ASSUME CallBase, ParentStep
  PROVE  PipeInPhase' /\ DecidesOnce' /\ FilterApart'
<1>. USE DEF CallBase, OwnInv
<1>1. /\ client \in Call \cup {None} /\ call \in 0..MaxCalls
      /\ phase # "idle" => call \in Call
      /\ inst \in [Call -> PacedInstaller] /\ \A j \in Call : inst[j] \in Installer
  BY DEF TypeInv, TypeOK, PacedInstaller
<1>2. PipeInPhase'
  <2>. USE DEF PipeInPhase
  <2>1. CASE StartFails
    BY <2>1 DEF StartFails, pipeVars
  <2>2. CASE CreatePipe
    <3>1. client = None /\ msgs = <<>>
      BY <2>2 DEF CreatePipe, PipeOwned, Expected
    <3>. QED
      BY <2>2, <3>1 DEF CreatePipe
  <2>3. CASE Launch
    <3>1. client # call /\ inst'[call].pc = IF filter_driver THEN "filter" ELSE "connect"
      BY <1>1, <2>3, Started DEF Launch, DecidesOnce, Connected, Call, None
    <3>2. \A j \in Call : j # call => inst'[j] = inst[j]
      BY <1>1, <2>3, Started DEF Launch
    <3>3. client' # None => inst'[client'].pc \in Connected
      BY <1>1, <2>3, <3>1, <3>2 DEF Launch, Connected, Steps
    <3>. QED
      BY <2>3, <3>3 DEF Launch
  <2>4. CASE ParentCrash
    BY <2>4 DEF ParentCrash
  <2>5. ASSUME NEW r, NEW left, Finish(r, left), left # None => inst'[left].pc \in Connected
        PROVE  PipeInPhase'
    BY <2>5 DEF Finish
  <2>6. CASE LaunchWithoutBuffer
    <3>1. client # call /\ inst'[call].pc = IF filter_driver THEN "filter" ELSE "connect"
      BY <1>1, <2>6, Started DEF LaunchWithoutBuffer, DecidesOnce, Connected, Call, None
    <3>2. \A j \in Call : j # call => inst'[j] = inst[j]
      BY <1>1, <2>6, Started DEF LaunchWithoutBuffer
    <3>. QED
      BY <1>1, <2>5, <2>6, <3>1, <3>2 DEF LaunchWithoutBuffer, Connected, Steps
  <2>7. CASE KillSilent
    <3>1. \/ inst' = inst
          \/ inst'[call].pc = "dead" /\ \A j \in Call : j # call => inst'[j] = inst[j]
      BY <1>1, <2>7, Died DEF KillSilent, Terminate
    <3>. QED
      BY <1>1, <2>5, <2>7, <3>1 DEF KillSilent
  <2>8. CASE BrokenExpires
    BY <2>5, <2>8 DEF BrokenExpires, PipeOwned
  <2>9. CASE LaunchFails \/ ReadOverflowFails \/ ReadVerdict \/ ProcessEnded \/ BrokenEnded
    BY <2>5, <2>9
       DEF LaunchFails, ReadOverflowFails, ReadVerdict, ProcessEnded, BrokenEnded
  <2>10. CASE /\ phase \in {"reading", "expired"} /\ phase' \in {"reading", "expired", "broken"}
              /\ phase' = "broken" => pipe = "closed" /\ msgs' = <<>>
              /\ UNCHANGED <<call, current_device, filter_driver, result, pipe, client>>
              /\ ReadMessage \/ UNCHANGED inst
    <3>1. \A j \in Call : inst'[j].pc = inst[j].pc
      BY <1>1, <2>10, ReadStays
    <3>. QED
      BY <1>1, <2>10, <3>1
  <2>. QED
    BY <2>1, <2>2, <2>3, <2>4, <2>6, <2>7, <2>8, <2>9, <2>10, ParentPhases
<1>3. DecidesOnce'
  <2>. USE DEF DecidesOnce
  <2>1. CASE StartFails \/ CreatePipe
    <3>1. /\ call' = call + 1 /\ phase = "idle" /\ inst' = inst /\ call \in Nat
          /\ phase' \in {"idle", "launch"} /\ (phase' = "launch" => call' \in Call)
      BY <1>1, <2>1, InstallAssumption DEF StartFails, CreatePipe, Call
    <3>2. call' > call /\ \A j \in Call : j > call' => j > call
      BY <3>1 DEF Call
    <3>3. \A j \in Call : inst[j].exit = Success => j < call'
      <4>1. SUFFICES ASSUME NEW j \in Call, inst[j].exit = Success PROVE j < call'
        OBVIOUS
      <4>2. inst[j].pc = "dead"
        BY <4>1 DEF Success
      <4>3. ~(j > call)
        BY <4>2
      <4>. QED
        BY <3>1, <4>3 DEF Call
    <3>. QED
      BY <3>1, <3>2, <3>3
  <2>2. CASE /\ phase = "launch" /\ inst' = [inst EXCEPT ![call] = inst'[call]]
             /\ inst'[call].pc = (IF filter_driver THEN "filter" ELSE "connect")
             /\ inst'[call].ret = NoStatus /\ inst'[call].exit = "STILL_ACTIVE"
             /\ call' = call /\ phase' \in {"reading", "idle"}
    <3>1. call \in Call /\ \A j \in Call : j # call => inst'[j] = inst[j]
      BY <1>1, <2>2
    <3>. QED
      BY <2>2, <3>1 DEF Decided, Success, Call
  <2>3. CASE /\ phase \in {"expired", "broken"} /\ phase' = "idle" /\ call' = call
             /\ inst' = [inst EXCEPT ![call] = inst'[call]]
             /\ inst[call].exit = "STILL_ACTIVE"
             /\ inst'[call].pc = "dead" /\ inst'[call].exit = Success
             /\ inst'[call].ret = inst[call].ret
    <3>1. call \in Call /\ \A j \in Call : j # call => inst'[j] = inst[j]
      BY <1>1, <2>3
    <3>. QED
      BY <2>3, <3>1 DEF Success, Call
  <2>4. CASE /\ ~StartFails /\ ~CreatePipe /\ ~Launch /\ ~LaunchWithoutBuffer
             /\ \A j \in Call : /\ inst'[j].pc = inst[j].pc /\ inst'[j].ret = inst[j].ret
                                /\ inst'[j].exit = inst[j].exit
    <3>1. call' = call /\ phase # "idle" /\ phase' # "launch"
      BY <2>4, ParentPhases DEF ParentCrash, Finish
    <3>. QED
      BY <1>1, <2>4, <3>1
  <2>5. CASE Launch \/ LaunchWithoutBuffer
    <3>1. phase = "launch" /\ ~ReadMessage /\ StartInstaller /\ call \in Call
      BY <1>1, <2>5 DEF Launch, LaunchWithoutBuffer, ReadMessage
    <3>2. inst'[call].pc # "absent"
      BY <1>1, <3>1 DEF StartInstaller, Absent
    <3>3. inst' # inst
      BY <3>1, <3>2
    <3>. QED
      BY <2>2, <3>1, <3>3, ParentPace
  <2>6. CASE inst' = inst
    BY <2>1, <2>4, <2>5, <2>6
  <2>. QED
    BY <2>1, <2>2, <2>3, <2>4, <2>5, <2>6, ParentPace
<1>4. FilterApart'
  <2>. USE DEF FilterApart
  <2>1. CASE StartFails
    BY <2>1 DEF StartFails
  <2>2. CASE CreatePipe
    <3>1. client = None /\ call' \in Call /\ call' > call
      BY <1>1, <2>2, InstallAssumption DEF CreatePipe, PipeOwned, Call
    <3>2. inst'[call'].pc = "absent"
      BY <2>2, <3>1 DEF CreatePipe, DecidesOnce
    <3>. QED
      BY <2>2, <3>1, <3>2 DEF CreatePipe
  <2>3. CASE Launch
    <3>1. inst'[call].pc = IF filter_driver THEN "filter" ELSE "connect"
      BY <1>1, <2>3, Started DEF Launch
    <3>. QED
      BY <2>3, <3>1 DEF Launch
  <2>4. CASE phase' = "idle"
    BY <2>4
  <2>5. CASE /\ phase # "idle" /\ UNCHANGED <<call, filter_driver, pipe, client>>
             /\ ReadMessage \/ UNCHANGED inst
    <3>1. \A j \in Call : inst'[j].pc = inst[j].pc
      BY <1>1, <2>5, ReadStays
    <3>. QED
      BY <1>1, <2>5, <3>1
  <2>. QED
    BY <2>1, <2>2, <2>3, <2>4, <2>5, ParentPhases DEF ParentCrash, Finish
<1>. QED
  BY <1>2, <1>3, <1>4

----------------------------------------------------------------------------
\* An installer that is connected after a step of its own was linked before it.
LEMMA WasLinked ==
  ASSUME CallBase, NEW i \in Call, InstallerStep(i) \/ PolicyStep(i),
         phase # "idle", inst'[i].pc \in Connected \ {"init"}
  PROVE  Linked(i)
<1>. USE DEF CallBase, OwnInv
<1>1. client' = i
  BY InstallerOwned DEF PipeOwned
<1>2. client = i
  <2>1. i # None /\ inst[i] \in Installer
    BY DEF Call, None, TypeInv, PacedInstaller
  <2>2. inst'[i] # [inst[i] EXCEPT !.pc = "init"]
    BY <2>1 DEF Installer
  <2>. QED
    BY <1>1, <2>1, <2>2, InstallerEnd
<1>. QED
  BY <1>2 DEF Linked, PipeOwned, PipeInPhase, Call, None

\* The end of main: nobody gets there but by the restore of the policy, and with the pipe
\* closed nothing is left but to return.
LEMMA LastSteps ==
  ASSUME TypeInv, NEW i \in Call, InstallerStep(i) \/ PolicyStep(i)
  PROVE  /\ inst'[i].pc \in {"close", "exit"} => inst[i].pc \in {"restore", "close", "exit"}
         /\ inst[i].pc = "exit" /\ ~Linked(i) => inst'[i].pc = "dead"
<1>1. inst \in [Call -> PacedInstaller] /\ inst[i] \in Installer
  BY DEF TypeInv, PacedInstaller
<1>2. \A k : AfterRequest(k) \in {"ask", "syslog"}
  BY DEF AfterRequest
<1>3. CASE Exit(i) \/ FilterExit(i) \/ InstallerCrash(i)
  <2>1. inst'[i].pc = "dead"
    BY <1>1, <1>3, ZenonT(60) DEF Exit, FilterExit, InstallerCrash, Dead, Gone, Absent
  <2>. QED
    BY <2>1
<1>4. CASE Connect(i)
  <2>1. inst[i].pc = "connect" /\ inst'[i].pc \in {"init", "dead"}
    <3>1. CASE Dead(i, "WDI_ERROR_NOT_SUPPORTED")
      BY <1>1, <1>4, <3>1, Died DEF Connect
    <3>2. CASE inst' = [inst EXCEPT ![i].pc = "init"]
      BY <1>1, <1>4, <3>2 DEF Connect, Installer
    <3>. QED
      BY <1>4, <3>1, <3>2 DEF Connect
  <2>. QED
    BY <2>1
<1>5. CASE AskFails(i) \/ GotAnswer(i) \/ RequestExpires(i) \/ RequestBreaks(i)
  BY <1>1, <1>2, <1>5
     DEF AskFails, GotAnswer, RequestExpires, RequestBreaks, Installer
<1>6. CASE InitDone(i) \/ InitFails(i) \/ Ask(i) \/ StartSyslog(i) \/ LogLine(i) \/ ClosePipe(i)
  BY <1>1, <1>6
     DEF InitDone, InitFails, Ask, StartSyslog, LogLine, ClosePipe, Step, Installer
<1>7. CASE BeginUpdate(i) \/ EndUpdate(i) \/ BeginCopy(i) \/ EndCopy(i)
  BY <1>1, <1>7 DEF BeginUpdate, EndUpdate, BeginCopy, EndCopy, Step, Installer
<1>8. CASE Completed(i) \/ Report(i) \/ PolicyStep(i)
  BY <1>1, <1>8
     DEF Completed, Report, PolicyStep, DisableRestore, EnableRestore, Step, Installer
<1>. QED
  BY <1>3, <1>4, <1>5, <1>6, <1>7, <1>8 DEF InstallerStep

\* A decision is final.
LEMMA Steadfast ==
  ASSUME TypeInv, DecidesOnce, NEW i \in Call, InstallerStep(i) \/ PolicyStep(i)
  PROVE  \A j \in Call : inst[j].ret # NoStatus => inst'[j].ret = inst[j].ret
  BY InstallerPace DEF DecidesOnce, Decided

\* An installer writes no status but the one it has decided on, and a failure it has
\* reported is in the pipe.
LEMMA InstallerStatus ==
  ASSUME CallBase, StatusSent, NEW i \in Call, InstallerStep(i) \/ PolicyStep(i)
  PROVE  StatusSent'
<1>. USE DEF CallBase, OwnInv
<1>1. UNCHANGED <<phase, call, faults>>
  BY InstallerLeaves
<1>2. SUFFICES ASSUME phase # "idle" PROVE StatusSent'
  BY <1>1 DEF StatusSent
<1>3. /\ call \in Call /\ msgs \in Seq(Message)
      /\ inst[call] \in PacedInstaller
  BY <1>2 DEF TypeInv, TypeOK
<1>4. \A j \in Call : j # i => inst'[j] = inst[j]
  BY InstallerPace
<1>5. faults = 0 /\ Linked(i) => i = call
  BY <1>2 DEF OwnInstaller, Linked, Call, None
<1>6. ASSUME faults = 0, NEW j \in DOMAIN msgs', msgs'[j].code = "IC_SET_STATUS"
      PROVE  msgs'[j].status = inst'[call].ret /\ msgs'[j].status # NoStatus
  <2>1. CASE j \in DOMAIN msgs /\ msgs'[j] = msgs[j]
    <3>1. msgs[j].status = inst[call].ret /\ msgs[j].status # NoStatus
      BY <1>2, <1>6, <2>1 DEF StatusSent
    <3>. QED
      BY <1>3, <2>1, <3>1, Steadfast
  <2>2. CASE ~(j \in DOMAIN msgs /\ msgs'[j] = msgs[j])
    <3>1. msgs' # msgs
      BY <1>6, <2>2
    <3>2. PICK m \in Message : /\ Linked(i) /\ msgs' = Append(msgs, m)
                               /\ m.code = "IC_SET_STATUS" =>
                                    inst[i].pc = "report" /\ m.status = inst[i].ret
      BY <3>1, InstallerWrites
    <3>3. msgs'[j] = m
      BY <1>3, <1>6, <2>2, <3>2, AppendProperties
    <3>4. inst[call].pc = "report" /\ m.status = inst[call].ret
      BY <1>5, <1>6, <3>2, <3>3
    <3>5. inst[call].ret \in Statuses /\ NoStatus \notin Statuses
      BY <1>3, <3>4, InstallAssumption
         DEF PacedInstaller, Decided, Statuses, NoStatus, InitErrors, Success
    <3>. QED
      BY <1>3, <3>3, <3>4, <3>5, Steadfast
  <2>. QED
    BY <2>1, <2>2
<1>7. ASSUME faults = 0, pipe' = "closed" PROVE inst'[call].pc \in {"exit", "dead"}
  <2>1. CASE pipe = "closed"
    <3>1. inst[call].pc \in {"exit", "dead"} /\ ~Linked(i)
      BY <1>2, <1>7, <2>1 DEF StatusSent, Linked
    <3>. QED
      BY <1>3, <1>4, <3>1, LastSteps, InstallerPace
  <2>2. CASE pipe # "closed"
    <3>1. client = i /\ inst'[i].pc \in {"exit", "dead"}
      BY <1>7, <2>2, InstallerEnd
    <3>. QED
      BY <1>2, <1>7, <3>1 DEF OwnInstaller, Call, None
  <2>. QED
    BY <2>1, <2>2
<1>8. ASSUME inst'[call].pc \in {"restore", "close", "exit"}
      PROVE  inst'[call].ret = Success \/ Failing(msgs')
  <2>1. Failing(msgs) => Failing(msgs')
    <3>1. msgs' = msgs \/ \E m \in Message : msgs' = Append(msgs, m)
      BY InstallerWrites
    <3>. QED
      BY <1>3, <3>1, AppendHolds
  <2>2. CASE inst[call].pc \in {"restore", "close", "exit"}
    <3>1. inst[call].ret = Success \/ Failing(msgs)
      BY <1>2, <2>2 DEF StatusSent
    <3>. QED
      BY <1>3, <2>1, <3>1, Steadfast DEF Success, NoStatus
  <2>3. CASE inst[call].pc \notin {"restore", "close", "exit"}
    <3>1. i = call /\ inst'[i].pc = "restore"
      BY <1>3, <1>4, <1>8, <2>3, LastSteps
    <3>2. Linked(i)
      BY <1>2, <3>1, WasLinked DEF Connected, Steps
    <3>3. PICK m \in Message : /\ msgs' = Append(msgs, m) /\ m.code = "IC_SET_STATUS"
                               /\ m.status = inst'[i].ret
      BY <2>3, <3>1, <3>2, InstallerWrites
    <3>. QED
      BY <1>3, <3>1, <3>3, AppendHolds
  <2>. QED
    BY <2>2, <2>3
<1>. QED
  BY <1>1, <1>6, <1>7, <1>8 DEF StatusSent

\* An installer writes the suspension of the timeout before the operation it is for, and
\* the default before its success.
LEMMA InstallerTimeout ==
  ASSUME CallBase, SuspensionSent, RestorationSent,
         NEW i \in Call, InstallerStep(i) \/ PolicyStep(i)
  PROVE  SuspensionSent' /\ RestorationSent'
<1>. USE DEF CallBase, OwnInv
<1>1. UNCHANGED <<phase, call, filter_driver, timeout, faults>>
  BY InstallerLeaves
<1>2. SUFFICES ASSUME phase # "idle" PROVE SuspensionSent' /\ RestorationSent'
  BY <1>1 DEF SuspensionSent, RestorationSent
<1>3. call \in Call /\ msgs \in Seq(Message) /\ inst[call].pc \in Steps
  BY <1>2 DEF TypeInv, TypeOK, PacedInstaller, Installer
<1>4. \A j \in Call : j # i => inst'[j] = inst[j]
  BY InstallerPace
<1>5. ASSUME inst'[call].pc \in {"updating", "copying"}
      PROVE  \/ timeout = "infinite" /\ ~Holds(msgs', "IC_SET_TIMEOUT_DEFAULT")
             \/ Ends(msgs', "IC_SET_TIMEOUT_INFINITE", "IC_SET_TIMEOUT_DEFAULT")
  <2>1. CASE i # call
    <3>1. inst[call].pc \in {"updating", "copying"} /\ client = call
      BY <1>3, <1>4, <1>5, <2>1 DEF PipeOwned, Connected
    <3>2. msgs' = msgs
      BY <2>1, <3>1, InstallerWrites DEF Linked
    <3>. QED
      BY <1>2, <3>1, <3>2 DEF SuspensionSent
  <2>2. CASE i = call
    <3>1. Linked(i)
      BY <1>2, <1>5, <2>2, WasLinked DEF Connected, Steps
    <3>2. CASE \E m \in Message : msgs' = Append(msgs, m) /\ m.code = "IC_SET_TIMEOUT_INFINITE"
      BY <1>3, <3>2, AppendHolds
    <3>3. CASE inst[i].pc = inst'[i].pc
      <4>1. \/ timeout = "infinite" /\ ~Holds(msgs, "IC_SET_TIMEOUT_DEFAULT")
            \/ Ends(msgs, "IC_SET_TIMEOUT_INFINITE", "IC_SET_TIMEOUT_DEFAULT")
        BY <1>2, <1>5, <2>2, <3>3 DEF SuspensionSent
      <4>2. \/ msgs' = msgs
            \/ \E m \in Message :
                 msgs' = Append(msgs, m) /\ m.code # "IC_SET_TIMEOUT_DEFAULT"
        BY <1>5, <2>2, InstallerWrites
      <4>3. ASSUME NEW m \in Message, msgs' = Append(msgs, m),
                   m.code # "IC_SET_TIMEOUT_DEFAULT"
            PROVE  /\ ~Holds(msgs, "IC_SET_TIMEOUT_DEFAULT")
                        => ~Holds(msgs', "IC_SET_TIMEOUT_DEFAULT")
                   /\ Ends(msgs, "IC_SET_TIMEOUT_INFINITE", "IC_SET_TIMEOUT_DEFAULT")
                        => Ends(msgs', "IC_SET_TIMEOUT_INFINITE", "IC_SET_TIMEOUT_DEFAULT")
        BY <1>3, <4>3, AppendHolds
      <4>. QED
        BY <4>1, <4>2, <4>3
    <3>. QED
      BY <1>5, <2>2, <3>1, <3>2, <3>3, InstallerWrites
  <2>. QED
    BY <2>1, <2>2
<1>6. ASSUME faults = 0, ~filter_driver, inst'[call].ret = Success
      PROVE  \/ timeout = "default" /\ ~Holds(msgs', "IC_SET_TIMEOUT_INFINITE")
             \/ Ends(msgs', "IC_SET_TIMEOUT_DEFAULT", "IC_SET_TIMEOUT_INFINITE")
  <2>1. CASE inst[call].ret = Success
    <3>1. \/ timeout = "default" /\ ~Holds(msgs, "IC_SET_TIMEOUT_INFINITE")
          \/ Ends(msgs, "IC_SET_TIMEOUT_DEFAULT", "IC_SET_TIMEOUT_INFINITE")
      BY <1>2, <1>6, <2>1 DEF RestorationSent
    <3>2. Linked(i) => i = call
      BY <1>2, <1>6 DEF OwnInstaller, Linked, Call, None
    <3>3. inst[call].pc \notin {"update", "copy"}
      BY <1>3, <2>1 DEF DecidesOnce, Decided, Success, NoStatus
    <3>4. \/ msgs' = msgs
          \/ \E m \in Message :
               msgs' = Append(msgs, m) /\ m.code # "IC_SET_TIMEOUT_INFINITE"
      BY <3>2, <3>3, InstallerWrites
    <3>5. ASSUME NEW m \in Message, msgs' = Append(msgs, m),
                 m.code # "IC_SET_TIMEOUT_INFINITE"
          PROVE  /\ ~Holds(msgs, "IC_SET_TIMEOUT_INFINITE")
                      => ~Holds(msgs', "IC_SET_TIMEOUT_INFINITE")
                 /\ Ends(msgs, "IC_SET_TIMEOUT_DEFAULT", "IC_SET_TIMEOUT_INFINITE")
                      => Ends(msgs', "IC_SET_TIMEOUT_DEFAULT", "IC_SET_TIMEOUT_INFINITE")
      BY <1>3, <3>5, AppendHolds
    <3>. QED
      BY <3>1, <3>4, <3>5
  <2>2. CASE inst[call].ret # Success
    <3>1. i = call
      BY <1>3, <1>4, <1>6, <2>2
    <3>2. inst[i].pc # "filter"
      BY <1>2, <1>6, <3>1 DEF FilterApart
    <3>3. inst'[i].pc = "done"
      BY <1>6, <2>2, <3>1, <3>2, InstallerPace
    <3>4. Linked(i)
      BY <1>2, <3>3, WasLinked DEF Connected, Steps
    <3>5. PICK m \in Message : msgs' = Append(msgs, m) /\ m.code = "IC_SET_TIMEOUT_DEFAULT"
      BY <1>6, <2>2, <3>1, <3>2, <3>4, InstallerWrites
    <3>. QED
      BY <1>3, <3>5, AppendHolds
  <2>. QED
    BY <2>1, <2>2
<1>. QED
  BY <1>1, <1>5, <1>6 DEF SuspensionSent, RestorationSent

\* A message that process_message takes for a success is no report of a failure.
LEMMA ReadsNoFailure ==
  ASSUME TypeInv, Reassembly, ReadMessage
  PROVE  ~(Head(msgs).code = "IC_SET_STATUS" /\ Head(msgs).status # Success) \/ filter_driver
<1>1. /\ phase = "reading" /\ msgs # <<>> /\ Head(msgs).size \in Nat \ {0}
      /\ offset \in Nat /\ Verdict(Head(msgs), Remaining) = Success
  BY HeadTyped DEF ReadMessage, TypeInv, TypeOK
<1>2. Remaining \in Nat /\ Remaining > 0
  BY <1>1 DEF Remaining, Reassembly
<1>. QED
  BY <1>1, <1>2 DEF Verdict, Success

\* What remains in the pipe after the application has read a message, or none.
LEMMA ParentStatus ==
  ASSUME CallBase, StatusSent, SuspensionSent, RestorationSent, ParentStep
  PROVE  StatusSent' /\ SuspensionSent' /\ RestorationSent'
<1>. USE DEF CallBase, OwnInv
<1>1. /\ msgs \in Seq(Message) /\ call \in 0..MaxCalls
      /\ phase # "idle" => call \in Call
      /\ inst \in [Call -> PacedInstaller] /\ timeout \in {"default", "infinite"}
  BY DEF TypeInv, TypeOK
<1>2. CASE phase' = "idle"
  BY <1>2 DEF StatusSent, SuspensionSent, RestorationSent
<1>3. CASE CreatePipe
  <2>1. /\ call' \in Call /\ call' > call /\ inst' = inst
        /\ pipe' \in {"connected", "listening"} /\ msgs' = <<>>
    BY <1>1, <1>3, InstallAssumption DEF CreatePipe, Call, Expected
  <2>2. inst'[call'].pc = "absent" /\ inst'[call'].ret = NoStatus
    BY <2>1 DEF DecidesOnce, Decided
  <2>. QED
    BY <2>1, <2>2, EmptyHolds
       DEF StatusSent, SuspensionSent, RestorationSent, Success, NoStatus
<1>4. CASE Launch
  <2>1. /\ inst'[call].pc \in {"filter", "connect"} /\ call' = call /\ msgs' = msgs
        /\ pipe' = pipe /\ faults' = faults /\ filter_driver' = filter_driver
        /\ phase = "launch"
    BY <1>1, <1>4, Started DEF Launch
  <2>2. inst'[call].ret = NoStatus
    BY <1>1, <1>4 DEF Launch, StartInstaller, Absent
  <2>3. faults = 0 => msgs = <<>> /\ pipe # "closed"
    BY <2>1 DEF PipeInPhase, Expected
  <2>. QED
    BY <2>1, <2>2, <2>3, EmptyHolds
       DEF StatusSent, SuspensionSent, RestorationSent, Success, NoStatus
<1>5. CASE /\ phase \in {"reading", "expired"} /\ phase' \in {"reading", "expired", "broken"}
           /\ UNCHANGED <<call, current_device, filter_driver, result, pipe, client, faults>>
           /\ msgs' = msgs \/ (ReadMessage /\ msgs # <<>> /\ msgs' = Tail(msgs))
           /\ ReadMessage \/ UNCHANGED <<timeout, inst, replies>>
  <2>1. call \in Call /\ inst'[call].pc = inst[call].pc /\ inst'[call].ret = inst[call].ret
    <3>1. call \in Call
      BY <1>1, <1>5
    <3>2. CASE ReadMessage
      BY <3>1, <3>2, <1>5, ParentPace DEF ReadMessage
    <3>3. CASE ~ReadMessage
      BY <3>1, <3>3, <1>5
    <3>. QED
      BY <3>1, <3>2, <3>3
  <2>2. CASE ~ReadMessage
    BY <1>5, <2>1, <2>2 DEF StatusSent, SuspensionSent, RestorationSent
  <2>3. CASE ReadMessage
    <3>1. msgs # <<>> /\ msgs' = Tail(msgs) /\ timeout' = TimeoutAfter(Head(msgs))
      BY <2>3 DEF ReadMessage
    <3>2. StatusSent'
      <4>1. ASSUME NEW j \in DOMAIN msgs'
            PROVE  \E l \in DOMAIN msgs : msgs'[j] = msgs[l]
        BY <1>1, <3>1, HeadTailProperties
      <4>2. inst[call].pc \in {"restore", "close", "exit"} =>
              inst[call].ret = Success \/ Failing(msgs')
        <5>1. CASE filter_driver
          BY <1>5, <5>1 DEF FilterApart
        <5>2. CASE ~filter_driver
          BY <1>1, <1>5, <2>3, <3>1, <5>2, ReadsNoFailure, TailHolds DEF StatusSent
        <5>. QED
          BY <5>1, <5>2
      <4>. QED
        BY <1>5, <2>1, <4>1, <4>2 DEF StatusSent
    <3>3. SuspensionSent'
      <4>1. SUFFICES ASSUME inst[call].pc \in {"updating", "copying"} PROVE SuspensionSent'
        BY <1>5, <2>1 DEF SuspensionSent
      <4>2. ~filter_driver
        BY <1>5, <4>1 DEF FilterApart
      <4>3. \/ timeout' = "infinite" /\ ~Holds(msgs', "IC_SET_TIMEOUT_DEFAULT")
            \/ Ends(msgs', "IC_SET_TIMEOUT_INFINITE", "IC_SET_TIMEOUT_DEFAULT")
        BY <1>1, <1>5, <3>1, <4>1, <4>2, TailHolds DEF SuspensionSent, TimeoutAfter
      <4>. QED
        BY <4>3 DEF SuspensionSent
    <3>4. RestorationSent'
      <4>1. SUFFICES ASSUME faults = 0, ~filter_driver, inst[call].ret = Success
                     PROVE  RestorationSent'
        BY <1>5, <2>1 DEF RestorationSent
      <4>2. \/ timeout' = "default" /\ ~Holds(msgs', "IC_SET_TIMEOUT_INFINITE")
            \/ Ends(msgs', "IC_SET_TIMEOUT_DEFAULT", "IC_SET_TIMEOUT_INFINITE")
        BY <1>1, <1>5, <3>1, <4>1, TailHolds DEF RestorationSent, TimeoutAfter
      <4>. QED
        BY <4>2 DEF RestorationSent
    <3>. QED
      BY <3>2, <3>3, <3>4
  <2>. QED
    BY <2>2, <2>3
<1>. QED
  BY <1>2, <1>3, <1>4, <1>5, ParentPhases DEF StartFails, ParentCrash, Finish

----------------------------------------------------------------------------
\* The errors of the call itself are no success, and "nothing yet" is no status.
LEMMA StatusesApart ==
  /\ NoStatus \notin Statuses
  /\ Success \notin StartErrors \cup LaunchErrors \cup ReadErrors
  /\ StartErrors \cup LaunchErrors \cup ReadErrors \subseteq Results
  /\ Statuses \subseteq Results
  BY InstallAssumption DEF Statuses, NoStatus, InitErrors, Success, StartErrors, LaunchErrors,
     ReadErrors, Results

\* Steps during a call belong to it, and only three of them are faults.
LEMMA DuringCall ==
  ASSUME ParentStep, phase # "idle", faults \in Nat
  PROVE  /\ call' = call /\ ~StartFails /\ ~CreatePipe
         /\ faults' = faults \/ (faults' = faults + 1 /\ phase' = "idle")
         /\ phase' = "idle" /\ faults' = faults =>
              \/ LaunchFails \/ ReadVerdict \/ ProcessEnded \/ KillSilent \/ BrokenEnded
              \/ BrokenExpires
<1>1. ~StartFails /\ ~CreatePipe
  BY DEF StartFails, CreatePipe
<1>2. CASE LaunchWithoutBuffer \/ ReadOverflowFails \/ ParentCrash
  BY <1>1, <1>2 DEF LaunchWithoutBuffer, ReadOverflowFails, ParentCrash, Finish
<1>3. CASE Launch \/ ReadListening \/ ReadOverflow \/ ReadMessage \/ WaitExpires \/ PipeBroken
  BY <1>1, <1>3 DEF Launch, ReadListening, ReadOverflow, ReadMessage, WaitExpires, PipeBroken,
     vars, parentVars
<1>4. CASE LaunchFails \/ ReadVerdict \/ ProcessEnded \/ KillSilent \/ BrokenEnded
           \/ BrokenExpires
  BY <1>1, <1>4 DEF LaunchFails, ReadVerdict, ProcessEnded, KillSilent, BrokenEnded,
     BrokenExpires, Finish
<1>. QED
  BY <1>1, <1>2, <1>3, <1>4 DEF ParentStep, CallStep

\* What a call returns while nothing has failed under the application: an error of its own,
\* or what its installer decided on, success only with the timeout back to its default.
LEMMA Returns ==
  ASSUME CallBase, StatusSent, RestorationSent, ParentStep,
         phase # "idle", phase' = "idle", faults' = 0
  PROVE  /\ UNCHANGED <<call, filter_driver>>
         /\ \A j \in Call : inst'[j].ret = inst[j].ret
         /\ \/ result' \in StartErrors \cup LaunchErrors \cup ReadErrors
            \/ /\ result' \in Statuses /\ result' = inst[call].ret
               /\ result' = Success /\ ~filter_driver => timeout' = "default"
<1>. USE DEF CallBase, OwnInv
<1>1. /\ call \in Call /\ faults \in Nat /\ inst \in [Call -> PacedInstaller]
      /\ inst[call] \in PacedInstaller
      /\ inst[call].ret \in Statuses \cup {NoStatus}
  BY DEF TypeInv, TypeOK, PacedInstaller, Installer
<1>2. faults = 0
  BY <1>1, DuringCall
<1>3. \/ LaunchFails \/ ReadVerdict \/ ProcessEnded \/ KillSilent \/ BrokenEnded
      \/ BrokenExpires
  BY <1>1, <1>2, DuringCall
<1>4. UNCHANGED <<call, filter_driver, timeout>>
  BY <1>3 DEF LaunchFails, ReadVerdict, ProcessEnded, KillSilent, BrokenEnded, BrokenExpires,
     Finish
<1>5. \A j \in Call : inst'[j].ret = inst[j].ret
  <2>1. (~ReadMessage /\ phase # "launch") \/ inst' = inst
    BY <1>3 DEF LaunchFails, ReadVerdict, ProcessEnded, KillSilent, BrokenEnded,
       BrokenExpires, ReadMessage
  <2>. QED
    BY <1>1, <2>1, ParentPace
<1>6. CASE LaunchFails
  BY <1>4, <1>5, <1>6 DEF LaunchFails, Finish
<1>7. CASE ReadVerdict
  <2>1. /\ result' = Verdict(Head(msgs), Remaining) /\ result' # Success
        /\ msgs # <<>> /\ phase = "reading"
    BY <1>7 DEF ReadVerdict, Finish
  <2>2. CASE result' \in ReadErrors
    BY <1>4, <1>5, <2>2
  <2>3. CASE result' = Head(msgs).status /\ Head(msgs).code = "IC_SET_STATUS"
    <3>1. 1 \in DOMAIN msgs /\ msgs[1] = Head(msgs)
      BY <2>1, HeadTailProperties DEF TypeInv, TypeOK
    <3>2. result' = inst[call].ret /\ result' # NoStatus
      BY <1>2, <2>1, <2>3, <3>1 DEF StatusSent
    <3>. QED
      BY <1>1, <1>4, <1>5, <2>1, <3>2
  <2>. QED
    BY <2>1, <2>2, <2>3 DEF Verdict, ReadErrors
<1>8. CASE KillSilent
  BY <1>4, <1>5, <1>8 DEF KillSilent, Finish, ReadErrors
<1>9. CASE ProcessEnded \/ BrokenEnded \/ BrokenExpires
  <2>1. /\ result' = Completion(inst'[call].exit) /\ msgs = <<>>
        /\ inst' = inst \/ (BrokenExpires /\ inst[call].exit = "STILL_ACTIVE")
    BY <1>9 DEF ProcessEnded, BrokenEnded, BrokenExpires, Finish, PipeInPhase
  <2>2. CASE inst'[call].exit = Success
    <3>1. inst[call].ret = Success
      <4>1. CASE inst' = inst
        BY <1>1, <2>2, <4>1 DEF DecidesOnce, Call
      <4>2. CASE BrokenExpires /\ inst[call].exit = "STILL_ACTIVE"
        <5>1. inst[call].pc = "exit"
          BY <1>1, <1>2, <4>2 DEF BrokenExpires, PipeInPhase, StatusSent, DecidesOnce
        <5>. QED
          BY <2>1, <5>1, EmptyHolds DEF StatusSent
      <4>. QED
        BY <2>1, <4>1, <4>2
    <3>2. ~filter_driver => timeout = "default"
      BY <1>2, <2>1, <3>1, EmptyHolds DEF RestorationSent
    <3>3. result' = Success
      BY <2>1, <2>2 DEF Completion, Success
    <3>. QED
      BY <1>4, <1>5, <3>1, <3>2, <3>3 DEF Statuses
  <2>3. CASE inst'[call].exit # Success
    BY <1>4, <1>5, <2>1, <2>3 DEF Completion, ReadErrors
  <2>. QED
    BY <2>2, <2>3
<1>. QED
  BY <1>3, <1>6, <1>7, <1>8, <1>9

\* What a call that is over has returned.
ResultInv ==
  /\ call = 0 => result = NoStatus
  /\ ResultFaithful /\ SuccessRestoresTimeout

CallInv == CallBase /\ StatusSent /\ SuspensionSent /\ RestorationSent /\ ResultInv

\* Only a step that ends a call changes its result, to what Returns says.
LEMMA ParentResult ==
  ASSUME CallInv, ParentStep
  PROVE  ResultInv'
<1>. USE DEF CallInv, CallBase, OwnInv
<1>1. call \in 0..MaxCalls /\ faults \in Nat /\ (phase # "idle" => call \in Call)
  BY DEF TypeInv, TypeOK
<1>2. CASE phase' # "idle"
  <2>1. result' = NoStatus
    BY <1>2, ParentBase DEF PipeInPhase
  <2>. QED
    BY <1>2, <2>1, StatusesApart DEF ResultInv, ResultFaithful, SuccessRestoresTimeout
<1>3. CASE phase = "idle" /\ phase' = "idle"
  <2>1. StartFails
    BY <1>3, ParentPhases DEF CreatePipe, Launch, ParentCrash
  <2>2. result' \in StartErrors /\ call' # 0
    BY <1>1, <2>1 DEF StartFails
  <2>. QED
    BY <2>2, StatusesApart DEF ResultInv, ResultFaithful, SuccessRestoresTimeout
<1>4. CASE phase # "idle" /\ phase' = "idle"
  <2>1. call' # 0
    BY <1>1, <1>4, DuringCall DEF Call
  <2>2. CASE faults' = 0
    BY <1>1, <1>4, <2>1, <2>2, Returns, StatusesApart
       DEF ResultInv, ResultFaithful, SuccessRestoresTimeout
  <2>3. CASE faults' # 0
    BY <2>1, <2>3 DEF ResultInv, ResultFaithful, SuccessRestoresTimeout
  <2>. QED
    BY <2>2, <2>3
<1>. QED
  BY <1>2, <1>3, <1>4

\* An installer does not change what a call has returned.
LEMMA InstallerResult ==
  ASSUME CallInv, NEW i \in Call, InstallerStep(i) \/ PolicyStep(i)
  PROVE  ResultInv'
<1>. USE DEF CallInv, CallBase, OwnInv, ResultInv
<1>1. UNCHANGED <<phase, call, filter_driver, timeout, result, faults>>
  BY InstallerLeaves
<1>2. ASSUME faults = 0, result \in Statuses \ (StartErrors \cup LaunchErrors \cup ReadErrors)
      PROVE  inst'[call].ret = result
  <2>1. inst[call].ret = result /\ result # NoStatus
    BY <1>2, StatusesApart DEF ResultFaithful
  <2>2. call \in Call
    BY <2>1, InstallAssumption DEF Call, TypeInv, TypeOK
  <2>. QED
    BY <2>1, <2>2, Steadfast
<1>. QED
  BY <1>1, <1>2 DEF ResultFaithful, SuccessRestoresTimeout

\* The invariant holds of the initial state ...
LEMMA CallInvInit == Init => CallInv
<1>. SUFFICES ASSUME Init PROVE CallInv
  OBVIOUS
<1>1. OwnInv
  BY TypeInvInit, OwnedInit DEF Init, OwnInv, Expected, OwnInstaller, Absent
<1>2. Reassembly
  BY InstallAssumption DEF Init, Reassembly
<1>3. PipeInPhase
  BY DEF Init, PipeInPhase
<1>4. DecidesOnce
  BY DEF Init, DecidesOnce, Absent, Decided, Success
<1>5. FilterApart /\ StatusSent /\ SuspensionSent /\ RestorationSent
  BY DEF Init, FilterApart, StatusSent, SuspensionSent, RestorationSent
<1>6. ResultInv
  BY StatusesApart DEF Init, ResultInv, ResultFaithful, SuccessRestoresTimeout
<1>. QED
  BY <1>1, <1>2, <1>3, <1>4, <1>5, <1>6 DEF CallInv, CallBase

\* ... and every step keeps the part that is proved above ...
LEMMA OwnInvStep == OwnInv /\ [Next]_vars => OwnInv'
<1>1. OwnInv /\ UNCHANGED vars => OwnInv'
  BY TypeInvStep, OwnedStep
     DEF OwnInv, Expected, OwnInstaller, vars, parentVars, bufVars, pipeVars
<1>. QED
  BY <1>1, TypeInvStep, OwnedStep, ParentOwn, InstallerOwn DEF OwnInv, Next, Over

\* ... and all of it.
LEMMA CallInvStep == CallInv /\ [Next]_vars => CallInv'
<1>. SUFFICES ASSUME CallInv, [Next]_vars PROVE CallInv'
  OBVIOUS
<1>. USE DEF CallInv, CallBase
<1>1. OwnInv' /\ Reassembly'
  BY OwnInvStep, ReassemblyStep DEF OwnInv
<1>2. CASE UNCHANGED vars
  <2>1. PipeInPhase' /\ DecidesOnce' /\ FilterApart'
    BY <1>2 DEF PipeInPhase, DecidesOnce, FilterApart, vars, parentVars, pipeVars
  <2>2. StatusSent' /\ SuspensionSent' /\ RestorationSent' /\ ResultInv'
    BY <1>2 DEF StatusSent, SuspensionSent, RestorationSent, ResultInv, ResultFaithful,
       SuccessRestoresTimeout, vars, parentVars, pipeVars
  <2>. QED
    BY <1>1, <2>1, <2>2
<1>3. CASE ParentStep
  BY <1>1, <1>3, ParentBase, ParentStatus, ParentResult
<1>4. CASE \E i \in Call : InstallerStep(i) \/ PolicyStep(i)
  BY <1>1, <1>4, InstallerBase, InstallerStatus, InstallerTimeout, InstallerResult
<1>. QED
  BY <1>2, <1>3, <1>4 DEF Next, Over

\* A call that returns success, or an error that is not its own, returns what its installer
\* decided on, for any number of calls, crashes of installers and late answers.
THEOREM ResultIsFaithful == Spec => []ResultFaithful
<1>1. CallInv => ResultFaithful
  BY DEF CallInv, ResultInv
<1>. QED
  BY <1>1, CallInvInit, CallInvStep, PTL DEF Spec

\* An install that succeeded leaves the timeout at its default.
THEOREM TimeoutIsRestored == Spec => []SuccessRestoresTimeout
<1>1. CallInv => SuccessRestoresTimeout
  BY DEF CallInv, ResultInv
<1>. QED
  BY <1>1, CallInvInit, CallInvStep, PTL DEF Spec

\* The decision that an installer no longer responds is never taken while it is inside one
\* of the operations of Windows, even after crashes: it wrote the suspension before, and
\* the application waits only once it has read everything.
THEOREM WindowsMayTakeForever == Spec => NeverGivesUpOnWindows
<1>1. CallInv /\ [Next]_vars =>
        (phase = "reading" /\ phase' = "expired" =>
           inst[call].pc \notin {"updating", "copying"})
  <2>. SUFFICES ASSUME CallInv, [Next]_vars, phase = "reading", phase' = "expired"
                PROVE  inst[call].pc \notin {"updating", "copying"}
    OBVIOUS
  <2>1. ParentStep
    BY InstallerLeaves DEF Next, Over, vars, parentVars
  <2>2. WaitExpires
    BY <2>1 DEF ParentStep, CallStep, StartFails, CreatePipe, LaunchFails, Launch,
       LaunchWithoutBuffer, ReadListening, ReadOverflow, ReadOverflowFails, ReadMessage,
       ReadVerdict, ProcessEnded, KillSilent, PipeBroken, BrokenEnded, BrokenExpires,
       ParentCrash, Finish, vars, parentVars
  <2>. QED
    BY <2>2, EmptyHolds DEF WaitExpires, CallInv, SuspensionSent
<1>. QED
  BY <1>1, CallInvInit, CallInvStep, PTL DEF Spec, NeverGivesUpOnWindows

\* A call whose installer ended before it opened the pipe reads for ever: no step of any
\* process gets it out but the end of the application, for nobody else can open the pipe and
\* only a pipe that was opened is waited for with a timeout.
THEOREM HangIsForEver == Spec => HungForEver
<1>1. CallInv /\ [Next]_vars => (Hung /\ faults = 0 => Hung' \/ faults' > 0)
  <2>. SUFFICES ASSUME CallInv, [Next]_vars, Hung, faults = 0 PROVE Hung' \/ faults' > 0
    OBVIOUS
  <2>. USE DEF CallInv, CallBase, OwnInv
  <2>1. /\ call \in Call /\ client = None /\ msgs = <<>> /\ inst[call].pc = "dead"
        /\ \A i \in Call : inst[i].pc # "connect"
    <3>1. call \in Call /\ inst[call].pc = "dead"
      BY DEF Hung, Ended, TypeInv, DecidesOnce
    <3>. QED
      BY <3>1, Unowned DEF Hung, Expected
  <2>2. CASE ParentStep
    <3>1. \/ UNCHANGED <<phase, pipe, call, inst>>
          \/ faults' = faults + 1
      BY <2>1, <2>2 DEF Hung, Ended, ParentStep, CallStep, StartFails, CreatePipe, LaunchFails,
         Launch, LaunchWithoutBuffer, ReadListening, ReadOverflow, ReadOverflowFails,
         ReadMessage, ReadVerdict, ProcessEnded, WaitExpires, KillSilent, PipeBroken,
         BrokenEnded, BrokenExpires, ParentCrash, vars, parentVars, pipeVars
    <3>. QED
      BY <3>1 DEF Hung, Ended
  <2>3. ASSUME NEW i \in Call, InstallerStep(i) \/ PolicyStep(i) PROVE Hung'
    <3>1. inst'[call] = inst[call] /\ UNCHANGED <<phase, call>>
      BY <2>1, <2>3, InstallerPace, InstallerLeaves
    <3>2. pipe' = pipe
      <4>1. ~Connect(i)
        BY <2>1 DEF Connect
      <4>2. CASE ClosePipe(i) \/ FilterExit(i) \/ InstallerCrash(i)
        BY <2>1, <4>2 DEF ClosePipe, FilterExit, InstallerCrash, CloseEnd, Call, None
      <4>. QED
        BY <2>3, <4>1, <4>2, InsideSteps DEF TypeInv
    <3>. QED
      BY <3>1, <3>2 DEF Hung, Ended
  <2>4. CASE UNCHANGED vars
    BY <2>4 DEF Hung, Ended, vars, parentVars, pipeVars
  <2>. QED
    BY <2>2, <2>3, <2>4 DEF Next, Over
<1>. QED
  BY <1>1, CallInvInit, CallInvStep, PTL DEF Spec, HungForEver

----------------------------------------------------------------------------
Bit(b) == IF b THEN 1 ELSE 0

\* How many requests are in s.
Listed(s) ==
  Bit(Holds(s, Requests[1])) + Bit(Holds(s, Requests[2])) + Bit(Holds(s, Requests[3]))

Waiting(i) == inst[i].pc = "await" /\ inst[i].answer = NoReply

\* The requests in the pipe are those of the client, in its order, and as many as it has
\* reads pending: what it has given up on, and what it waits for, which is the last.  This
\* is why an answer always meets the read of its own request.
RequestsCounted ==
  /\ replies = <<>>
  /\ \A i \in Call : inst[i].pc = "filter" => inst[i].asked = 0
  /\ \A i \in Call : Linked(i) =>
       /\ InOrder(msgs)
       /\ \A k \in 1..3 : Holds(msgs, Requests[k]) => k <= inst[i].asked
       /\ inst[i].abandoned + Bit(Waiting(i)) = Listed(msgs)
       /\ Waiting(i) => Holds(msgs, Requests[inst[i].asked])

\* The answer an installer has received, and each identity it holds, are those it asked for.
AnswersOwn ==
  /\ \A i \in Call : inst[i].pc = "await" /\ inst[i].answer # NoReply =>
       /\ inst[i].answer.req = inst[i].asked
       /\ faults = 0 => inst[i].answer.of \in {None, i}
  /\ IdentityIsOwn

\* A request written after all others is listed, and the first that is read no longer is.
LEMMA ListedKept ==
  ASSUME NEW s \in Seq(Message), InOrder(s)
  PROVE  /\ \A m \in Message : \A k \in 1..3 :
              m.code = Requests[k] /\ ~Holds(s, Requests[k])
                => Listed(Append(s, m)) = Listed(s) + 1
         /\ \A m \in Message :
              (\A k \in 1..3 : m.code # Requests[k]) => Listed(Append(s, m)) = Listed(s)
         /\ s # <<>> =>
              /\ \A k \in 1..3 : Head(s).code = Requests[k] =>
                   Listed(Tail(s)) = Listed(s) - 1 /\ ~Holds(Tail(s), Requests[k])
              /\ (\A k \in 1..3 : Head(s).code # Requests[k]) => Listed(Tail(s)) = Listed(s)
<1>1. \A k, n \in 1..3 : Requests[k] = Requests[n] => k = n
  BY DEF Requests
<1>2. \A m \in Message, n \in 1..3 :
        Holds(Append(s, m), Requests[n]) <=> Holds(s, Requests[n]) \/ m.code = Requests[n]
  BY AppendHolds
<1>3. ASSUME NEW m \in Message, NEW k \in 1..3, m.code = Requests[k], ~Holds(s, Requests[k])
      PROVE  Listed(Append(s, m)) = Listed(s) + 1
  <2>1. \A n \in 1..3 : Holds(Append(s, m), Requests[n]) <=> Holds(s, Requests[n]) \/ n = k
    BY <1>1, <1>2, <1>3
  <2>. QED
    BY <1>3, <2>1 DEF Listed, Bit
<1>4. ASSUME NEW m \in Message, \A k \in 1..3 : m.code # Requests[k]
      PROVE  Listed(Append(s, m)) = Listed(s)
  <2>1. \A n \in 1..3 : Holds(Append(s, m), Requests[n]) <=> Holds(s, Requests[n])
    BY <1>2, <1>4
  <2>. QED
    BY <2>1 DEF Listed, Bit
<1>5. ASSUME s # <<>>, NEW k \in 1..3, Head(s).code = Requests[k]
      PROVE  Listed(Tail(s)) = Listed(s) - 1 /\ ~Holds(Tail(s), Requests[k])
  <2>1. ~Holds(Tail(s), Requests[k])
    BY <1>5, OrderKept
  <2>2. \A n \in 1..3 : Holds(s, Requests[n]) <=> Holds(Tail(s), Requests[n]) \/ n = k
    BY <1>1, <1>5, TailHolds
  <2>. QED
    BY <2>1, <2>2 DEF Listed, Bit
<1>6. ASSUME s # <<>>, \A k \in 1..3 : Head(s).code # Requests[k]
      PROVE  Listed(Tail(s)) = Listed(s)
  <2>1. \A n \in 1..3 : Holds(s, Requests[n]) <=> Holds(Tail(s), Requests[n])
    BY <1>6, TailHolds
  <2>. QED
    BY <2>1 DEF Listed, Bit
<1>. QED
  BY <1>3, <1>4, <1>5, <1>6

\* Outside of its requests an installer leaves them as they are, or is at its end.
LEMMA InstallerCounts ==
  ASSUME TypeInv, NEW i \in Call, InstallerStep(i) \/ PolicyStep(i),
         ~Ask(i), ~AskFails(i), ~GotAnswer(i), ~RequestExpires(i), ~RequestBreaks(i)
  PROVE  /\ UNCHANGED replies
         /\ \/ /\ inst'[i].pc = "dead"
               /\ inst'[i].ids = [k \in 1..3 |-> NoReply]
            \/ /\ inst'[i].asked = inst[i].asked /\ inst'[i].abandoned = inst[i].abandoned
               /\ inst'[i].answer = inst[i].answer /\ inst'[i].ids = inst[i].ids
               /\ inst'[i].pc = "await" <=> inst[i].pc = "await"
               /\ inst'[i].pc = "filter" <=> inst[i].pc = "filter"
<1>1. inst \in [Call -> PacedInstaller] /\ inst[i] \in Installer
  BY DEF TypeInv, PacedInstaller
<1>2. CASE Exit(i) \/ FilterExit(i) \/ InstallerCrash(i)
  BY <1>1, <1>2, ZenonT(60) DEF Exit, FilterExit, InstallerCrash, Dead, Gone, Absent, pipeVars
<1>3. CASE Connect(i)
  <2>1. CASE Dead(i, "WDI_ERROR_NOT_SUPPORTED")
    BY <1>1, <1>3, <2>1 DEF Connect, Dead, Gone, Absent
  <2>2. CASE inst' = [inst EXCEPT ![i].pc = "init"]
    BY <1>1, <1>3, <2>2 DEF Connect, Installer
  <2>. QED
    BY <1>3, <2>1, <2>2 DEF Connect
<1>4. CASE InitDone(i) \/ InitFails(i) \/ StartSyslog(i) \/ ClosePipe(i)
  BY <1>1, <1>4 DEF InitDone, InitFails, StartSyslog, ClosePipe, Step, pipeVars, Installer
<1>5. CASE LogLine(i)
  BY <1>1, <1>5 DEF LogLine, Installer
<1>6. CASE BeginUpdate(i) \/ BeginCopy(i) \/ Completed(i) \/ Report(i) \/ PolicyStep(i)
  BY <1>1, <1>6 DEF BeginUpdate, BeginCopy, Completed, Report, PolicyStep, DisableRestore,
     EnableRestore, Step, pipeVars, Installer
<1>7. CASE EndUpdate(i) \/ EndCopy(i)
  BY <1>1, <1>7 DEF EndUpdate, EndCopy, Installer
<1>. QED
  BY <1>2, <1>3, <1>4, <1>5, <1>6, <1>7 DEF InstallerStep

\* The five steps of a request.
LEMMA InstallerAsks ==
  ASSUME CallBase, RequestsCounted, AnswersOwn, NEW i \in Call,
         InstallerStep(i) \/ PolicyStep(i),
         Ask(i) \/ AskFails(i) \/ GotAnswer(i) \/ RequestExpires(i) \/ RequestBreaks(i)
  PROVE  RequestsCounted' /\ AnswersOwn'
<1>. USE DEF CallBase, OwnInv
<1>. DEFINE q == inst[i]
            r == inst'[i]
<1>1. /\ q \in PacedInstaller /\ q \in Installer /\ msgs \in Seq(Message)
      /\ inst \in [Call -> PacedInstaller] /\ faults \in Nat
  BY DEF TypeInv, TypeOK, PacedInstaller
<1>2. UNCHANGED <<pipe, client, faults>>
  BY InstallerLeaves DEF Ask, AskFails, GotAnswer, RequestExpires, RequestBreaks, pipeVars
<1>3. \A j \in Call : j # i => inst'[j] = inst[j]
  BY InstallerPace
<1>4. Linked(i)' <=> Linked(i)
  BY <1>2 DEF Linked
<1>5. ASSUME NEW j \in Call, j # i, Linked(j)'
      PROVE  Linked(j) /\ msgs' = msgs /\ inst'[j] = inst[j]
  <2>1. Linked(j) /\ ~Linked(i)
    BY <1>2, <1>5 DEF Linked
  <2>. QED
    BY <1>3, <1>5, <2>1, InstallerWrites
<1>6. r.pc # "filter" /\ replies' = <<>>
  <2>1. \A k : AfterRequest(k) # "filter"
    BY DEF AfterRequest
  <2>2. r.pc # "filter"
    BY <1>1, <2>1 DEF Ask, AskFails, GotAnswer, RequestExpires, RequestBreaks, Installer
  <2>3. replies' = <<>>
    BY DEF RequestsCounted, Ask, AskFails, GotAnswer, RequestExpires, RequestBreaks, pipeVars
  <2>. QED
    BY <2>2, <2>3
<1>7. SUFFICES /\ Linked(i) => /\ InOrder(msgs')
                               /\ \A k \in 1..3 : Holds(msgs', Requests[k]) => k <= r.asked
                               /\ r.abandoned + Bit(Waiting(i)') = Listed(msgs')
                               /\ Waiting(i)' => Holds(msgs', Requests[r.asked])
               /\ r.pc = "await" => r.answer = NoReply
               /\ \A k \in 1..3 : r.ids[k] # NoReply =>
                    r.ids[k].req = k /\ (faults = 0 => r.ids[k].of = i)
  <2>1. RequestsCounted'
    <3>1. ASSUME NEW j \in Call, Linked(j)'
          PROVE  /\ InOrder(msgs')
                 /\ \A k \in 1..3 : Holds(msgs', Requests[k]) => k <= inst'[j].asked
                 /\ inst'[j].abandoned + Bit(Waiting(j)') = Listed(msgs')
                 /\ Waiting(j)' => Holds(msgs', Requests[inst'[j].asked])
      <4>1. CASE j = i
        BY <1>4, <1>7, <3>1, <4>1
      <4>2. CASE j # i
        BY <1>5, <3>1, <4>2 DEF RequestsCounted, Waiting
      <4>. QED
        BY <4>1, <4>2
    <3>2. \A j \in Call : inst'[j].pc = "filter" => inst'[j].asked = 0
      BY <1>3, <1>6 DEF RequestsCounted
    <3>. QED
      BY <1>6, <3>1, <3>2 DEF RequestsCounted
  <2>2. AnswersOwn'
    BY <1>2, <1>3, <1>7 DEF AnswersOwn, IdentityIsOwn
  <2>. QED
    BY <2>1, <2>2
<1>8. Linked(i) => /\ InOrder(msgs)
                   /\ \A k \in 1..3 : Holds(msgs, Requests[k]) => k <= q.asked
                   /\ q.abandoned + Bit(Waiting(i)) = Listed(msgs)
                   /\ Waiting(i) => Holds(msgs, Requests[q.asked])
  BY DEF RequestsCounted
<1>9. \A k \in 1..3 : q.ids[k] # NoReply => q.ids[k].req = k /\ (faults = 0 => q.ids[k].of = i)
  BY DEF AnswersOwn, IdentityIsOwn
<1>10. \A k : AfterRequest(k) # "await"
  BY DEF AfterRequest
<1>11. q.abandoned \in Nat /\ q.asked \in 0..3
  BY <1>1 DEF Installer
<1>12. CASE Ask(i)
  <2>1. /\ q.pc = "ask" /\ r.pc = "await" /\ r.asked = q.asked + 1 /\ r.answer = NoReply
        /\ r.abandoned = q.abandoned /\ r.ids = q.ids /\ Linked(i)
        /\ msgs' = Append(msgs, Msg(Requests[q.asked + 1], 1))
    BY <1>1, <1>12 DEF Ask, Installer
  <2>2. r.asked \in 1..3
    BY <1>1, <2>1 DEF PacedInstaller, Installer
  <2>. DEFINE m == Msg(Requests[r.asked], 1)
  <2>3. m \in Message /\ m.code = Requests[r.asked] /\ msgs' = Append(msgs, m)
    BY <2>1, <2>2, MessagesTyped DEF Msg
  <2>. HIDE DEF m, q, r
  <2>4. ~Holds(msgs, Requests[r.asked])
    BY <1>8, <1>11, <2>1, <2>2
  <2>5. \A k, n \in 1..3 : m.code = Requests[n] /\ Holds(msgs, Requests[k]) => k < n
    <3>1. \A k, n \in 1..3 : Requests[k] = Requests[n] => k = n
      BY DEF Requests
    <3>2. \A k \in 1..3 : Holds(msgs, Requests[k]) => k <= q.asked
      BY <1>8, <2>1
    <3>3. \A n \in 1..3 : m.code = Requests[n] => n = r.asked
      BY <2>2, <2>3, <3>1
    <3>. QED
      BY <1>11, <2>1, <3>2, <3>3
  <2>6. InOrder(msgs')
    BY <1>1, <1>8, <2>1, <2>3, <2>5, OrderKept
  <2>7. Listed(msgs') = Listed(msgs) + 1
    BY <1>1, <1>8, <2>1, <2>2, <2>3, <2>4, ListedKept
  <2>8. \A k \in 1..3 : Holds(msgs', Requests[k]) => k <= r.asked
    <3>1. \A k, n \in 1..3 : Requests[k] = Requests[n] => k = n
      BY DEF Requests
    <3>. QED
      BY <1>1, <1>8, <1>11, <2>1, <2>2, <2>3, <3>1, AppendHolds
  <2>9. Holds(msgs', Requests[r.asked])
    BY <1>1, <2>3, AppendHolds
  <2>10. ~Waiting(i) /\ Waiting(i)'
    BY <2>1 DEF Waiting, q, r
  <2>. QED
    BY <1>8, <1>9, <1>11, <2>1, <2>6, <2>7, <2>8, <2>9, <2>10 DEF Bit
<1>13. CASE AskFails(i)
  <2>1. ~Linked(i) /\ r.pc # "await" /\ r.ids = q.ids
    BY <1>1, <1>10, <1>13 DEF AskFails, RequestsCounted, Installer
  <2>. QED
    BY <1>9, <2>1
<1>14. CASE GotAnswer(i)
  <2>1. /\ q.pc = "await" /\ q.answer # NoReply /\ r.pc # "await" /\ msgs' = msgs
        /\ r.asked = q.asked /\ r.abandoned = q.abandoned
    BY <1>1, <1>10, <1>14 DEF GotAnswer, pipeVars, Installer
  <2>2. ~Waiting(i) /\ ~Waiting(i)'
    BY <2>1 DEF Waiting
  <2>3. /\ q.answer.req = q.asked /\ (faults = 0 => q.answer.of \in {None, i})
    BY <2>1 DEF AnswersOwn
  <2>4. ASSUME NEW k \in 1..3, r.ids[k] # NoReply
        PROVE  r.ids[k].req = k /\ (faults = 0 => r.ids[k].of = i)
    <3>1. /\ k = q.asked => r.ids[k] = IF q.answer.of = None THEN NoReply ELSE q.answer
          /\ k # q.asked => r.ids[k] = q.ids[k]
      BY <1>1, <1>14 DEF GotAnswer, Installer
    <3>. QED
      BY <1>9, <2>3, <2>4, <3>1
  <2>. QED
    BY <1>8, <2>1, <2>2, <2>4 DEF Bit
<1>15. CASE RequestExpires(i)
  <2>1. /\ Waiting(i) /\ r.pc # "await" /\ msgs' = msgs
        /\ r.asked = q.asked /\ r.abandoned = q.abandoned + 1 /\ r.ids = q.ids
    BY <1>1, <1>10, <1>15 DEF RequestExpires, pipeVars, Waiting, Installer
  <2>2. ~Waiting(i)'
    BY <2>1 DEF Waiting
  <2>. QED
    BY <1>8, <1>9, <1>11, <2>1, <2>2 DEF Bit
<1>16. CASE RequestBreaks(i)
  <2>1. ~Linked(i) /\ r.pc # "await" /\ r.ids = q.ids
    BY <1>1, <1>10, <1>16 DEF RequestBreaks, Installer
  <2>. QED
    BY <1>9, <2>1
<1>. QED
  BY <1>12, <1>13, <1>14, <1>15, <1>16

\* Every step of an installer keeps the requests and the answers apart.
LEMMA InstallerIdentity ==
  ASSUME CallBase, RequestsCounted, AnswersOwn, NEW i \in Call,
         InstallerStep(i) \/ PolicyStep(i)
  PROVE  RequestsCounted' /\ AnswersOwn'
<1>. USE DEF CallBase, OwnInv
<1>1. SUFFICES ASSUME ~Ask(i), ~AskFails(i), ~GotAnswer(i), ~RequestExpires(i),
                      ~RequestBreaks(i)
               PROVE  RequestsCounted' /\ AnswersOwn'
  BY InstallerAsks
<1>2. /\ inst[i] \in PacedInstaller /\ inst[i] \in Installer /\ msgs \in Seq(Message)
      /\ faults' = faults /\ replies' = <<>>
  BY <1>1, InstallerLeaves, InstallerCounts
     DEF TypeInv, TypeOK, PacedInstaller, RequestsCounted
<1>3. \A j \in Call : j # i => inst'[j] = inst[j]
  BY InstallerPace
<1>4. \/ inst'[i].pc = "dead" /\ inst'[i].ids = [k \in 1..3 |-> NoReply]
      \/ /\ inst'[i].asked = inst[i].asked /\ inst'[i].abandoned = inst[i].abandoned
         /\ inst'[i].answer = inst[i].answer /\ inst'[i].ids = inst[i].ids
         /\ inst'[i].pc = "await" <=> inst[i].pc = "await"
         /\ inst'[i].pc = "filter" <=> inst[i].pc = "filter"
  BY <1>1, InstallerCounts
<1>5. AnswersOwn'
  BY <1>2, <1>3, <1>4 DEF AnswersOwn, IdentityIsOwn
<1>6. ASSUME NEW j \in Call, j # i, Linked(j)'
      PROVE  Linked(j) /\ msgs' = msgs /\ inst'[j] = inst[j]
  <2>1. pipe' = "connected" /\ client' = j /\ j # None
    BY <1>6 DEF Linked, Call, None
  <2>2. client' = i \/ client' = None \/ UNCHANGED <<pipe, client>>
    BY InstallerEnd
  <2>3. Linked(j) /\ ~Linked(i)
    BY <1>6, <2>1, <2>2 DEF Linked
  <2>. QED
    BY <1>3, <1>6, <2>3, InstallerWrites
<1>7. ASSUME Linked(i)'
      PROVE  /\ InOrder(msgs')
             /\ \A k \in 1..3 : Holds(msgs', Requests[k]) => k <= inst'[i].asked
             /\ inst'[i].abandoned + Bit(Waiting(i)') = Listed(msgs')
             /\ Waiting(i)' => Holds(msgs', Requests[inst'[i].asked])
  <2>1. inst'[i].pc # "dead"
    BY <1>7, InstallerBase DEF PipeInPhase, Linked, Connected, Call, None
  <2>2. Waiting(i)' <=> Waiting(i)
    BY <1>4, <2>1 DEF Waiting
  <2>3. CASE Linked(i)
    <3>1. /\ InOrder(msgs)
          /\ \A k \in 1..3 : Holds(msgs, Requests[k]) => k <= inst[i].asked
          /\ inst[i].abandoned + Bit(Waiting(i)) = Listed(msgs)
          /\ Waiting(i) => inst[i].asked \in 1..3 /\ Holds(msgs, Requests[inst[i].asked])
      BY <1>2, <2>3 DEF RequestsCounted, PacedInstaller, Installer, Waiting
    <3>2. CASE msgs' = msgs
      BY <1>4, <2>1, <2>2, <3>1, <3>2 DEF Bit
    <3>3. CASE msgs' # msgs
      <4>1. PICK m \in Message : /\ msgs' = Append(msgs, m)
                                 /\ \A k \in 1..3 : m.code # Requests[k]
        BY <1>1, <3>3, InstallerWrites
      <4>2. /\ \A k \in 1..3 : Holds(msgs', Requests[k]) <=> Holds(msgs, Requests[k])
            /\ Listed(msgs') = Listed(msgs)
        BY <1>2, <3>1, <4>1, AppendHolds, ListedKept
      <4>3. InOrder(msgs')
        BY <1>2, <3>1, <4>1, OrderKept
      <4>. QED
        BY <1>4, <2>1, <2>2, <3>1, <4>2, <4>3 DEF Bit
    <3>. QED
      BY <3>2, <3>3
  <2>4. CASE ~Linked(i)
    <3>1. pipe = "listening" /\ msgs' = msgs /\ inst[i].pc = "connect"
      BY <1>7, <2>4, InstallerEnd DEF Linked, Call, None
    <3>2. msgs' = <<>> /\ ~Waiting(i)' /\ inst'[i].asked = 0 /\ inst'[i].abandoned = 0
      BY <1>2, <1>4, <2>1, <2>2, <3>1 DEF Expected, Waiting, PacedInstaller, Installer
    <3>. QED
      BY <3>2, EmptyHolds DEF Bit, Listed
  <2>. QED
    BY <2>3, <2>4
<1>8. RequestsCounted'
  <2>1. ASSUME NEW j \in Call, Linked(j)'
        PROVE  /\ InOrder(msgs')
               /\ \A k \in 1..3 : Holds(msgs', Requests[k]) => k <= inst'[j].asked
               /\ inst'[j].abandoned + Bit(Waiting(j)') = Listed(msgs')
               /\ Waiting(j)' => Holds(msgs', Requests[inst'[j].asked])
    <3>1. CASE j = i
      BY <1>7, <2>1, <3>1
    <3>2. CASE j # i
      BY <1>6, <2>1, <3>2 DEF RequestsCounted, Waiting
    <3>. QED
      BY <3>1, <3>2
  <2>2. \A j \in Call : inst'[j].pc = "filter" => inst'[j].asked = 0
    BY <1>3, <1>4 DEF RequestsCounted
  <2>. QED
    BY <1>2, <2>1, <2>2 DEF RequestsCounted
<1>. QED
  BY <1>5, <1>8

\* An answer meets the read of its own request, at once or given up on.
LEMMA DeliverMeets ==
  ASSUME CallBase, RequestsCounted, AnswersOwn, ReadMessage, ~filter_driver,
         NEW k \in 1..3, Head(msgs).code = Requests[k], Deliver(k), client # None
  PROVE  RequestsCounted' /\ AnswersOwn'
<1>. USE DEF CallBase, OwnInv
<1>. DEFINE q == inst[client]
            r == inst'[client]
<1>1. /\ client \in Call /\ q \in Installer /\ q \in PacedInstaller /\ call \in Call
      /\ inst \in [Call -> PacedInstaller] /\ msgs \in Seq(Message) /\ msgs # <<>>
  BY DEF TypeInv, TypeOK, PacedInstaller, ReadMessage
<1>2. /\ msgs' = Tail(msgs) /\ UNCHANGED <<phase, call, pipe, client, faults, current_device>>
      /\ phase = "reading"
  BY DEF ReadMessage
<1>3. Linked(client) /\ \A j \in Call : Linked(j)' => j = client
  BY <1>2 DEF Linked, PipeOwned, PipeInPhase
<1>4. /\ InOrder(msgs)
      /\ \A n \in 1..3 : Holds(msgs, Requests[n]) => n <= q.asked
      /\ q.abandoned + Bit(Waiting(client)) = Listed(msgs)
      /\ Waiting(client) => Holds(msgs, Requests[q.asked])
  BY <1>1, <1>3 DEF RequestsCounted
<1>5. /\ InOrder(msgs') /\ Listed(msgs') = Listed(msgs) - 1 /\ ~Holds(msgs', Requests[k])
      /\ \A n \in 1..3 : Holds(msgs', Requests[n]) => k < n
      /\ \A n \in 1..3 : Holds(msgs, Requests[n]) <=> Holds(msgs', Requests[n]) \/ n = k
  <2>1. InOrder(Tail(msgs)) /\ Listed(Tail(msgs)) = Listed(msgs) - 1
    BY <1>1, <1>4, OrderKept, ListedKept
  <2>2. ~Holds(Tail(msgs), Requests[k])
    BY <1>1, <1>4, OrderKept, ListedKept
  <2>3. \A n \in 1..3 : Holds(Tail(msgs), Requests[n]) => k < n
    BY <1>1, <1>4, OrderKept
  <2>4. \A n \in 1..3 : Holds(msgs, Requests[n]) <=> Holds(Tail(msgs), Requests[n]) \/ n = k
    <3>1. \A n \in 1..3 : Requests[k] = Requests[n] => k = n
      BY DEF Requests
    <3>. QED
      BY <1>1, <3>1, TailHolds
  <2>. QED
    BY <1>2, <2>1, <2>2, <2>3, <2>4
<1>6. q.abandoned \in Nat /\ q.asked \in 0..3 /\ (q.pc = "await" => q.asked \in 1..3)
  BY <1>1 DEF PacedInstaller, Installer
<1>7. SUFFICES /\ replies' = <<>> /\ r.asked = q.asked /\ r.pc = q.pc /\ r.ids = q.ids
               /\ \A j \in Call : j # client => inst'[j] = inst[j]
               /\ r.abandoned + Bit(Waiting(client)') = Listed(msgs')
               /\ Waiting(client)' => Holds(msgs', Requests[r.asked])
               /\ r.pc = "await" /\ r.answer # NoReply =>
                    /\ r.answer.req = r.asked
                    /\ faults = 0 => r.answer.of \in {None, client}
  <2>1. ASSUME NEW j \in Call, Linked(j)'
        PROVE  /\ InOrder(msgs')
               /\ \A n \in 1..3 : Holds(msgs', Requests[n]) => n <= inst'[j].asked
               /\ inst'[j].abandoned + Bit(Waiting(j)') = Listed(msgs')
               /\ Waiting(j)' => Holds(msgs', Requests[inst'[j].asked])
    <3>1. j = client
      BY <1>3, <2>1
    <3>2. \A n \in 1..3 : Holds(msgs', Requests[n]) => n <= q.asked
      BY <1>4, <1>5
    <3>3. Waiting(j)' <=> Waiting(client)'
      BY <1>2, <3>1 DEF Waiting
    <3>. QED
      BY <1>5, <1>7, <3>1, <3>2, <3>3 DEF Bit
  <2>2. \A j \in Call : inst'[j].pc = "filter" => inst'[j].asked = 0
    BY <1>1, <1>7 DEF RequestsCounted
  <2>3. RequestsCounted'
    BY <1>7, <2>1, <2>2 DEF RequestsCounted
  <2>4. AnswersOwn'
    BY <1>1, <1>2, <1>7 DEF AnswersOwn, IdentityIsOwn
  <2>. QED
    BY <2>3, <2>4
<1>8. CASE q.abandoned > 0
  <2>1. /\ replies' = <<>> /\ inst' = [inst EXCEPT ![client].abandoned = @ - 1]
    BY <1>8 DEF Deliver, RequestsCounted
  <2>2. /\ r.abandoned = q.abandoned - 1 /\ r.asked = q.asked /\ r.pc = q.pc
        /\ r.answer = q.answer /\ r.ids = q.ids
        /\ \A j \in Call : j # client => inst'[j] = inst[j]
    BY <1>1, <2>1 DEF Installer
  <2>3. Waiting(client)' <=> Waiting(client)
    BY <1>2, <2>2 DEF Waiting
  <2>4. ASSUME Waiting(client) PROVE Holds(msgs', Requests[q.asked])
    <3>1. Listed(msgs') > 0
      BY <1>4, <1>5, <1>6, <1>8, <2>4 DEF Bit
    <3>2. PICK n \in 1..3 : Holds(msgs', Requests[n])
      BY <3>1 DEF Listed, Bit
    <3>3. k < n /\ n <= q.asked /\ q.asked \in 1..3
      BY <1>4, <1>5, <1>6, <2>4, <3>2 DEF Waiting
    <3>4. q.asked \in 1..3 /\ Holds(msgs, Requests[q.asked]) /\ q.asked # k
      BY <1>4, <2>4, <3>3
    <3>5. ASSUME NEW a \in 1..3, Holds(msgs, Requests[a]), a # k
          PROVE  Holds(msgs', Requests[a])
      BY <1>5, <3>5
    <3>. HIDE DEF q
    <3>. QED
      BY <3>4, <3>5
  <2>5. r.abandoned + Bit(Waiting(client)') = Listed(msgs')
    <3>1. Bit(Waiting(client)') = Bit(Waiting(client)) /\ Bit(Waiting(client)) \in Nat
      BY <2>3 DEF Bit
    <3>2. Listed(msgs) \in Nat /\ q.abandoned + Bit(Waiting(client)) = Listed(msgs)
      BY <1>4, <1>6, <3>1
    <3>. QED
      BY <1>5, <1>6, <2>2, <3>1, <3>2
  <2>6. Waiting(client)' => Holds(msgs', Requests[r.asked])
    BY <2>2, <2>3, <2>4
  <2>7. r.pc = "await" /\ r.answer # NoReply =>
          r.answer.req = r.asked /\ (faults = 0 => r.answer.of \in {None, client})
    BY <1>1, <2>2 DEF AnswersOwn
  <2>. QED
    BY <2>1, <2>2, <2>5, <2>6, <2>7
<1>9. CASE ~(q.abandoned > 0)
  <2>1. q.abandoned = 0 /\ Listed(msgs) >= 1
    <3>1. Holds(msgs, Requests[k])
      BY <1>5
    <3>. QED
      BY <1>6, <1>9, <3>1 DEF Listed, Bit
  <2>2. Waiting(client) /\ Listed(msgs) = 1
    BY <1>4, <2>1 DEF Bit
  <2>3. k = q.asked
    <3>1. \A n \in 1..3 : ~Holds(msgs', Requests[n])
      BY <1>5, <2>2 DEF Listed, Bit
    <3>2. q.asked \in 1..3 /\ Holds(msgs, Requests[q.asked])
      BY <1>4, <1>6, <2>2 DEF Waiting
    <3>. QED
      BY <1>5, <3>1, <3>2
  <2>4. replies' = <<>> /\ inst' = [inst EXCEPT ![client].answer = Answer(k)]
    BY <1>9, <2>2 DEF Deliver, RequestsCounted, Waiting
  <2>5. /\ r.abandoned = 0 /\ r.asked = q.asked /\ r.pc = q.pc
        /\ r.answer = Answer(k) /\ r.ids = q.ids
        /\ \A j \in Call : j # client => inst'[j] = inst[j]
    BY <1>1, <2>1, <2>4 DEF Installer
  <2>6. Answer(k) # NoReply /\ Answer(k).req = k
    BY DEF Answer, NoReply
  <2>7. faults = 0 => Answer(k).of \in {None, client}
    BY <1>1, <1>2 DEF Answer, OwnInstaller, PipeInPhase, None
  <2>8. ~Waiting(client)'
    BY <1>2, <2>5, <2>6 DEF Waiting
  <2>. QED
    BY <1>5, <2>2, <2>3, <2>4, <2>5, <2>6, <2>7, <2>8 DEF Bit
<1>. QED
  BY <1>8, <1>9

\* Every process is as it was, or holds no identity, and the client is one of the former or
\* has a pipe in which nothing was written yet: then nothing becomes confused.
LEMMA IdentityKept ==
  ASSUME RequestsCounted, AnswersOwn, replies' = <<>>, faults' = 0 => faults = 0,
         \A j \in Call :
           \/ inst'[j] = inst[j]
           \/ /\ inst'[j].pc # "await" /\ inst'[j].ids = [k \in 1..3 |-> NoReply]
              /\ inst'[j].pc = "filter" => inst'[j].asked = 0,
         \A j \in Call : Linked(j)' =>
           \/ Linked(j) /\ msgs' = msgs /\ inst'[j] = inst[j]
           \/ /\ msgs' = <<>> /\ inst'[j].pc # "await"
              /\ inst'[j].asked = 0 /\ inst'[j].abandoned = 0
  PROVE  RequestsCounted' /\ AnswersOwn'
<1>1. AnswersOwn'
  BY DEF AnswersOwn, IdentityIsOwn
<1>2. ASSUME NEW j \in Call, Linked(j)'
      PROVE  /\ InOrder(msgs')
             /\ \A k \in 1..3 : Holds(msgs', Requests[k]) => k <= inst'[j].asked
             /\ inst'[j].abandoned + Bit(Waiting(j)') = Listed(msgs')
             /\ Waiting(j)' => Holds(msgs', Requests[inst'[j].asked])
  <2>1. CASE Linked(j) /\ msgs' = msgs /\ inst'[j] = inst[j]
    BY <2>1 DEF RequestsCounted, Waiting
  <2>2. CASE /\ msgs' = <<>> /\ inst'[j].pc # "await"
             /\ inst'[j].asked = 0 /\ inst'[j].abandoned = 0
    BY <2>2, EmptyHolds DEF Waiting, Listed, Bit
  <2>. QED
    BY <1>2, <2>1, <2>2
<1>3. \A j \in Call : inst'[j].pc = "filter" => inst'[j].asked = 0
  BY DEF RequestsCounted
<1>. QED
  BY <1>1, <1>2, <1>3 DEF RequestsCounted

\* The application keeps the requests and the answers apart as well: what it reads it
\* answers once, in the order of the pipe, with the device of its own call.
LEMMA ParentIdentity ==
  ASSUME CallBase, RequestsCounted, AnswersOwn, ParentStep
  PROVE  RequestsCounted' /\ AnswersOwn'
<1>. USE DEF CallBase, OwnInv
<1>1. /\ inst \in [Call -> PacedInstaller] /\ \A j \in Call : inst[j] \in Installer
      /\ client \in Call \cup {None} /\ None \notin Call
      /\ phase # "idle" => call \in Call
      /\ msgs \in Seq(Message) /\ faults \in Nat /\ replies = <<>>
  BY DEF TypeInv, TypeOK, PacedInstaller, RequestsCounted, Call, None
<1>2. faults' = 0 => faults = 0
  <2>1. CASE phase = "idle"
    BY <2>1, ParentPhases DEF StartFails, CreatePipe, Launch, ParentCrash
  <2>2. CASE phase # "idle"
    BY <1>1, <2>2, DuringCall
  <2>. QED
    BY <2>1, <2>2
<1>3. CASE StartFails
  BY <1>1, <1>2, <1>3, IdentityKept DEF StartFails, pipeVars, Linked
<1>4. CASE CreatePipe
  <2>1. client = None
    BY <1>4 DEF CreatePipe, PipeOwned
  <2>. QED
    BY <1>1, <1>2, <1>4, <2>1, IdentityKept DEF CreatePipe, Linked
<1>5. CASE Launch \/ LaunchWithoutBuffer
  <2>1. /\ phase = "launch" /\ StartInstaller /\ call \in Call /\ replies' = <<>>
        /\ client # call /\ (msgs' = msgs \/ pipe' # "connected")
    BY <1>1, <1>5 DEF Launch, LaunchWithoutBuffer, Finish, DecidesOnce, PipeInPhase,
       Connected
  <2>2. /\ \A j \in Call : j # call => inst'[j] = inst[j]
        /\ inst'[call].pc \in {"filter", "connect"} /\ inst'[call].asked = 0
        /\ inst'[call].abandoned = 0 /\ inst'[call].ids = [k \in 1..3 |-> NoReply]
    BY <1>1, <2>1 DEF StartInstaller, Absent
  <2>3. ASSUME NEW j \in Call, Linked(j)'
        PROVE  \/ Linked(j) /\ msgs' = msgs /\ inst'[j] = inst[j]
               \/ j = call /\ msgs' = <<>>
    <3>1. Launch /\ pipe' = pipe /\ msgs' = msgs
      BY <1>5, <2>3 DEF Launch, LaunchWithoutBuffer, Finish, Linked
    <3>2. CASE filter_driver
      BY <2>1, <2>3, <3>1, <3>2 DEF Launch, Linked, PipeInPhase
    <3>3. CASE ~filter_driver
      BY <2>1, <2>2, <2>3, <3>1, <3>3 DEF Launch, Linked
    <3>. QED
      BY <3>2, <3>3
  <2>. QED
    BY <1>2, <2>1, <2>2, <2>3, IdentityKept
<1>6. CASE ParentCrash
  BY <1>1, <1>2, <1>6, IdentityKept DEF ParentCrash, Linked
<1>7. CASE LaunchFails \/ ReadOverflowFails \/ ReadVerdict \/ ProcessEnded \/ KillSilent
             \/ BrokenEnded \/ BrokenExpires
  <2>1. replies' = <<>> /\ pipe' # "connected" /\ phase # "idle"
    BY <1>7 DEF LaunchFails, ReadOverflowFails, ReadVerdict, ProcessEnded, KillSilent,
       BrokenEnded, BrokenExpires, Finish
  <2>2. inst' = inst \/ Dead(call, Success)
    BY <1>7 DEF LaunchFails, ReadOverflowFails, ReadVerdict, ProcessEnded, KillSilent,
       BrokenEnded, BrokenExpires, Terminate
  <2>3. \A j \in Call : \/ inst'[j] = inst[j]
                        \/ inst'[j].pc = "dead" /\ inst'[j].ids = [k \in 1..3 |-> NoReply]
    BY <1>1, <2>1, <2>2 DEF Dead, Gone, Absent
  <2>. QED
    BY <1>2, <2>1, <2>3, IdentityKept DEF Linked
<1>8. CASE ~ReadMessage /\ phase \in {"reading", "expired"}
           /\ UNCHANGED <<pipe, client, faults, inst, replies, msgs>>
  BY <1>1, <1>8, IdentityKept DEF Linked
<1>9. CASE ReadMessage
  <2>1. UNCHANGED <<pipe, client, faults>> /\ msgs' = Tail(msgs) /\ msgs # <<>>
    BY <1>9 DEF ReadMessage
  <2>2. CASE client = None
    BY <1>1, <1>9, <2>1, <2>2, IdentityKept DEF ReadMessage, Deliver, Linked
  <2>3. CASE client # None /\ ~filter_driver /\ \E k \in 1..3 : Head(msgs).code = Requests[k]
    <3>1. PICK k \in 1..3 : Head(msgs).code = Requests[k] /\ Deliver(k)
      BY <1>9, <2>3 DEF ReadMessage
    <3>. QED
      BY <1>9, <2>3, <3>1, DeliverMeets
  <2>4. CASE /\ client # None
             /\ filter_driver \/ \A k \in 1..3 : Head(msgs).code # Requests[k]
    <3>1. inst' = inst /\ replies' = <<>>
      BY <1>1, <1>9, <2>4 DEF ReadMessage
    <3>2. Linked(client)
      BY <1>9, <2>4 DEF ReadMessage, Linked, PipeOwned, PipeInPhase
    <3>3. /\ InOrder(msgs)
          /\ \A k \in 1..3 : Holds(msgs, Requests[k]) => k <= inst[client].asked
          /\ inst[client].abandoned + Bit(Waiting(client)) = Listed(msgs)
          /\ Waiting(client) => Holds(msgs, Requests[inst[client].asked])
      BY <1>1, <2>4, <3>2 DEF RequestsCounted
    <3>4. \A k \in 1..3 : Head(msgs).code # Requests[k]
      <4>1. CASE filter_driver
        <5>1. inst[client].pc = "filter"
          BY <1>1, <1>9, <2>4, <4>1 DEF ReadMessage, FilterApart, PipeInPhase, Connected
        <5>2. \A k \in 1..3 : ~Holds(msgs, Requests[k])
          BY <1>1, <2>4, <3>3, <5>1 DEF RequestsCounted
        <5>. QED
          BY <1>1, <2>1, <5>2, TailHolds
      <4>. QED
        BY <2>4, <4>1
    <3>5. /\ InOrder(msgs') /\ Listed(msgs') = Listed(msgs)
          /\ \A k \in 1..3 : Holds(msgs', Requests[k]) <=> Holds(msgs, Requests[k])
      BY <1>1, <2>1, <3>3, <3>4, OrderKept, ListedKept, TailHolds
    <3>6. ASSUME NEW j \in Call, Linked(j)'
          PROVE  /\ InOrder(msgs')
                 /\ \A k \in 1..3 : Holds(msgs', Requests[k]) => k <= inst'[j].asked
                 /\ inst'[j].abandoned + Bit(Waiting(j)') = Listed(msgs')
                 /\ Waiting(j)' => Holds(msgs', Requests[inst'[j].asked])
      <4>1. j = client /\ (Waiting(j)' <=> Waiting(client))
        BY <2>1, <3>1, <3>6 DEF Linked, Waiting
      <4>2. Waiting(client) => inst[client].asked \in 1..3
        <5>1. /\ inst[client] \in PacedInstaller
              /\ inst[client].asked \in 0..3 /\ inst[client].abandoned \in 0..3
          BY <1>1, <2>4 DEF Installer
        <5>. QED
          BY <5>1 DEF Waiting, PacedInstaller
      <4>3. Waiting(client) => Holds(msgs', Requests[inst[client].asked])
        BY <3>3, <3>5, <4>2
      <4>. QED
        BY <3>1, <3>3, <3>5, <4>1, <4>3 DEF Bit
    <3>7. RequestsCounted'
      BY <3>1, <3>6 DEF RequestsCounted
    <3>8. AnswersOwn'
      BY <2>1, <3>1 DEF AnswersOwn, IdentityIsOwn
    <3>. QED
      BY <3>7, <3>8
  <2>. QED
    BY <2>2, <2>3, <2>4
<1>. QED
  BY <1>3, <1>4, <1>5, <1>6, <1>7, <1>8, <1>9, ParentPhases

IdentityInv == CallInv /\ RequestsCounted /\ AnswersOwn

\* An installer holds no identity but those it asked for, of its own device, for any number
\* of requests given up on and answers that come late.
THEOREM IdentitiesAreOwn == Spec => []IdentityIsOwn
<1>1. Init => IdentityInv
  <2>. SUFFICES ASSUME Init PROVE RequestsCounted /\ AnswersOwn
    BY CallInvInit DEF IdentityInv
  <2>. QED
    BY DEF Init, RequestsCounted, AnswersOwn, IdentityIsOwn, Linked, Absent
<1>2. IdentityInv /\ [Next]_vars => IdentityInv'
  <2>. SUFFICES ASSUME IdentityInv, [Next]_vars PROVE RequestsCounted' /\ AnswersOwn'
    BY CallInvStep DEF IdentityInv
  <2>. USE DEF IdentityInv, CallInv
  <2>1. CASE UNCHANGED vars
    BY <2>1 DEF RequestsCounted, AnswersOwn, IdentityIsOwn, Linked, Waiting, vars,
       parentVars, pipeVars
  <2>2. CASE ParentStep
    BY <2>2, ParentIdentity
  <2>3. CASE \E i \in Call : InstallerStep(i) \/ PolicyStep(i)
    BY <2>3, InstallerIdentity
  <2>. QED
    BY <2>1, <2>2, <2>3 DEF Next, Over
<1>3. IdentityInv => IdentityIsOwn
  BY DEF IdentityInv, AnswersOwn
<1>. QED
  BY <1>1, <1>2, <1>3, PTL DEF Spec

----------------------------------------------------------------------------
\* What a step of an installer is to the user of the call: nothing, or the decision of the
\* installer of the latest call.
LEMMA InstallerPromise ==
  ASSUME CallInv, NEW i \in Call, InstallerStep(i) \/ PolicyStep(i)
  PROVE  [Promise!Next]_Promise!vars
<1>. USE DEF CallInv, CallBase, OwnInv
<1>1. UNCHANGED <<phase, call, result>>
  BY InstallerLeaves
<1>2. CASE i # call
  <2>1. call # 0 => inst'[call] = inst[call]
    BY <1>2, InstallerPace DEF Call, TypeInv, TypeOK
  <2>. QED
    BY <1>1, <2>1 DEF Promise!vars
<1>3. CASE i = call
  <2>1. call # 0
    BY <1>3 DEF Call
  <2>2. CASE inst'[call].ret = inst[call].ret
    BY <1>1, <2>1, <2>2 DEF Promise!vars
  <2>3. CASE inst'[call].ret # inst[call].ret
    <3>1. inst'[call].ret \in Statuses /\ inst[call].pc \notin Decided \cup {"dead"}
      BY <1>3, <2>3, InstallerPace DEF Decided
    <3>2. inst[call].ret = NoStatus
      BY <1>3, <3>1 DEF DecidesOnce
    <3>. QED
      BY <1>1, <2>1, <3>1, <3>2 DEF Promise!Next, Promise!Decide
  <2>. QED
    BY <2>2, <2>3
<1>. QED
  BY <1>2, <1>3

\* What a step of the application is to the user while nothing fails under it: the call
\* begins, fails at once, returns, or goes on.
LEMMA ParentPromise ==
  ASSUME CallInv, CallInv', ParentStep, faults = 0, faults' = 0
  PROVE  [Promise!Next]_Promise!vars
<1>. USE DEF CallInv, CallBase, OwnInv
<1>1. /\ call \in 0..MaxCalls /\ (phase # "idle" => call \in Call) /\ 0 \notin Call
      /\ inst \in [Call -> PacedInstaller] /\ \A j \in Call : inst[j] \in Installer
  <2>1. 0 \notin Call
    BY DEF Call
  <2>. QED
    BY <2>1 DEF TypeInv, TypeOK, PacedInstaller
<1>2. CASE phase = "idle"
  <2>1. StartFails \/ CreatePipe
    BY <1>2, ParentPhases DEF Launch, ParentCrash
  <2>2. call' \in Call /\ call' > call /\ inst' = inst
    BY <1>1, <2>1, InstallAssumption DEF StartFails, CreatePipe, Call
  <2>3. inst'[call'].ret = NoStatus /\ call' # 0
    BY <1>1, <2>2 DEF DecidesOnce, Decided
  <2>4. CASE StartFails
    <3>1. result' \in Results \ {Success} /\ phase' = phase
      BY <2>4, StatusesApart DEF StartFails
    <3>. QED
      BY <1>2, <2>3, <3>1 DEF Promise!Next, Promise!Fail
  <2>5. CASE CreatePipe
    BY <1>2, <2>3, <2>5 DEF CreatePipe, Promise!Next, Promise!Begin
  <2>. QED
    BY <2>1, <2>4, <2>5
<1>3. CASE phase # "idle" /\ phase' = "idle"
  <2>1. UNCHANGED call /\ inst'[call].ret = inst[call].ret /\ call # 0
    BY <1>1, <1>3, Returns
  <2>2. CASE result' \in StartErrors \cup LaunchErrors \cup ReadErrors
    BY <1>3, <2>1, <2>2, StatusesApart DEF Promise!Next, Promise!Return
  <2>3. CASE result' \in Statuses /\ result' = inst[call].ret
    BY <1>3, <2>1, <2>3, StatusesApart DEF Promise!Next, Promise!Return
  <2>. QED
    BY <1>3, <2>2, <2>3, Returns
<1>4. CASE phase # "idle" /\ phase' # "idle"
  <2>1. call' = call /\ call # 0 /\ result' = result
    BY <1>1, <1>4, DuringCall DEF PipeInPhase
  <2>2. phase = "launch" => inst[call].ret = NoStatus
    BY <1>1 DEF DecidesOnce, Decided
  <2>3. inst'[call].ret = inst[call].ret
    BY <1>1, <1>4, <2>2, ParentPace
  <2>. QED
    BY <1>4, <2>1, <2>3 DEF Promise!vars
<1>. QED
  BY <1>2, <1>3, <1>4

\* While no application crashes and no allocation fails, the protocol implements what a
\* call promises: a call returns its installer's decision or an error of its own, and
\* success is only ever the installer's.
THEOREM ProtocolKeepsPromise == Spec /\ [](faults = 0) => KeepsPromise
<1>1. Init => Promise!Init
  BY DEF Init, Promise!Init
<1>2. CallInv /\ CallInv' /\ [Next]_vars /\ faults = 0 /\ (faults = 0)'
        => [Promise!Next]_Promise!vars
  <2>. SUFFICES ASSUME CallInv, CallInv', [Next]_vars, faults = 0, faults' = 0
                PROVE  [Promise!Next]_Promise!vars
    OBVIOUS
  <2>1. CASE UNCHANGED vars
    BY <2>1 DEF Promise!vars, vars, parentVars
  <2>2. CASE ParentStep
    BY <2>2, ParentPromise
  <2>3. CASE \E i \in Call : InstallerStep(i) \/ PolicyStep(i)
    BY <2>3, InstallerPromise
  <2>. QED
    BY <2>1, <2>2, <2>3 DEF Next, Over
<1>. QED
  BY <1>1, <1>2, CallInvInit, CallInvStep, PTL DEF Spec, KeepsPromise, Promise!Spec

----------------------------------------------------------------------------
(***************************************************************************)
(* The setting of the machine survives any number of calls: the one        *)
(* instance of the pipe keeps the brackets of the installers apart, and so *)
(* each of them puts back what it found.                                   *)
(***************************************************************************)
\* The installers that have not read the policy.
Early == {"absent", "connect", "init", "ask", "await", "syslog", "policy"}

\* The call that is about to start its installer has none yet, nor has a call to come.
Untouched ==
  \A i \in Call : i > call \/ (i = call /\ phase = "launch") => inst[i].pc = "absent"

\* What an installer keeps is the user's setting while it is in its bracket, and nothing
\* before; and while none is, the setting is the user's.
Kept ==
  /\ \A i \in Call : inst[i].pc \in Early => original_val[i] = NoValue
  /\ ~spoiled =>
       /\ \A i \in Call : inst[i].pc \in Bracket => original_val[i] = user_policy
       /\ (\A i \in Call : inst[i].pc \notin Bracket) => policy = user_policy

PolicyInv == TypeInv /\ PipeOwned /\ Untouched /\ PolicyTypeOK /\ Kept

----------------------------------------------------------------------------
\* The policy adds to the steps of Install, and takes nothing away.
LEMMA PolicyIsInstall == [PolicyNext]_allVars => [Next]_vars
  BY DEF PolicyNext, allVars, ParentStep, Next, ChangePolicy, PolicyStep

\* Two installers in their brackets would both be the client of the pipe.
LEMMA Disjoint == PipeOwned => BracketsDisjoint
  BY DEF PipeOwned, BracketsDisjoint, Bracket, Connected, Steps

\* Where an installer may go: into its bracket only by an early failure, out of it only by
\* the end of its process, and never back to a place before it.
Goes(j) ==
  /\ inst'[j].pc \in Bracket /\ inst[j].pc \notin Bracket
       => inst[j].pc = "init" /\ inst'[j].pc = "done"
  /\ inst[j].pc \in Bracket /\ inst'[j].pc \notin Bracket => inst'[j].pc = "dead"
  /\ inst'[j].pc \in Early => inst[j].pc \in Early
  /\ inst[j].pc # "absent" => inst'[j].pc # "absent"

\* How far an installer is, as the application's steps change it.
LEMMA ParentGoes ==
  ASSUME TypeInv, Untouched, ParentStep, NEW j \in Call
  PROVE  Goes(j)
<1>0. inst \in [Call -> PacedInstaller]
  BY DEF TypeInv
<1>1. CASE UNCHANGED inst
  BY <1>1 DEF Goes
<1>2. CASE ReadMessage
  BY <1>0, <1>2, ReadStays DEF Goes
<1>3. CASE Launch \/ LaunchWithoutBuffer
  <2>1. call \in Call /\ inst[call].pc = "absent"
    BY <1>3 DEF Launch, LaunchWithoutBuffer, TypeInv, Untouched
  <2>2. /\ j # call => inst'[j] = inst[j]
        /\ inst'[call].pc \in {"filter", "connect"}
    BY <1>0, <1>3, <2>1, Started DEF Launch, LaunchWithoutBuffer
  <2>. QED
    BY <2>1, <2>2 DEF Goes, Bracket, Early
<1>4. CASE KillSilent \/ BrokenExpires
  <2>1. inst'[j] = inst[j] \/ inst'[j].pc = "dead"
    BY <1>0, <1>4 DEF KillSilent, BrokenExpires, Terminate, Dead, Gone, Absent
  <2>. QED
    BY <2>1 DEF Goes, Bracket, Early
<1>. QED
  BY <1>1, <1>2, <1>3, <1>4
     DEF ParentStep, CallStep, StartFails, CreatePipe, LaunchFails, ReadListening,
         ReadOverflow, ReadOverflowFails, ReadVerdict, ProcessEnded, WaitExpires, PipeBroken,
         BrokenEnded, ParentCrash, vars

\* How far an installer is, as its own steps change it.
LEMMA InstallerGoes ==
  ASSUME TypeInv, NEW i \in Call, InstallerStep(i), NEW j \in Call
  PROVE  Goes(j)
<1>0. inst \in [Call -> PacedInstaller] /\ inst[i] \in Installer /\ inst[i].pc \in Steps
  BY DEF TypeInv, PacedInstaller, Installer
<1>1. ASSUME j # i PROVE Goes(j)
  <2>1. inst'[j] = inst[j]
    BY <1>0, <1>1
       DEF InstallerStep, Connect, InitDone, InitFails, Ask, AskFails, GotAnswer,
           RequestExpires, RequestBreaks, StartSyslog, LogLine, BeginUpdate, EndUpdate,
           BeginCopy, EndCopy, Completed, Report, ClosePipe, Exit, FilterExit,
           InstallerCrash, Step, Dead, Gone
  <2>. QED
    BY <2>1 DEF Goes
<1>2. SUFFICES Goes(i)
  BY <1>1
<1>. USE DEF Goes, Bracket, Early
<1>3. CASE LogLine(i)
  BY <1>0, <1>3 DEF LogLine, Installer
<1>4. CASE AskFails(i) \/ GotAnswer(i) \/ RequestExpires(i) \/ RequestBreaks(i)
  <2>1. \A k : AfterRequest(k) \in {"ask", "syslog"}
    BY DEF AfterRequest
  <2>. QED
    BY <1>0, <1>4, <2>1
       DEF AskFails, GotAnswer, RequestExpires, RequestBreaks, Installer
<1>5. CASE Ask(i) \/ StartSyslog(i) \/ InitDone(i) \/ InitFails(i)
  BY <1>0, <1>5 DEF Ask, StartSyslog, InitDone, InitFails, Step, Installer
<1>6. CASE Connect(i)
  <2>1. CASE pipe = "listening"
    <3>1. inst[i].pc = "connect" /\ inst' = [inst EXCEPT ![i].pc = "init"]
      BY <1>6, <2>1 DEF Connect
    <3>2. inst'[i].pc = "init"
      BY <1>0, <3>1 DEF Installer
    <3>. QED
      BY <3>1, <3>2
  <2>2. CASE pipe # "listening"
    BY <1>0, <1>6, <2>2, Died DEF Connect
  <2>. QED
    BY <2>1, <2>2
<1>9. CASE Exit(i) \/ FilterExit(i) \/ InstallerCrash(i)
  <2>1. inst'[i].pc = "dead"
    BY <1>0, <1>9, Died DEF Exit, FilterExit, InstallerCrash, Dead, Gone, Absent
  <2>. QED
    BY <2>1
<1>7. CASE BeginUpdate(i) \/ EndUpdate(i) \/ BeginCopy(i) \/ EndCopy(i)
  BY <1>0, <1>7 DEF BeginUpdate, EndUpdate, BeginCopy, EndCopy, Step, Installer
<1>8. CASE Completed(i) \/ Report(i) \/ ClosePipe(i)
  BY <1>0, <1>8 DEF Completed, Report, ClosePipe, Step, Installer
<1>. QED
  BY <1>3, <1>4, <1>5, <1>6, <1>7, <1>8, <1>9 DEF InstallerStep

\* Only the launch of a call makes an installer of what was none.
LEMMA UntouchedStep ==
  ASSUME TypeInv, Untouched,
         ParentStep \/ \E i \in Call : InstallerStep(i) \/ PolicyStep(i)
  PROVE  Untouched'
<1>. USE DEF Untouched
<1>0. inst \in [Call -> PacedInstaller] /\ call \in 0..MaxCalls /\ MaxCalls \in Nat
  BY InstallAssumption DEF TypeInv, TypeOK
<1>1. ASSUME NEW i \in Call, InstallerStep(i) \/ PolicyStep(i) PROVE Untouched'
  <2>1. inst[i].pc # "absent"
    BY <1>0, <1>1
       DEF InstallerStep, PolicyStep, Connect, InitDone, InitFails, Ask, AskFails, GotAnswer,
           RequestExpires, RequestBreaks, StartSyslog, LogLine, BeginUpdate, EndUpdate,
           BeginCopy, EndCopy, Completed, Report, ClosePipe, Exit, FilterExit,
           InstallerCrash, Step, Alive, DisableRestore, EnableRestore
  <2>2. \A j \in Call : j # i => inst'[j] = inst[j]
    <3>1. CASE Connect(i) \/ ClosePipe(i) \/ FilterExit(i) \/ InstallerCrash(i)
      BY <1>0, <3>1 DEF Connect, ClosePipe, FilterExit, InstallerCrash, Dead, Gone
    <3>2. CASE ~Connect(i) /\ ~ClosePipe(i) /\ ~FilterExit(i) /\ ~InstallerCrash(i)
      BY <1>0, <1>1, <3>2, InsideSteps
    <3>. QED
      BY <3>1, <3>2
  <2>3. UNCHANGED <<call, phase>>
    BY <1>1 DEF InstallerStep, PolicyStep, parentVars
  <2>. QED
    BY <2>1, <2>2, <2>3
<1>2. CASE ReadMessage
  <2>1. \A j \in Call : inst'[j].pc = inst[j].pc
    BY <1>0, <1>2, ReadStays
  <2>. QED
    BY <1>2, <2>1 DEF ReadMessage
<1>3. CASE Launch \/ LaunchWithoutBuffer
  <2>1. call \in Call
    BY <1>3 DEF Launch, LaunchWithoutBuffer, TypeInv
  <2>2. \A j \in Call : j # call => inst'[j] = inst[j]
    BY <1>0, <1>3, <2>1, Started DEF Launch, LaunchWithoutBuffer
  <2>3. call' = call /\ phase' # "launch"
    BY <1>3 DEF Launch, LaunchWithoutBuffer, Finish
  <2>. QED
    BY <1>0, <2>2, <2>3
<1>4. CASE KillSilent \/ BrokenExpires
  <2>1. \A j \in Call : j # call => inst'[j] = inst[j]
    BY <1>0, <1>4 DEF KillSilent, BrokenExpires, Terminate, Dead, Gone
  <2>2. call' = call /\ phase' # "launch"
    BY <1>4 DEF KillSilent, BrokenExpires, Finish
  <2>. QED
    BY <1>0, <2>1, <2>2
<1>5. CASE StartFails \/ CreatePipe
  BY <1>0, <1>5 DEF StartFails, CreatePipe, Call
<1>6. CASE /\ UNCHANGED <<inst, call>>
           /\ phase' = "launch" => phase = "launch"
  BY <1>6
<1>. QED
  BY <1>1, <1>2, <1>3, <1>4, <1>5, <1>6
     DEF ParentStep, CallStep, LaunchFails, ReadListening,
         ReadOverflow, ReadOverflowFails, ReadVerdict, ProcessEnded, WaitExpires, PipeBroken,
         BrokenEnded, ParentCrash, Finish, vars, parentVars

\* The value of the machine, and what each installer keeps of it, stay values it may have.
LEMMA PolicyTypeStep == PolicyTypeOK /\ [PolicyNext]_allVars => PolicyTypeOK'
<1>. USE PolicyAssumption DEF PolicyTypeOK, Values
<1>1. ASSUME PolicyTypeOK, LeavePolicy PROVE PolicyTypeOK'
  BY <1>1 DEF LeavePolicy
<1>2. ASSUME PolicyTypeOK, NEW i \in Call, ChangePolicy(i) PROVE PolicyTypeOK'
  <2>1. UNCHANGED user_policy
    BY <1>2 DEF ChangePolicy
  <2>2. CASE PolicyFails
    BY <1>2, <2>1, <2>2 DEF PolicyFails
  <2>3. CASE PolicyWorks(BackUpAndDisable, i)
    BY <1>2, <2>1, <2>3 DEF PolicyWorks, BackUpAndDisable
  <2>4. CASE PolicyWorks(PutBack, i)
    BY <1>2, <2>1, <2>4 DEF PolicyWorks, PutBack
  <2>. QED
    BY <1>2, <2>2, <2>3, <2>4 DEF ChangePolicy
<1>3. PolicyTypeOK /\ UNCHANGED policyVars => PolicyTypeOK'
  BY DEF policyVars
<1>. QED
  BY <1>1, <1>2, <1>3 DEF PolicyNext, allVars

\* A step that leaves the policy alone keeps the brackets as they are, or spoils one.
LEMMA LeaveKept ==
  ASSUME Kept, LeavePolicy, PolicyTypeOK, \A j \in Call : Goes(j)
  PROVE  Kept'
<1>. USE DEF Kept, LeavePolicy, Goes
<1>1. \A i \in Call : inst'[i].pc \in Early => original_val'[i] = NoValue
  BY DEF Early
<1>2. ASSUME ~spoiled'
      PROVE  /\ ~spoiled
             /\ \A i \in Call : inst'[i].pc \in Bracket <=> inst[i].pc \in Bracket
  BY <1>2
<1>3. \A i \in Call : inst'[i].pc \in Bracket => original_val'[i] = original_val[i]
  BY DEF Bracket
<1>. QED
  BY <1>1, <1>2, <1>3

\* The two calls of disable_system_restore: the first keeps the user's setting, for nobody
\* else is in its bracket, and the second puts it back.
LEMMA ChangeKept ==
  ASSUME TypeInv, PipeOwned, PolicyTypeOK, Kept, NEW i \in Call, ChangePolicy(i)
  PROVE  Kept'
<1>. USE DEF Kept
<1>0. inst \in [Call -> PacedInstaller] /\ original_val \in [Call -> Values]
  BY DEF TypeInv, PolicyTypeOK
<1>1. \A j \in Call : j # i => inst'[j] = inst[j]
  BY <1>0 DEF ChangePolicy, DisableRestore, EnableRestore, Step
<1>2. \A j \in Call : j # i /\ inst[i].pc \in Connected => inst[j].pc \notin Bracket
  BY DEF PipeOwned, Connected, Bracket, Steps
<1>3. UNCHANGED user_policy
  BY DEF ChangePolicy
<1>4. CASE DisableRestore(i)
  <2>1. inst[i].pc = "policy" /\ inst'[i].pc = "update"
    BY <1>0, <1>4 DEF DisableRestore, Step, PacedInstaller, Installer
  <2>2. original_val[i] = NoValue
    BY <2>1 DEF Early
  <2>3. \A j \in Call : inst[j].pc \notin Bracket
    BY <1>2, <2>1 DEF Bracket, Connected, Steps
  <2>4. CASE PolicyFails
    BY <1>1, <2>1, <2>2, <2>4 DEF PolicyFails, Early
  <2>5. CASE PolicyWorks(BackUpAndDisable, i)
    <3>1. /\ UNCHANGED spoiled
          /\ \A j \in Call : j # i => original_val'[j] = original_val[j]
          /\ original_val'[i] = policy
      BY <1>0, <2>2, <2>5 DEF PolicyWorks, BackUpAndDisable
    <3>. QED
      BY <1>1, <1>3, <2>1, <2>3, <3>1 DEF Early, Bracket
  <2>6. CASE EnableRestore(i)
    BY <2>1, <2>6 DEF EnableRestore, Step
  <2>. QED
    BY <2>4, <2>5, <2>6 DEF ChangePolicy
<1>5. CASE EnableRestore(i)
  <2>1. inst[i].pc = "restore" /\ inst'[i].pc = "close"
    BY <1>0, <1>5 DEF EnableRestore, Step, PacedInstaller, Installer
  <2>2. \A j \in Call : inst'[j].pc \notin Bracket
    BY <1>1, <1>2, <2>1 DEF Bracket, Connected, Steps
  <2>3. \A j \in Call : inst'[j].pc \in Early => inst[j].pc \in Early
    BY <1>1, <2>1 DEF Early
  <2>4. CASE PolicyFails
    BY <2>3, <2>4 DEF PolicyFails
  <2>5. CASE PolicyWorks(PutBack, i)
    BY <1>3, <2>1, <2>2, <2>3, <2>5 DEF PolicyWorks, PutBack, Bracket
  <2>6. CASE DisableRestore(i)
    BY <2>1, <2>6 DEF DisableRestore, Step
  <2>. QED
    BY <2>4, <2>5, <2>6 DEF ChangePolicy
<1>. QED
  BY <1>4, <1>5 DEF ChangePolicy

\* The invariant holds of the initial state ...
LEMMA PolicyInvInit == PolicyInit => PolicyInv
<1>1. PolicyInit => TypeInv /\ PipeOwned
  BY TypeInvInit, OwnedInit DEF PolicyInit
<1>2. PolicyInit => Untouched
  BY DEF PolicyInit, Init, Untouched, Absent
<1>3. PolicyInit => PolicyTypeOK
  <2>1. NoValue \in Values
    BY DEF Values
  <2>2. PolicyInit => policy \in Values /\ user_policy \in Values
    BY PolicyAssumption DEF PolicyInit
  <2>3. PolicyInit => original_val \in [Call -> Values]
    BY <2>1 DEF PolicyInit
  <2>4. PolicyInit => spoiled \in BOOLEAN
    BY DEF PolicyInit
  <2>5. PolicyInit => policyErrors \in 0..MaxPolicyErrors
    BY PolicyAssumption DEF PolicyInit
  <2>. QED
    BY <2>2, <2>3, <2>4, <2>5 DEF PolicyTypeOK
<1>4. PolicyInit => Kept
  BY DEF PolicyInit, Init, Kept, Absent, Bracket
<1>. QED
  BY <1>1, <1>2, <1>3, <1>4 DEF PolicyInv

\* ... and every step keeps it.
LEMMA PolicyInvStep == PolicyInv /\ [PolicyNext]_allVars => PolicyInv'
<1>. SUFFICES ASSUME PolicyInv, [PolicyNext]_allVars PROVE PolicyInv'
  OBVIOUS
<1>. USE DEF PolicyInv
<1>1. TypeInv' /\ PipeOwned'
  BY PolicyIsInstall, TypeInvStep, OwnedStep
<1>2. PolicyTypeOK'
  BY PolicyTypeStep
<1>3. CASE UNCHANGED allVars \/ (Over /\ UNCHANGED policyVars)
  <2>1. UNCHANGED <<inst, call, phase, policy, original_val, user_policy, spoiled>>
    BY <1>3 DEF allVars, vars, parentVars, policyVars, Over
  <2>. QED
    BY <1>1, <1>2, <2>1 DEF Untouched, Kept
<1>4. CASE ParentStep /\ LeavePolicy
  BY <1>1, <1>2, <1>4, UntouchedStep, ParentGoes, LeaveKept
<1>5. ASSUME NEW i \in Call, InstallerStep(i), LeavePolicy PROVE PolicyInv'
  BY <1>1, <1>2, <1>5, UntouchedStep, InstallerGoes, LeaveKept
<1>6. ASSUME NEW i \in Call, ChangePolicy(i) PROVE PolicyInv'
  <2>1. PolicyStep(i)
    BY <1>6 DEF ChangePolicy, PolicyStep
  <2>. QED
    BY <1>1, <1>2, <1>6, <2>1, UntouchedStep, ChangeKept
<1>. QED
  BY <1>3, <1>4, <1>5, <1>6 DEF PolicyNext

----------------------------------------------------------------------------
\* The installers that change the policy are those of Install: what is proved of Spec holds
\* of them too.
THEOREM PolicyImplementsInstall == PolicySpec => Spec
<1>1. PolicyInit => Init
  BY DEF PolicyInit
<1>. QED
  BY <1>1, PolicyIsInstall, PTL DEF PolicySpec, Spec

\* The policy is always one of its values, and so is what an installer keeps of it.
THEOREM PolicyTypeCorrect == PolicySpec => []PolicyTypeOK
  BY PolicyInvInit, PolicyInvStep, PTL DEF PolicySpec, PolicyInv

\* No two installers are ever inside their brackets, however many calls are made and
\* whatever crashes, times out or is left behind.
THEOREM BracketsNeverOverlap == PolicySpec => []BracketsDisjoint
<1>1. PolicyInv => BracketsDisjoint
  BY Disjoint DEF PolicyInv
<1>. QED
  BY <1>1, PolicyInvInit, PolicyInvStep, PTL DEF PolicySpec

\* Unless an installer is ended inside its bracket, fails before it or cannot reach the
\* policy, the machine is left with the setting its user had.
THEOREM PolicyIsRestored == PolicySpec => []PolicyRestored
<1>1. PolicyInv => PolicyRestored
  BY DEF PolicyInv, Kept, PolicyRestored
<1>. QED
  BY <1>1, PolicyInvInit, PolicyInvStep, PTL DEF PolicySpec
==============================================================================
