-------------------------------- MODULE Logger --------------------------------
(***************************************************************************)
(* The log of libwdi (logging.c): threads write their lines to a pipe and  *)
(* notify a window of the same process, which reads one line for each      *)
(* notification it handles.                                                *)
(*                                                                         *)
(* Two counters, pending and pipe_size, keep the pipe from outgrowing its  *)
(* buffer and the window from reading a line that is not there: either     *)
(* would block.  Writers and the reader update them without a lock, each   *)
(* update being a load and a store.  `disturbed` records that two threads  *)
(* have got in each other's way; the properties say that the protocol is   *)
(* right but for that.                                                     *)
(***************************************************************************)
EXTENDS Integers, Sequences

CONSTANTS
  Ui,         \* the window's thread: it logs, too
  Workers,    \* the other threads
  LineSizes,  \* the sizes of the lines
  LogBufSize, \* LOGBUF_SIZE: what is left of a line that is too long
  NoticeSize, \* the size of the notice that follows a truncated line
  PipeSize,   \* LOGGER_PIPE_SIZE
  ReadSizes,  \* the buffers wdi_read_logger is called with
  Wrap,       \* the two counters count modulo Wrap
  MaxLogs,    \* bound: lines logged
  MaxRegs,    \* bound: how often a window is registered
  MaxBusy     \* bound: how often wdi_read_logger is refused

ASSUME LoggerAssumption ==
  /\ Ui \notin Workers
  /\ LineSizes \cup {LogBufSize, NoticeSize} \subseteq 1..PipeSize
  /\ ReadSizes \subseteq Nat \ {0}
  /\ PipeSize \in Nat /\ Wrap \in Nat
  /\ MaxLogs \in Nat /\ MaxRegs \in Nat /\ MaxBusy \in Nat
  \* What the pipes of earlier windows left in pipe_size does not make it wrap around.
  /\ (MaxRegs + 2) * PipeSize < Wrap

Thread == Workers \cup {Ui}
Sizes == LineSizes \cup {LogBufSize, NoticeSize}

VARIABLES
  registered,  \* logger_dest # NULL
  open,        \* the two handles of the pipe
  pending,     \* log_messages_pending
  pipe_size,   \* log_messages_pipe_size
  pipe,        \* the sizes of the messages in the pipe, of the first what is left of it
  used,        \* the bytes in the pipe
  posted,      \* the notifications in the queue of the window
  pc, todo, tmp, \* of each thread: its place, the sizes it is to write, what it has loaded
  reader,      \* the place of the window's thread in wdi_read_logger
  rtmp,        \* what wdi_read_logger has loaded, and the bytes it has read
  sender,      \* the thread whose SendMessage is being handled, Ui when none waits for it
  logs, regs, busy,
  disturbed    \* history: see above

logVars == <<registered, open, pending, pipe_size, pipe, used>>
threadVars == <<pc, todo, tmp>>
readerVars == <<reader, rtmp, sender>>
boundVars == <<logs, regs, busy>>
vars == <<logVars, posted, threadVars, readerVars, boundVars, disturbed>>

Places == {"idle", "check", "drain", "sent", "reset", "write", "size", "count", "post"}
Reading == {"none", "enter", "store", "read", "sub"}

TypeOK ==
  /\ registered \in BOOLEAN /\ open \in BOOLEAN
  /\ pending \in 0..(Wrap - 1) /\ pipe_size \in 0..(Wrap - 1)
  /\ pipe \in Seq(1..PipeSize) /\ used \in Int
  /\ posted \in Nat
  /\ pc \in [Thread -> Places] /\ todo \in [Thread -> Seq(Sizes)]
  /\ tmp \in [Thread -> 0..(Wrap - 1)]
  /\ reader \in Reading
  /\ rtmp \in [value : 0..(Wrap - 1), bytes : 0..PipeSize]
  /\ sender \in Thread
  /\ logs \in 0..MaxLogs /\ regs \in 0..MaxRegs /\ busy \in 0..MaxBusy
  /\ disturbed \in BOOLEAN

Init ==
  /\ registered = FALSE /\ open = FALSE
  /\ pending = 0 /\ pipe_size = 0 /\ pipe = <<>> /\ used = 0 /\ posted = 0
  /\ pc = [t \in Thread |-> "idle"] /\ todo = [t \in Thread |-> <<>>]
  /\ tmp = [t \in Thread |-> 0]
  /\ reader = "none" /\ rtmp = [value |-> 0, bytes |-> 0] /\ sender = Ui
  /\ logs = 0 /\ regs = 0 /\ busy = 0
  /\ disturbed = FALSE

----------------------------------------------------------------------------
(* Writers: wdi_log, pipe_wdi_log_v, write_to_pipe.                        *)

Size(t) == Head(todo[t])
Go(t, place) == pc' = [pc EXCEPT ![t] = place]

\* The window's thread is not inside the procedure of the window.
Free(t) == t = Ui => reader = "none"

\* A line for the window: one message, or two when the line is truncated.
Log(t) ==
  /\ pc[t] = "idle" /\ Free(t) /\ registered /\ open /\ logs < MaxLogs
  /\ \E lines \in {<<n>> : n \in LineSizes} \cup {<<LogBufSize, NoticeSize>>} :
       todo' = [todo EXCEPT ![t] = lines]
  /\ Go(t, "check")
  /\ logs' = logs + 1
  /\ disturbed' = (disturbed \/ \E u \in Thread : pc[u] # "idle")
  /\ UNCHANGED <<logVars, posted, tmp, readerVars, regs, busy>>

\* A mutant of Check: the size of the line is not counted in.
CheckWithoutLine(t) ==
  /\ pc[t] = "check" /\ Free(t)
  /\ Go(t, IF pipe_size > PipeSize /\ pending > 0 THEN "drain" ELSE "write")
  /\ UNCHANGED <<logVars, posted, todo, tmp, readerVars, boundVars, disturbed>>

\* Is the pipe about to overflow?
Check(t) ==
  /\ pc[t] = "check" /\ Free(t)
  /\ Go(t, IF (pipe_size + Size(t)) % Wrap > PipeSize /\ pending > 0
           THEN "drain" ELSE "write")
  /\ UNCHANGED <<logVars, posted, todo, tmp, readerVars, boundVars, disturbed>>

\* The loop that empties the pipe.  SendMessage calls the window's procedure in its own
\* thread: another thread waits for it.
Drain(t) ==
  /\ pc[t] = "drain" /\ Free(t) /\ pending > 0 /\ registered
  /\ IF t = Ui THEN /\ reader' = "enter"
                    /\ UNCHANGED pc
               ELSE /\ Go(t, "sent")
                    /\ UNCHANGED reader
  /\ UNCHANGED <<logVars, posted, todo, tmp, rtmp, sender, boundVars, disturbed>>

Drained(t) ==
  /\ pc[t] = "drain" /\ Free(t) /\ pending = 0
  /\ Go(t, "reset")
  /\ UNCHANGED <<logVars, posted, todo, tmp, readerVars, boundVars, disturbed>>

\* "Just in case"
Reset(t) ==
  /\ pc[t] = "reset"
  /\ pipe_size' = 0
  /\ disturbed' = (disturbed \/ reader # "none")
  /\ Go(t, "write")
  /\ UNCHANGED <<registered, open, pending, pipe, used, posted, todo, tmp, readerVars,
                 boundVars>>

\* WriteFile blocks while the pipe has no room.
HasRoom(t) == used + Size(t) <= PipeSize

\* WriteFile, and pipe_size is loaded to be added to.
Write(t) ==
  /\ pc[t] = "write" /\ open /\ HasRoom(t)
  /\ pipe' = Append(pipe, Size(t))
  /\ used' = used + Size(t)
  /\ tmp' = [tmp EXCEPT ![t] = pipe_size]
  /\ Go(t, "size")
  /\ UNCHANGED <<registered, open, pending, pipe_size, posted, todo, readerVars,
                 boundVars, disturbed>>

\* There is no pipe: the message is lost, and counted all the same.
WriteFails(t) ==
  /\ pc[t] = "write" /\ ~open
  /\ tmp' = [tmp EXCEPT ![t] = pending]
  /\ Go(t, "count")
  /\ UNCHANGED <<logVars, posted, todo, readerVars, boundVars, disturbed>>

\* The sum is stored, and pending is loaded to be incremented.
AddSize(t) ==
  /\ pc[t] = "size"
  /\ pipe_size' = (tmp[t] + Size(t)) % Wrap
  /\ disturbed' = (disturbed \/ pipe_size # tmp[t])
  /\ tmp' = [tmp EXCEPT ![t] = pending]
  /\ Go(t, "count")
  /\ UNCHANGED <<registered, open, pending, pipe, used, posted, todo, readerVars, boundVars>>

Count(t) ==
  /\ pc[t] = "count"
  /\ pending' = (tmp[t] + 1) % Wrap
  /\ disturbed' = (disturbed \/ pending # tmp[t])
  /\ Go(t, "post")
  /\ UNCHANGED <<registered, open, pipe_size, pipe, used, posted, todo, tmp, readerVars,
                 boundVars>>

\* A mutant of Post: the window is only notified of a line when it has none to read.
PostFirst(t) ==
  /\ pc[t] = "post"
  /\ posted' = IF registered /\ posted = 0 THEN posted + 1 ELSE posted
  /\ todo' = [todo EXCEPT ![t] = Tail(@)]
  /\ Go(t, IF Tail(todo[t]) = <<>> THEN "idle" ELSE "check")
  /\ UNCHANGED <<logVars, tmp, readerVars, boundVars, disturbed>>

\* PostMessage, and the notice of a truncated line follows.
Post(t) ==
  /\ pc[t] = "post"
  /\ posted' = IF registered THEN posted + 1 ELSE posted
  /\ todo' = [todo EXCEPT ![t] = Tail(@)]
  /\ Go(t, IF Tail(todo[t]) = <<>> THEN "idle" ELSE "check")
  /\ UNCHANGED <<logVars, tmp, readerVars, boundVars, disturbed>>

----------------------------------------------------------------------------
(* The window: its message loop and wdi_read_logger.                       *)

InLoop == pc[Ui] = "idle" /\ reader = "none"

\* A notification, or the message another thread waits for, comes to the window's
\* procedure, which reads.
Dispatch ==
  /\ InLoop
  /\ reader' = "enter"
  /\ \/ posted > 0 /\ posted' = posted - 1 /\ UNCHANGED sender
     \/ \E t \in Workers : pc[t] = "sent" /\ sender' = t /\ UNCHANGED posted
  /\ UNCHANGED <<logVars, threadVars, rtmp, boundVars, disturbed>>

\* A mutant of EndRead: the thread that waits goes on waiting.
EndReadAlone ==
  /\ reader' = "none" /\ sender' = Ui
  /\ rtmp' = [value |-> 0, bytes |-> 0]
  /\ UNCHANGED pc

\* The window's procedure returns, to the thread that waits for it if one does.
EndRead ==
  /\ reader' = "none" /\ sender' = Ui
  /\ rtmp' = [value |-> 0, bytes |-> 0]
  /\ pc' = IF sender = Ui THEN pc ELSE [pc EXCEPT ![sender] = "drain"]

\* Another process is in wdi_read_logger: WDI_ERROR_BUSY.
ReadBusy ==
  /\ reader = "enter" /\ busy < MaxBusy
  /\ busy' = busy + 1
  /\ EndRead
  /\ UNCHANGED <<logVars, posted, todo, tmp, logs, regs, disturbed>>

\* A pipe is created for whoever reads, registered or not.
ReadCreates ==
  /\ reader = "enter" /\ ~open
  /\ open' = TRUE /\ pending' = 0
  /\ disturbed' = (disturbed \/ \E t \in Thread : pc[t] # "idle")
  /\ EndRead
  /\ UNCHANGED <<registered, pipe_size, pipe, used, posted, todo, tmp, boundVars>>

\* Nothing is pending: a spurious call.
ReadNothing ==
  /\ reader = "enter" /\ open /\ pending = 0
  /\ EndRead
  /\ UNCHANGED <<logVars, posted, todo, tmp, boundVars, disturbed>>

\* A mutant of ReadPending: a spurious call is not told.
ReadAnyway ==
  /\ reader = "enter" /\ open
  /\ rtmp' = [rtmp EXCEPT !.value = pending]
  /\ reader' = "store"
  /\ UNCHANGED <<logVars, posted, threadVars, sender, boundVars, disturbed>>

\* pending is loaded to be decremented ...
ReadPending ==
  /\ reader = "enter" /\ open /\ pending > 0
  /\ rtmp' = [rtmp EXCEPT !.value = pending]
  /\ reader' = "store"
  /\ UNCHANGED <<logVars, posted, threadVars, sender, boundVars, disturbed>>

\* ... and stored.
Decrement ==
  /\ reader = "store"
  /\ pending' = rtmp.value - 1
  /\ disturbed' = (disturbed \/ pending # rtmp.value)
  /\ reader' = "read"
  /\ UNCHANGED <<registered, open, pipe_size, pipe, used, posted, threadVars, rtmp, sender,
                 boundVars>>

\* ReadFile blocks while the pipe is empty.  When the message does not fit into the buffer
\* (WDI_ERROR_OVERFLOW) the rest of it stays in the pipe.
Read ==
  /\ reader = "read" /\ pipe # <<>>
  /\ \E b \in ReadSizes :
       LET fits == Head(pipe) <= b
           n == IF fits THEN Head(pipe) ELSE b
       IN /\ pipe' = IF fits THEN Tail(pipe) ELSE <<Head(pipe) - n>> \o Tail(pipe)
          /\ used' = used - n
          /\ rtmp' = [value |-> pipe_size, bytes |-> n]
          /\ disturbed' = (disturbed \/ ~fits)
  /\ reader' = "sub"
  /\ UNCHANGED <<registered, open, pending, pipe_size, posted, threadVars, sender,
                 boundVars>>

\* What was read is taken off pipe_size.
SubSize ==
  /\ reader = "sub"
  /\ pipe_size' = (rtmp.value - rtmp.bytes) % Wrap
  /\ disturbed' = (disturbed \/ pipe_size # rtmp.value)
  /\ EndRead
  /\ UNCHANGED <<registered, open, pending, pipe, used, posted, todo, tmp, boundVars>>

\* A mutant of Register: what the last window left pending is kept.
RegisterKeeping ==
  /\ InLoop /\ ~registered /\ ~open /\ regs < MaxRegs
  /\ registered' = TRUE /\ open' = TRUE
  /\ regs' = regs + 1
  /\ disturbed' = (disturbed \/ \E t \in Thread : pc[t] # "idle")
  /\ UNCHANGED <<pending, pipe_size, pipe, used, posted, threadVars, readerVars, logs, busy>>

\* wdi_register_logger; while a pipe is left it does nothing but fail.
Register ==
  /\ InLoop /\ ~registered /\ ~open /\ regs < MaxRegs
  /\ registered' = TRUE /\ open' = TRUE /\ pending' = 0
  /\ regs' = regs + 1
  /\ disturbed' = (disturbed \/ \E t \in Thread : pc[t] # "idle")
  /\ UNCHANGED <<pipe_size, pipe, used, posted, threadVars, readerVars, logs, busy>>

\* wdi_unregister_logger
Unregister ==
  /\ InLoop /\ registered
  /\ registered' = FALSE /\ open' = FALSE /\ pipe' = <<>> /\ used' = 0
  /\ disturbed' = (disturbed \/ \E t \in Thread : pc[t] # "idle")
  /\ UNCHANGED <<pending, pipe_size, posted, threadVars, readerVars, boundVars>>

----------------------------------------------------------------------------
WriterStep(t) ==
  \/ Check(t) \/ Drain(t) \/ Drained(t) \/ Reset(t) \/ Write(t) \/ WriteFails(t)
  \/ AddSize(t) \/ Count(t) \/ Post(t)

ReaderStep ==
  \/ Dispatch \/ ReadBusy \/ ReadCreates \/ ReadNothing \/ ReadPending \/ Decrement \/ Read
  \/ SubSize

Next ==
  \/ \E t \in Thread : Log(t) \/ WriterStep(t)
  \/ ReaderStep \/ Register \/ Unregister

Spec == Init /\ [][Next]_vars

\* The threads are scheduled, and the window's thread returns to its message loop.
FairSpec ==
  /\ Spec
  /\ \A t \in Thread : WF_vars(WriterStep(t))
  /\ WF_vars(ReaderStep)

----------------------------------------------------------------------------
\* The window's thread never waits in ReadFile for a message that is not in the pipe: a
\* notification that comes late, twice, or from a window that was registered before is
\* told from one with a message.
ReadHasMessage == ~disturbed /\ reader = "read" => pipe # <<>>

\* No writer is frozen in WriteFile: the overflow check sees in time, from a count of the
\* bytes that other readings and registrations have left, that the pipe must be emptied.
\* (It looks at pending, too, which the reader decrements before it reads: a writer may then
\* find no room, but only for as long as the reader takes the last message.)
WriteHasRoom ==
  \A t \in Thread :
    ~disturbed /\ pc[t] = "write" /\ open => HasRoom(t) \/ (t # Ui /\ reader = "read")

\* A thread that logs gets its line written, also when it has to wait for the window to
\* empty the pipe, and when that is the thread it runs in itself.
LogReturns ==
  \A t \in Thread : pc[t] # "idle" ~> pc[t] = "idle" \/ disturbed

\* No line is forgotten in the pipe: for each there is a notification that is posted or
\* about to be, or the window's thread is about to read it.
LinesAnnounced ==
  LET reading == IF reader \in {"enter", "store", "read"} THEN 1 ELSE 0
      writing == IF \E t \in Thread : pc[t] \in {"size", "count", "post"} THEN 1 ELSE 0
  IN ~disturbed /\ busy = 0 /\ registered => Len(pipe) <= posted + reading + writing

\* Every line is read in the end: there is a notification for each message in the pipe,
\* unless another process kept the window from reading when it came.
EverythingRead ==
  <>[](~disturbed /\ busy = 0 /\ registered) => <>[](pipe = <<>>)
=============================================================================
