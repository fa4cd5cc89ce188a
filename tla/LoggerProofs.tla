---------------------------- MODULE LoggerProofs ----------------------------
(***************************************************************************)
(* What holds of Logger for any number of threads, lines, windows and any  *)
(* sizes: its types, and that while no two threads have got in each        *)
(* other's way the window never waits for a line that is not there, no     *)
(* writer for room that nobody makes, and no line is left in the pipe that *)
(* nobody tells the window of.                                             *)
(***************************************************************************)
EXTENDS Logger, SequenceTheorems, TLAPS

\* A DWORD wraps around, and only then.
LEMMA Wraps ==
  /\ \A a \in Int : a % Wrap \in 0..(Wrap - 1)
  /\ \A a \in 0..(Wrap - 1) : a % Wrap = a
<1>1. Wrap \in Nat \ {0}
  <2>1. MaxRegs + 2 \in Nat /\ PipeSize \in Nat
    BY LoggerAssumption
  <2>2. (MaxRegs + 2) * PipeSize \in Nat
    BY <2>1
  <2>. QED
    BY <2>2, LoggerAssumption
<1>. QED
  BY <1>1

\* The sizes are those of messages that fit into the pipe.
LEMMA SizesTyped ==
  Sizes \subseteq 1..PipeSize /\ PipeSize \in Nat /\ Wrap \in Nat /\ PipeSize < Wrap
<1>1. PipeSize \in Nat /\ MaxRegs \in Nat /\ Wrap \in Nat /\ (MaxRegs + 2) * PipeSize < Wrap
  BY LoggerAssumption
<1>2. (MaxRegs + 2) * PipeSize = MaxRegs * PipeSize + 2 * PipeSize /\ MaxRegs * PipeSize \in Nat
  BY <1>1
<1>. QED
  BY <1>1, <1>2, LoggerAssumption DEF Sizes

\* Who is where, whatever happens: the pipe is open while a window is registered, and
\* empty when it is not open; the thread whose message is handled waits for it; whoever
\* writes has something to write.
InPlace ==
  /\ registered => open /\ regs > 0
  /\ ~open => pipe = <<>> /\ used = 0 /\ reader \in {"none", "enter"}
  /\ reader = "none" => sender = Ui
  /\ sender # Ui => pc[sender] = "sent"
  /\ pc[Ui] # "sent" /\ (reader # "none" => pc[Ui] \in {"idle", "drain"})
  /\ reader = "store" => rtmp.value > 0
  /\ \A t \in Thread : pc[t] # "idle" => todo[t] # <<>>

LogTypeInv == TypeOK /\ InPlace

\* What is left to write of a line, after a message of it is written.
LEMMA TodoTyped ==
  ASSUME LogTypeInv, NEW t \in Thread, pc[t] # "idle"
  PROVE  Size(t) \in 1..PipeSize /\ Size(t) \in Sizes /\ Tail(todo[t]) \in Seq(Sizes)
<1>1. todo[t] \in Seq(Sizes) /\ todo[t] # <<>>
  BY DEF LogTypeInv, TypeOK, InPlace
<1>2. Head(todo[t]) \in Sizes /\ Tail(todo[t]) \in Seq(Sizes)
  BY <1>1, HeadTailProperties
<1>. QED
  BY <1>2, SizesTyped DEF Size

\* The procedure of the window returns to whoever waits for it.
LEMMA EndReadTyped ==
  ASSUME LogTypeInv, EndRead
  PROVE  /\ reader' = "none" /\ sender' = Ui /\ rtmp' = [value |-> 0, bytes |-> 0]
         /\ pc' \in [Thread -> Places]
         /\ \A t \in Thread : \/ pc'[t] = pc[t]
                              \/ t # Ui /\ t = sender /\ pc[t] = "sent" /\ pc'[t] = "drain"
  BY DEF LogTypeInv, TypeOK, InPlace, EndRead, Places

\* Two threads that have got in each other's way have done so for good.
LEMMA Disturbance ==
  ASSUME disturbed \in BOOLEAN, [Next]_vars
  PROVE  disturbed' \in BOOLEAN /\ (disturbed => disturbed')
<1>1. \A p : (disturbed \/ p) \in BOOLEAN
  OBVIOUS
<1>2. ASSUME NEW t \in Thread, Log(t) \/ WriterStep(t)
      PROVE  disturbed' = disturbed \/ \E p : disturbed' = (disturbed \/ p)
  BY <1>2 DEF WriterStep, Log, Check, Drain, Drained, Reset, Write, WriteFails, AddSize,
     Count, Post
<1>3. ASSUME ReaderStep \/ Register \/ Unregister \/ UNCHANGED vars
      PROVE  disturbed' = disturbed \/ \E p : disturbed' = (disturbed \/ p)
  BY <1>3 DEF ReaderStep, Dispatch, ReadBusy, ReadCreates, ReadNothing, ReadPending,
     Decrement, Read, SubSize, Register, Unregister, vars
<1>. QED
  BY <1>1, <1>2, <1>3 DEF Next

\* A step of a thread that writes leaves the other threads where they are.
LEMMA WriterTypes ==
  ASSUME LogTypeInv, NEW t \in Thread, Log(t) \/ WriterStep(t)
  PROVE  LogTypeInv'
<1>. USE DEF LogTypeInv
<1>1. ASSUME pc[t] # "idle"
      PROVE  Size(t) \in 1..PipeSize /\ Tail(todo[t]) \in Seq(Sizes)
  BY <1>1, TodoTyped
<1>2. disturbed' \in BOOLEAN
  BY Disturbance DEF TypeOK, Next
<1>3. pc \in [Thread -> Places] /\ todo \in [Thread -> Seq(Sizes)]
  BY DEF TypeOK
<1>4. /\ pc' \in [Thread -> Places] /\ (t = Ui => pc'[t] # "sent")
      /\ \A u \in Thread : u # t => pc'[u] = pc[u]
  BY <1>3 DEF WriterStep, Log, Check, Drain, Drained, Reset, Write, WriteFails, AddSize,
     Count, Post, Go, Places
<1>5. /\ todo' \in [Thread -> Seq(Sizes)]
      /\ \A u \in Thread : u # t => todo'[u] = todo[u]
      /\ pc'[t] # "idle" => todo'[t] # <<>>
  <2>1. CASE Log(t)
    <3>1. PICK lines \in {<<n>> : n \in LineSizes} \cup {<<LogBufSize, NoticeSize>>} :
            todo' = [todo EXCEPT ![t] = lines]
      BY <2>1 DEF Log
    <3>2. lines \in Seq(Sizes) /\ lines # <<>>
      <4>1. LineSizes \subseteq Sizes /\ LogBufSize \in Sizes /\ NoticeSize \in Sizes
        BY DEF Sizes
      <4>2. CASE \E n \in LineSizes : lines = <<n>>
        BY <4>1, <4>2
      <4>3. CASE lines = <<LogBufSize, NoticeSize>>
        BY <4>1, <4>3
      <4>. QED
        BY <4>2, <4>3
    <3>. QED
      BY <1>3, <3>1, <3>2
  <2>2. CASE Post(t)
    BY <1>1, <1>3, <2>2 DEF Post, Go
  <2>3. CASE todo' = todo /\ pc[t] # "idle"
    BY <1>3, <2>3 DEF InPlace
  <2>. QED
    BY <2>1, <2>2, <2>3 DEF WriterStep, Check, Drain, Drained, Reset, Write, WriteFails,
       AddSize, Count
<1>6. /\ pending' \in 0..(Wrap - 1) /\ pipe_size' \in 0..(Wrap - 1) /\ posted' \in Nat
      /\ tmp' \in [Thread -> 0..(Wrap - 1)]
  <2>1. /\ pending \in 0..(Wrap - 1) /\ pipe_size \in 0..(Wrap - 1) /\ posted \in Nat
        /\ tmp \in [Thread -> 0..(Wrap - 1)] /\ tmp[t] \in Int /\ 0 \in 0..(Wrap - 1)
    BY SizesTyped DEF TypeOK
  <2>2. CASE AddSize(t)
    BY <1>1, <2>1, <2>2, Wraps DEF AddSize
  <2>3. CASE Count(t)
    BY <2>1, <2>3, Wraps DEF Count
  <2>4. CASE ~AddSize(t) /\ ~Count(t)
    BY <2>1, <2>4, SMTT(30)
       DEF WriterStep, Log, Check, Drain, Drained, Reset, Write, WriteFails, Post,
       logVars
  <2>. QED
    BY <2>2, <2>3, <2>4
<1>7. /\ pipe' \in Seq(1..PipeSize) /\ used' \in Int
      /\ UNCHANGED <<registered, open, regs>>
      /\ ~open => pipe' = pipe /\ used' = used
  <2>1. CASE Write(t)
    BY <1>1, <2>1, AppendProperties DEF TypeOK, Write, boundVars
  <2>2. CASE ~Write(t)
    BY <2>2 DEF TypeOK, WriterStep, Log, Check, Drain, Drained, Reset, WriteFails, AddSize,
       Count, Post, logVars, boundVars
  <2>. QED
    BY <2>1, <2>2
<1>8. /\ reader' \in Reading /\ UNCHANGED <<rtmp, sender, busy>>
      /\ pc[t] # "sent" /\ (t # Ui => reader' = reader)
      /\ t = Ui => reader = "none" /\ (reader' = "enter" => pc'[Ui] = "drain")
      /\ t = Ui => reader' \in {"none", "enter"}
  <2>1. reader \in Reading /\ (t = Ui /\ reader # "none" => pc[t] \in {"idle", "drain"})
    BY DEF TypeOK, InPlace
  <2>2. CASE Drain(t)
    BY <1>3, <2>1, <2>2 DEF Drain, Reading, Free, boundVars
  <2>3. CASE ~Drain(t)
    <3>1. /\ reader' = reader /\ rtmp' = rtmp /\ sender' = sender /\ busy' = busy
          /\ pc[t] # "sent" /\ (t = Ui => reader = "none")
      BY <2>1, <2>3 DEF WriterStep, Log, Check, Drained, Reset, Write, WriteFails,
         AddSize, Count, Post, Free, readerVars, boundVars
    <3>. QED
      BY <2>1, <3>1
  <2>. QED
    BY <2>2, <2>3
<1>9. logs' \in 0..MaxLogs
  <2>1. logs \in 0..MaxLogs
    BY DEF TypeOK
  <2>2. CASE Log(t)
    BY <2>1, <2>2, LoggerAssumption DEF Log
  <2>3. CASE ~Log(t)
    BY <2>1, <2>3 DEF WriterStep, Check, Drain, Drained, Reset, Write, WriteFails, AddSize,
       Count, Post, boundVars
  <2>. QED
    BY <2>2, <2>3
<1>10. TypeOK'
  <2>1. /\ registered' \in BOOLEAN /\ open' \in BOOLEAN /\ rtmp' = rtmp
        /\ sender' \in Thread /\ busy' \in 0..MaxBusy /\ regs' \in 0..MaxRegs
    BY <1>7, <1>8 DEF TypeOK
  <2>2. rtmp' \in [value : 0..(Wrap - 1), bytes : 0..PipeSize]
    BY <2>1 DEF TypeOK
  <2>. QED
    BY <1>2, <1>4, <1>5, <1>6, <1>7, <1>8, <1>9, <2>1, <2>2 DEF TypeOK
<1>11. InPlace'
  <2>1. Ui \in Thread
    BY DEF Thread
  <2>2. pc'[Ui] # "sent" /\ (reader' # "none" => pc'[Ui] \in {"idle", "drain"})
    BY <1>4, <1>8, <2>1 DEF InPlace
  <2>3. /\ reader' = "none" => sender' = Ui
        /\ sender' # Ui => pc'[sender'] = "sent"
        /\ reader' = "store" => rtmp'.value > 0
    BY <1>4, <1>8 DEF InPlace, TypeOK
  <2>4. /\ registered' => open' /\ regs' > 0
        /\ ~open' => pipe' = <<>> /\ used' = 0 /\ reader' \in {"none", "enter"}
    BY <1>7, <1>8 DEF InPlace
  <2>5. \A u \in Thread : pc'[u] # "idle" => todo'[u] # <<>>
    BY <1>4, <1>5 DEF InPlace
  <2>. QED
    BY <2>2, <2>3, <2>4, <2>5 DEF InPlace
<1>. QED
  BY <1>10, <1>11

\* A step of the window's thread, in its message loop or in wdi_read_logger.
LEMMA ReaderTypes ==
  ASSUME LogTypeInv, ReaderStep \/ Register \/ Unregister
  PROVE  LogTypeInv'
<1>. USE DEF LogTypeInv
<1>. DEFINE Sent == \A t \in Thread :
              \/ pc'[t] = pc[t]
              \/ t # Ui /\ t = sender /\ pc[t] = "sent" /\ pc'[t] = "drain"
<1>1. disturbed' \in BOOLEAN
  BY Disturbance DEF TypeOK, Next
<1>2. pc \in [Thread -> Places] /\ pc' \in [Thread -> Places] /\ Sent /\ todo' = todo
  BY EndReadTyped DEF TypeOK, ReaderStep, Dispatch, ReadBusy, ReadCreates, ReadNothing,
     ReadPending, Decrement, Read, SubSize, Register, Unregister, threadVars
<1>3. /\ reader' \in Reading /\ sender' \in Thread
      /\ reader' = "none" => sender' = Ui
      /\ sender' # Ui => pc'[sender'] = "sent"
      /\ pc'[Ui] = pc[Ui] /\ (reader' # "none" => pc[Ui] \in {"idle", "drain"})
      /\ reader' = "store" => rtmp'.value > 0
  <2>1. Ui \in Thread /\ Workers \subseteq Thread /\ Ui \notin Workers
    BY LoggerAssumption DEF Thread
  <2>2. pc'[Ui] = pc[Ui]
    BY <1>2, <2>1
  <2>3. CASE Dispatch
    BY <2>1, <2>2, <2>3 DEF TypeOK, InPlace, Dispatch, InLoop, Reading, threadVars
  <2>4. CASE ReadBusy \/ ReadCreates \/ ReadNothing \/ SubSize
    BY <2>1, <2>2, <2>4, EndReadTyped DEF ReadBusy, ReadCreates, ReadNothing, SubSize, Reading
  <2>5. CASE ReadPending \/ Decrement \/ Read
    <3>1. /\ UNCHANGED <<pc, sender>> /\ reader # "none" /\ reader' \in {"store", "read", "sub"}
      BY <2>5 DEF ReadPending, Decrement, Read, threadVars
    <3>2. reader' = "store" => rtmp'.value > 0
      BY <2>5 DEF ReadPending, Decrement, Read, TypeOK
    <3>. QED
      BY <2>2, <3>1, <3>2 DEF TypeOK, InPlace, Reading
  <2>6. CASE Register \/ Unregister
    BY <2>6 DEF TypeOK, InPlace, Register, Unregister, threadVars, readerVars
  <2>. QED
    BY <2>3, <2>4, <2>5, <2>6 DEF ReaderStep
<1>4. /\ pending' \in 0..(Wrap - 1) /\ pipe_size' \in 0..(Wrap - 1) /\ posted' \in Nat
      /\ tmp' \in [Thread -> 0..(Wrap - 1)]
      /\ rtmp' \in [value : 0..(Wrap - 1), bytes : 0..PipeSize]
      /\ pipe' \in Seq(1..PipeSize) /\ used' \in Int
      /\ ~open => pipe' = pipe /\ used' = used
  <2>1. /\ pending \in 0..(Wrap - 1) /\ pipe_size \in 0..(Wrap - 1) /\ posted \in Nat
        /\ rtmp \in [value : 0..(Wrap - 1), bytes : 0..PipeSize]
        /\ pipe \in Seq(1..PipeSize) /\ used \in Int /\ 0 \in 0..(Wrap - 1)
        /\ PipeSize \in Nat /\ Wrap \in Nat /\ tmp \in [Thread -> 0..(Wrap - 1)]
    BY SizesTyped DEF TypeOK
  <2>2. tmp' = tmp
    BY DEF ReaderStep, Dispatch, ReadBusy, ReadCreates, ReadNothing, ReadPending, Decrement,
       Read, SubSize, Register, Unregister, threadVars
  <2>3. CASE Dispatch \/ Register \/ Unregister
    <3>1. CASE Dispatch
      BY <2>1, <2>2, <3>1 DEF Dispatch, logVars
    <3>2. CASE Register
      BY <2>1, <2>2, <3>2 DEF Register, readerVars
    <3>3. CASE Unregister
      BY <2>1, <2>2, <3>3 DEF Unregister, InPlace, readerVars
    <3>. QED
      BY <2>3, <3>1, <3>2, <3>3
  <2>4. CASE ReadBusy \/ ReadCreates \/ ReadNothing
    BY <2>1, <2>2, <2>4, EndReadTyped DEF ReadBusy, ReadCreates, ReadNothing, logVars
  <2>5. CASE ReadPending
    BY <2>1, <2>2, <2>5 DEF ReadPending, logVars
  <2>6. CASE Decrement
    <3>1. rtmp.value \in 1..(Wrap - 1)
      BY <2>1, <2>6 DEF Decrement, InPlace
    <3>. QED
      BY <2>1, <2>2, <2>6, <3>1 DEF Decrement
  <2>7. CASE SubSize
    <3>1. rtmp.value - rtmp.bytes \in Int
      BY <2>1
    <3>2. pipe_size' \in 0..(Wrap - 1)
      BY <2>7, <3>1, Wraps DEF SubSize
    <3>3. rtmp' = [value |-> 0, bytes |-> 0]
      BY <2>7, EndReadTyped DEF SubSize
    <3>. QED
      BY <2>1, <2>2, <2>7, <3>2, <3>3 DEF SubSize
  <2>8. CASE Read
    <3>1. PICK b \in ReadSizes :
            LET fits == Head(pipe) <= b
                n == IF fits THEN Head(pipe) ELSE b
            IN /\ pipe' = IF fits THEN Tail(pipe) ELSE <<Head(pipe) - n>> \o Tail(pipe)
               /\ used' = used - n
               /\ rtmp' = [value |-> pipe_size, bytes |-> n]
      BY <2>8 DEF Read
    <3>2. /\ Head(pipe) \in 1..PipeSize /\ Tail(pipe) \in Seq(1..PipeSize)
          /\ b \in Nat \ {0} /\ open
      BY <2>1, <2>8, HeadTailProperties, LoggerAssumption DEF Read, InPlace
    <3>3. CASE Head(pipe) <= b
      <4>1. /\ pipe' = Tail(pipe) /\ used' = used - Head(pipe)
            /\ rtmp' = [value |-> pipe_size, bytes |-> Head(pipe)]
        BY <3>1, <3>3
      <4>2. Head(pipe) \in 0..PipeSize /\ used - Head(pipe) \in Int
        BY <2>1, <3>2
      <4>3. rtmp' \in [value : 0..(Wrap - 1), bytes : 0..PipeSize]
        BY <2>1, <4>1, <4>2
      <4>. QED
        BY <2>1, <2>2, <2>8, <3>2, <4>1, <4>2, <4>3 DEF Read
    <3>4. CASE ~(Head(pipe) <= b)
      <4>1. Head(pipe) - b \in 1..PipeSize /\ b \in 0..PipeSize
        BY <2>1, <3>2, <3>4
      <4>2. <<Head(pipe) - b>> \in Seq(1..PipeSize)
        BY <4>1
      <4>3. pipe' = <<Head(pipe) - b>> \o Tail(pipe)
        BY <3>1, <3>4
      <4>4. pipe' \in Seq(1..PipeSize)
        BY <3>2, <4>2, <4>3, ConcatProperties
      <4>. QED
        BY <2>1, <2>2, <2>8, <3>1, <3>2, <3>4, <4>1, <4>4 DEF Read
    <3>. QED
      BY <3>3, <3>4
  <2>. QED
    BY <2>3, <2>4, <2>5, <2>6, <2>7, <2>8 DEF ReaderStep
<1>5. /\ registered' \in BOOLEAN /\ open' \in BOOLEAN /\ regs' \in 0..MaxRegs
      /\ logs' \in 0..MaxLogs /\ busy' \in 0..MaxBusy
      /\ registered' => open' /\ regs' > 0
      /\ ~open' => pipe' = <<>> /\ used' = 0 /\ reader' \in {"none", "enter"}
  <2>1. CASE Register
    BY <2>1, LoggerAssumption DEF TypeOK, Register
  <2>2. CASE Unregister
    BY <2>2 DEF TypeOK, Unregister, InLoop, boundVars, readerVars
  <2>3. CASE ReadCreates
    BY <2>3 DEF TypeOK, InPlace, ReadCreates, boundVars
  <2>4. CASE ReadBusy
    BY <2>4, LoggerAssumption, EndReadTyped DEF TypeOK, InPlace, ReadBusy, logVars
  <2>5. CASE Dispatch
    BY <2>5 DEF TypeOK, InPlace, Dispatch, logVars, boundVars
  <2>7. CASE ReadNothing
    <3>1. UNCHANGED <<registered, open, regs, logs, busy>> /\ open
      BY <2>7 DEF ReadNothing, logVars, boundVars
    <3>. QED
      BY <3>1 DEF TypeOK, InPlace
  <2>6. CASE ReadPending \/ Decrement \/ Read \/ SubSize
    BY <2>6 DEF TypeOK, InPlace, ReadPending, Decrement, Read, SubSize, logVars, boundVars
  <2>. QED
    BY <2>1, <2>2, <2>3, <2>4, <2>5, <2>6, <2>7 DEF ReaderStep
<1>6. TypeOK'
  BY <1>1, <1>2, <1>3, <1>4, <1>5 DEF TypeOK
<1>7. InPlace'
  <2>1. \A t \in Thread : pc'[t] # "idle" => todo'[t] # <<>>
    BY <1>2 DEF InPlace
  <2>2. pc'[Ui] # "sent"
    BY <1>3 DEF InPlace
  <2>. QED
    BY <1>3, <1>5, <2>1, <2>2 DEF InPlace
<1>. QED
  BY <1>6, <1>7

\* The types hold of the initial state ...
LEMMA LogTypeInit == Init => LogTypeInv
<1>. SUFFICES ASSUME Init PROVE LogTypeInv
  OBVIOUS
<1>1. /\ 0 \in 0..(Wrap - 1) /\ 0 \in 0..PipeSize /\ Ui \in Thread
      /\ 0 \in 0..MaxLogs /\ 0 \in 0..MaxRegs /\ 0 \in 0..MaxBusy
  BY LoggerAssumption, SizesTyped DEF Thread
<1>2. /\ pc \in [Thread -> Places] /\ todo \in [Thread -> Seq(Sizes)]
      /\ tmp \in [Thread -> 0..(Wrap - 1)] /\ pipe \in Seq(1..PipeSize)
  BY <1>1 DEF Init, Places
<1>3. TypeOK
  <2>1. rtmp \in [value : 0..(Wrap - 1), bytes : 0..PipeSize] /\ disturbed \in BOOLEAN
    BY <1>1 DEF Init
  <2>2. registered \in BOOLEAN /\ open \in BOOLEAN
    BY DEF Init
  <2>. QED
    BY <1>1, <1>2, <2>1, <2>2 DEF Init, TypeOK, Reading
<1>4. InPlace
  BY <1>1 DEF Init, InPlace
<1>. QED
  BY <1>3, <1>4 DEF LogTypeInv

\* ... and every step keeps them.
LEMMA LogTypeStep == LogTypeInv /\ [Next]_vars => LogTypeInv'
<1>1. LogTypeInv /\ UNCHANGED vars => LogTypeInv'
  BY DEF LogTypeInv, TypeOK, InPlace, vars, logVars, threadVars, readerVars, boundVars
<1>. QED
  BY <1>1, WriterTypes, ReaderTypes DEF Next

\* The types of Logger hold, for threads that interleave as they like: no counter goes
\* below zero or beyond its width.
THEOREM LoggerTypeCorrect == Spec => []TypeOK
<1>1. LogTypeInv => TypeOK
  BY DEF LogTypeInv
<1>. QED
  BY <1>1, LogTypeInit, LogTypeStep, PTL DEF Spec
----------------------------------------------------------------------------
Bit(b) == IF b THEN 1 ELSE 0

\* The bytes of the pipe are those of its messages, as their sums from the first to each
\* show, and never more than it has room for.
Filled ==
  \E acc \in [0..Len(pipe) -> 0..PipeSize] :
    /\ acc[0] = 0 /\ acc[Len(pipe)] = used
    /\ \A k \in 1..Len(pipe) : acc[k] = acc[k - 1] + pipe[k]
    /\ \A j, k \in 0..Len(pipe) : j <= k => acc[j] + (k - j) <= acc[k]

\* A message is in the pipe that is not yet in the count of the messages ...
Uncounted == \E t \in Thread : pc[t] \in {"size", "count"}
\* ... not yet in that of the bytes, or still there although it was read.
Adding == IF \E t \in Thread : pc[t] = "size" THEN pipe[Len(pipe)] ELSE 0
Taking == IF reader = "sub" THEN rtmp.bytes ELSE 0

\* What earlier windows may have left in the count of the bytes, which no registration
\* clears: a pipe each.
Left == (IF registered THEN regs - 1 ELSE regs) * PipeSize

\* One thread writes at a time; the counts are right but for the message that is being
\* written or read, and never too low.  So whoever finds the pipe too full, or nothing
\* pending, finds out in time, and the one who is about to write has room but while the
\* window is reading the last message.
Calm ==
  /\ \A t, u \in Thread : pc[t] # "idle" /\ pc[u] # "idle" => t = u
  /\ \A t \in Thread : pc[t] # "idle" => registered
  /\ open => Len(pipe) = pending + Bit(Uncounted) + Bit(reader = "read")
  /\ \A t \in Thread :
       /\ pc[t] = "reset" => pending = 0
       /\ pc[t] = "size" => pipe # <<>> /\ pipe[Len(pipe)] = Size(t)
       /\ pc[t] = "write" => HasRoom(t) \/ (t # Ui /\ reader = "read" /\ Len(pipe) = 1)
  /\ used + Taking <= pipe_size + Adding
  /\ pipe_size + Adding <= used + Taking + Left

LogInv == LogTypeInv /\ Filled /\ (~disturbed => Calm)

----------------------------------------------------------------------------
\* A witness of Filled speaks of the messages at both ends of the pipe.
LEMMA FilledFacts ==
  ASSUME LogTypeInv, Filled
  PROVE  /\ Len(pipe) \in Nat /\ used \in 0..PipeSize /\ Len(pipe) <= used
         /\ pipe = <<>> => Len(pipe) = 0 /\ used = 0
         /\ pipe # <<>> => /\ Len(pipe) > 0 /\ Head(pipe) = pipe[1]
                          /\ Head(pipe) \in 1..PipeSize /\ Head(pipe) <= used
                          /\ pipe[Len(pipe)] \in 1..PipeSize /\ pipe[Len(pipe)] <= used
         /\ Len(pipe) = 1 => used = Head(pipe)
<1>1. pipe \in Seq(1..PipeSize) /\ PipeSize \in Nat
  BY SizesTyped DEF LogTypeInv, TypeOK
<1>2. Len(pipe) \in Nat /\ (\A k \in 1..Len(pipe) : pipe[k] \in 1..PipeSize)
  BY <1>1, LenProperties, ElementOfSeq
<1>3. PICK acc \in [0..Len(pipe) -> 0..PipeSize] :
        /\ acc[0] = 0 /\ acc[Len(pipe)] = used
        /\ \A k \in 1..Len(pipe) : acc[k] = acc[k - 1] + pipe[k]
        /\ \A j, k \in 0..Len(pipe) : j <= k => acc[j] + (k - j) <= acc[k]
  BY DEF Filled
<1>4. used \in 0..PipeSize /\ Len(pipe) <= used
  <2>1. 0 \in 0..Len(pipe) /\ Len(pipe) \in 0..Len(pipe)
    BY <1>2
  <2>2. acc[0] + (Len(pipe) - 0) <= acc[Len(pipe)] /\ acc[Len(pipe)] \in 0..PipeSize
    BY <1>2, <1>3, <2>1
  <2>. QED
    BY <1>2, <1>3, <2>2
<1>5. ASSUME pipe = <<>> PROVE Len(pipe) = 0 /\ used = 0
  BY <1>3, <1>5
<1>6. ASSUME pipe # <<>>
      PROVE  /\ Len(pipe) > 0 /\ Head(pipe) = pipe[1]
             /\ Head(pipe) \in 1..PipeSize /\ Head(pipe) <= used
             /\ pipe[Len(pipe)] \in 1..PipeSize /\ pipe[Len(pipe)] <= used
             /\ Len(pipe) = 1 => used = Head(pipe)
  <2>1. Len(pipe) \in Nat \ {0}
    BY <1>1, <1>6, EmptySeq
  <2>2. /\ 1 \in 1..Len(pipe) /\ Len(pipe) \in 1..Len(pipe) /\ Len(pipe) - 1 \in 0..Len(pipe)
        /\ 1 \in 0..Len(pipe) /\ Len(pipe) \in 0..Len(pipe) /\ 0 \in 0..Len(pipe)
    BY <2>1
  <2>3. Head(pipe) = pipe[1]
    BY <1>1, <1>6
  <2>4. acc[1] = acc[0] + pipe[1]
    BY <1>3, <2>2
  <2>5. acc[1] = pipe[1]
    BY <1>2, <1>3, <2>2, <2>4
  <2>6. acc[1] + (Len(pipe) - 1) <= acc[Len(pipe)]
    BY <1>3, <2>1, <2>2
  <2>7. pipe[1] <= used
    <3>1. acc[Len(pipe)] = used /\ pipe[1] \in 1..PipeSize
      BY <1>2, <1>3, <2>2
    <3>. QED
      BY <1>1, <1>4, <2>1, <2>5, <2>6, <3>1
  <2>8. acc[Len(pipe)] = acc[Len(pipe) - 1] + pipe[Len(pipe)] /\ acc[Len(pipe) - 1] \in 0..PipeSize
    BY <1>3, <2>2
  <2>9. pipe[Len(pipe)] <= used
    BY <1>2, <1>3, <2>2, <2>8
  <2>10. Len(pipe) = 1 => used = pipe[1]
    BY <1>3, <2>5
  <2>. QED
    BY <1>2, <2>1, <2>2, <2>3, <2>7, <2>9, <2>10
<1>7. Len(pipe) = 1 => pipe # <<>>
  BY <1>1
<1>. QED
  BY <1>2, <1>4, <1>5, <1>6, <1>7

\* The assumption on Wrap, at work: the count of the bytes has room for a full pipe, a
\* message that is written and one that is read, over what earlier windows left.
LEMMA NoWrap ==
  ASSUME LogTypeInv
  PROVE  /\ Left \in Nat
         /\ registered => Left + 3 * PipeSize < Wrap
         /\ registered => regs * PipeSize = Left + PipeSize
         /\ ~registered => regs * PipeSize = Left
<1>1. /\ PipeSize \in Nat /\ Wrap \in Nat /\ MaxRegs \in Nat /\ regs \in Nat /\ regs <= MaxRegs
      /\ registered => regs > 0
      /\ (MaxRegs + 2) * PipeSize < Wrap
  BY LoggerAssumption DEF LogTypeInv, TypeOK, InPlace
<1>2. \A a, b \in Nat : a * b \in Nat
  OBVIOUS
<1>3. \A a, b, c \in Nat : a <= b => a * c <= b * c
  <2>1. SUFFICES ASSUME NEW a \in Nat, NEW b \in Nat, NEW c \in Nat, a <= b
                 PROVE  a * c <= b * c
    OBVIOUS
  <2>2. b - a \in Nat /\ (b - a) * c \in Nat /\ (b - a) * c = b * c - a * c
    BY <2>1
  <2>. QED
    BY <2>2
<1>4. /\ regs * PipeSize <= MaxRegs * PipeSize
      /\ (MaxRegs + 2) * PipeSize = MaxRegs * PipeSize + 2 * PipeSize
      /\ (regs - 1) * PipeSize = regs * PipeSize - PipeSize
      /\ regs * PipeSize \in Nat /\ MaxRegs * PipeSize \in Nat
  BY <1>1, <1>2, <1>3
<1>5. CASE registered
  <2>1. Left = (regs - 1) * PipeSize /\ (regs - 1) * PipeSize \in Nat
    BY <1>1, <1>2, <1>5 DEF Left
  <2>. QED
    BY <1>1, <1>4, <1>5, <2>1
<1>6. CASE ~registered
  BY <1>4, <1>6 DEF Left
<1>. QED
  BY <1>5, <1>6

\* The pipe goes on holding what its messages say.
LEMMA FilledStep == LogTypeInv /\ Filled /\ [Next]_vars => Filled'
<1>. SUFFICES ASSUME LogTypeInv, Filled, [Next]_vars PROVE Filled'
  OBVIOUS
<1>1. pipe \in Seq(1..PipeSize) /\ PipeSize \in Nat /\ Len(pipe) \in Nat
  BY SizesTyped DEF LogTypeInv, TypeOK
<1>2. \A k \in 1..Len(pipe) : pipe[k] \in 1..PipeSize
  BY <1>1
<1>3. PICK acc \in [0..Len(pipe) -> 0..PipeSize] :
        /\ acc[0] = 0 /\ acc[Len(pipe)] = used
        /\ \A k \in 1..Len(pipe) : acc[k] = acc[k - 1] + pipe[k]
        /\ \A j, k \in 0..Len(pipe) : j <= k => acc[j] + (k - j) <= acc[k]
  BY DEF Filled
<1>4. CASE pipe' = pipe /\ used' = used
  BY <1>4 DEF Filled
<1>5. CASE pipe' = <<>> /\ used' = 0
  <2>. DEFINE new == [k \in 0..0 |-> 0]
  <2>1. /\ Len(pipe') = 0 /\ new \in [0..0 -> 0..PipeSize] /\ new[0] = 0
        /\ \A j, k \in 0..0 : j = 0 /\ k = 0
    BY <1>1, <1>5
  <2>2. \A j, k \in 0..0 : j <= k => new[j] + (k - j) <= new[k]
    BY <2>1
  <2>3. \A k \in 1..0 : new[k] = new[k - 1] + pipe'[k]
    OBVIOUS
  <2>4. /\ new \in [0..Len(pipe') -> 0..PipeSize] /\ new[Len(pipe')] = used'
        /\ \A k \in 1..Len(pipe') : new[k] = new[k - 1] + pipe'[k]
        /\ \A j, k \in 0..Len(pipe') : j <= k => new[j] + (k - j) <= new[k]
    BY <1>5, <2>1, <2>2, <2>3
  <2>. HIDE DEF new
  <2>. QED
    BY <2>1, <2>4 DEF Filled
<1>6. ASSUME NEW t \in Thread, Write(t)
      PROVE  Filled'
  <2>. DEFINE len == Len(pipe)
              new == [k \in 0..(len + 1) |-> IF k <= len THEN acc[k] ELSE used + Size(t)]
  <2>1. Size(t) \in 1..PipeSize /\ used + Size(t) <= PipeSize /\ used' = used + Size(t)
    BY <1>6, TodoTyped DEF Write, HasRoom
  <2>2. pipe' = Append(pipe, Size(t)) /\ Len(pipe') = len + 1
    BY <1>1, <1>6, <2>1, AppendProperties DEF Write
  <2>3. pipe'[len + 1] = Size(t) /\ \A k \in 1..len : pipe'[k] = pipe[k]
    BY <1>1, <2>1, <2>2, AppendProperties
  <2>4. used \in 0..PipeSize
    BY FilledFacts
  <2>5. new \in [0..(len + 1) -> 0..PipeSize]
    BY <1>1, <1>3, <2>1, <2>4
  <2>6. new[0] = 0 /\ new[len + 1] = used'
    BY <1>1, <1>3, <2>1
  <2>7. \A k \in 1..(len + 1) : new[k] = new[k - 1] + pipe'[k]
    <3>1. SUFFICES ASSUME NEW k \in 1..(len + 1) PROVE new[k] = new[k - 1] + pipe'[k]
      OBVIOUS
    <3>2. CASE k <= len
      BY <1>1, <1>3, <2>3, <3>2
    <3>3. CASE k = len + 1
      <4>1. new[k] = used + Size(t) /\ k - 1 = len /\ new[k - 1] = acc[len]
        BY <1>1, <3>3
      <4>2. acc[len] = used /\ pipe'[k] = Size(t)
        BY <1>3, <2>3, <3>3
      <4>. HIDE DEF new
      <4>. QED
        BY <4>1, <4>2
    <3>4. k <= len \/ k = len + 1
      BY <1>1
    <3>. QED
      BY <3>2, <3>3, <3>4
  <2>8. \A j, k \in 0..(len + 1) : j <= k => new[j] + (k - j) <= new[k]
    <3>1. SUFFICES ASSUME NEW j \in 0..(len + 1), NEW k \in 0..(len + 1), j <= k
                   PROVE  new[j] + (k - j) <= new[k]
      OBVIOUS
    <3>2. CASE k <= len
      BY <1>1, <1>3, <3>1, <3>2
    <3>3. CASE k = len + 1 /\ j <= len
      <4>1. acc[j] + (len - j) <= used /\ acc[j] \in 0..PipeSize
        <5>1. j \in 0..len /\ len \in 0..len
          BY <1>1, <3>3
        <5>. QED
          BY <1>3, <3>3, <5>1
      <4>2. new[j] = acc[j] /\ new[k] = used + Size(t)
        BY <1>1, <3>3
      <4>. QED
        BY <1>1, <2>1, <2>4, <3>3, <4>1, <4>2
    <3>4. CASE k = len + 1 /\ j = len + 1
      BY <1>1, <2>1, <2>4, <3>4
    <3>. QED
      BY <1>1, <3>1, <3>2, <3>3, <3>4
  <2>. HIDE DEF new
  <2>. QED
    BY <2>2, <2>5, <2>6, <2>7, <2>8 DEF Filled
<1>7. CASE Read
  <2>1. PICK b \in ReadSizes :
          LET fits == Head(pipe) <= b
              n == IF fits THEN Head(pipe) ELSE b
          IN /\ pipe' = IF fits THEN Tail(pipe) ELSE <<Head(pipe) - n>> \o Tail(pipe)
             /\ used' = used - n
    BY <1>7 DEF Read
  <2>2. /\ pipe # <<>> /\ Len(pipe) \in Nat \ {0} /\ Head(pipe) = pipe[1]
        /\ b \in Nat \ {0} /\ used \in 0..PipeSize
    BY <1>1, <1>7, FilledFacts, LoggerAssumption DEF Read
  <2>3. /\ Tail(pipe) \in Seq(1..PipeSize) /\ Len(Tail(pipe)) = Len(pipe) - 1
        /\ \A k \in 1..(Len(pipe) - 1) : Tail(pipe)[k] = pipe[k + 1]
    BY <1>1, <2>2, HeadTailProperties
  <2>4. acc[1] = pipe[1] /\ pipe[1] \in 1..PipeSize
    <3>1. 1 \in 1..Len(pipe)
      BY <2>2
    <3>2. acc[1] = acc[1 - 1] + pipe[1]
      BY <1>3, <3>1
    <3>. QED
      BY <1>2, <1>3, <3>1, <3>2
  <2>5. \A k \in 1..Len(pipe) : acc[k] \in 0..PipeSize /\ pipe[1] + (k - 1) <= acc[k]
    <3>1. SUFFICES ASSUME NEW k \in 1..Len(pipe)
                   PROVE  acc[k] \in 0..PipeSize /\ pipe[1] + (k - 1) <= acc[k]
      OBVIOUS
    <3>2. 1 \in 0..Len(pipe) /\ k \in 0..Len(pipe) /\ 1 <= k
      BY <2>2
    <3>3. acc[k] \in 0..PipeSize /\ acc[1] + (k - 1) <= acc[k]
      BY <1>3, <3>2
    <3>. QED
      BY <2>4, <3>3
  <2>6. CASE Head(pipe) <= b
    <3>. DEFINE len == Len(pipe)
                new == [k \in 0..(len - 1) |-> acc[k + 1] - pipe[1]]
    <3>1. pipe' = Tail(pipe) /\ Len(pipe') = len - 1 /\ used' = used - pipe[1]
      BY <2>1, <2>2, <2>3, <2>6
    <3>2. \A k \in 0..(len - 1) : k + 1 \in 1..len /\ new[k] = acc[k + 1] - pipe[1]
      BY <2>2
    <3>3. \A k \in 0..(len - 1) : acc[k + 1] - pipe[1] \in 0..PipeSize
      BY <1>1, <2>2, <2>4, <2>5, <3>2, SMTT(30)
    <3>4. new \in [0..(len - 1) -> 0..PipeSize]
      BY <3>3
    <3>5. new[0] = 0 /\ new[len - 1] = used'
      BY <1>3, <2>2, <2>4, <3>1, <3>2
    <3>6. \A k \in 1..(len - 1) : new[k] = new[k - 1] + pipe'[k]
      <4>1. SUFFICES ASSUME NEW k \in 1..(len - 1) PROVE new[k] = new[k - 1] + pipe'[k]
        OBVIOUS
      <4>2. /\ k + 1 \in 1..len /\ (k + 1) - 1 = k /\ (k - 1) + 1 = k /\ k \in 0..(len - 1)
            /\ k - 1 \in 0..(len - 1) /\ k \in 0..len
        BY <2>2
      <4>3. acc[k + 1] = acc[k] + pipe[k + 1] /\ pipe'[k] = pipe[k + 1]
        BY <1>3, <2>3, <3>1, <4>2
      <4>4. new[k] = acc[k + 1] - pipe[1] /\ new[k - 1] = acc[k] - pipe[1]
        BY <3>2, <4>2
      <4>5. acc[k] \in Int /\ pipe[1] \in Int /\ pipe[k + 1] \in Int
        <5>1. acc[k] \in 0..PipeSize /\ pipe[k + 1] \in 1..PipeSize
          BY <1>2, <1>3, <4>2
        <5>. QED
          BY <1>1, <2>4, <5>1
      <4>. QED
        BY <4>3, <4>4, <4>5
    <3>7. \A j, k \in 0..(len - 1) : j <= k => new[j] + (k - j) <= new[k]
      <4>1. SUFFICES ASSUME NEW j \in 0..(len - 1), NEW k \in 0..(len - 1), j <= k
                     PROVE  new[j] + (k - j) <= new[k]
        OBVIOUS
      <4>2. j + 1 \in 0..len /\ k + 1 \in 0..len /\ j + 1 <= k + 1
        BY <2>2, <4>1
      <4>3. acc[j + 1] + ((k + 1) - (j + 1)) <= acc[k + 1] /\ acc[j + 1] \in Int /\ acc[k + 1] \in Int
        BY <1>3, <4>2
      <4>4. new[k] = acc[k + 1] - pipe[1] /\ new[j] = acc[j + 1] - pipe[1]
        BY <3>2, <4>1
      <4>. QED
        BY <2>4, <4>1, <4>3, <4>4
    <3>. HIDE DEF new
    <3>. QED
      BY <3>1, <3>4, <3>5, <3>6, <3>7 DEF Filled
  <2>7. CASE ~(Head(pipe) <= b)
    <3>. DEFINE len == Len(pipe)
                new == [k \in 0..len |-> IF k = 0 THEN 0 ELSE acc[k] - b]
    <3>1. pipe' = <<pipe[1] - b>> \o Tail(pipe) /\ used' = used - b
      BY <2>1, <2>2, <2>7
    <3>2. pipe[1] - b \in 1..PipeSize /\ <<pipe[1] - b>> \in Seq(1..PipeSize)
      BY <1>1, <2>2, <2>4, <2>7
    <3>3. /\ Len(pipe') = len /\ pipe'[1] = pipe[1] - b
          /\ \A k \in 2..len : pipe'[k] = pipe[k]
      <4>1. Len(<<pipe[1] - b>>) = 1 /\ <<pipe[1] - b>>[1] = pipe[1] - b
        OBVIOUS
      <4>2. /\ Len(pipe') = 1 + Len(Tail(pipe))
            /\ \A i \in 1..(1 + Len(Tail(pipe))) :
                 pipe'[i] = IF i <= 1 THEN <<pipe[1] - b>>[i] ELSE Tail(pipe)[i - 1]
        BY <2>3, <3>1, <3>2, <4>1, ConcatProperties
      <4>3. \A k \in 2..len : Tail(pipe)[k - 1] = pipe[k]
        BY <2>2, <2>3
      <4>. QED
        BY <2>2, <2>3, <4>1, <4>2, <4>3
    <3>4. \A k \in 1..len : new[k] = acc[k] - b /\ acc[k] - b \in 0..PipeSize /\ k <= acc[k] - b
      <4>1. SUFFICES ASSUME NEW k \in 1..len
                     PROVE  /\ new[k] = acc[k] - b
                            /\ acc[k] - b \in 0..PipeSize /\ k <= acc[k] - b
        OBVIOUS
      <4>2. k \in 0..len /\ k # 0
        BY <2>2
      <4>3. acc[k] \in 0..PipeSize /\ pipe[1] + (k - 1) <= acc[k]
        BY <2>5
      <4>4. new[k] = acc[k] - b
        BY <4>2
      <4>5. /\ acc[k] \in Int /\ pipe[1] \in Int /\ b \in Int /\ k \in Int /\ 0 < b
            /\ 1 <= pipe[1] - b /\ acc[k] <= PipeSize /\ PipeSize \in Int /\ 1 <= k
        BY <1>1, <2>2, <2>4, <3>2, <4>2, <4>3
      <4>. QED
        BY <4>3, <4>4, <4>5
    <3>5. 0 \in 0..len /\ 0 \in 0..PipeSize
      BY <1>1
    <3>11. new[0] = 0
      BY <3>5
    <3>6. new \in [0..len -> 0..PipeSize]
      <4>1. ASSUME NEW k \in 0..len PROVE (IF k = 0 THEN 0 ELSE acc[k] - b) \in 0..PipeSize
        <5>1. CASE k = 0
          BY <3>5, <5>1
        <5>2. CASE k # 0
          <6>1. k \in 1..len
            BY <2>2, <5>2
          <6>. QED
            BY <3>4, <5>2, <6>1
        <5>. QED
          BY <5>1, <5>2
      <4>. QED
        BY <4>1
    <3>7. new[len] = used'
      BY <1>3, <2>2, <3>1, <3>4
    <3>8. \A k \in 1..len : new[k] = new[k - 1] + pipe'[k]
      <4>1. SUFFICES ASSUME NEW k \in 1..len PROVE new[k] = new[k - 1] + pipe'[k]
        OBVIOUS
      <4>2. CASE k = 1
        BY <2>2, <2>4, <3>3, <3>4, <3>11, <4>2
      <4>3. CASE k # 1
        <5>1. k \in 2..len /\ k - 1 \in 1..len
          BY <2>2, <4>3
        <5>2. acc[k] = acc[k - 1] + pipe[k] /\ acc[k - 1] \in Int /\ pipe[k] \in Int
          BY <1>2, <1>3, <2>5, <5>1
        <5>. QED
          BY <2>2, <3>3, <3>4, <5>1, <5>2
      <4>. QED
        BY <4>2, <4>3
    <3>9. \A j, k \in 0..len : j <= k => new[j] + (k - j) <= new[k]
      <4>1. SUFFICES ASSUME NEW j \in 0..len, NEW k \in 0..len, j <= k
                     PROVE  new[j] + (k - j) <= new[k]
        OBVIOUS
      <4>2. CASE j = 0
        <5>1. CASE k = 0
          BY <3>11, <4>2, <5>1
        <5>2. CASE k # 0
          <6>1. k \in 1..len
            BY <2>2, <5>2
          <6>2. new[k] = acc[k] - b /\ k <= acc[k] - b /\ new[j] = 0
            BY <3>4, <3>11, <4>2, <6>1
          <6>. HIDE DEF new
          <6>. QED
            BY <2>2, <4>2, <6>1, <6>2
        <5>. QED
          BY <5>1, <5>2
      <4>3. CASE j # 0
        <5>1. j \in 1..len /\ k \in 1..len /\ acc[j] + (k - j) <= acc[k]
          BY <1>3, <2>2, <4>1, <4>3
        <5>. QED
          BY <2>2, <2>5, <3>4, <4>1, <5>1
      <4>. QED
        BY <4>2, <4>3
    <3>10. Len(pipe') = len
      BY <3>3
    <3>. HIDE DEF new
    <3>. QED
      BY <3>6, <3>7, <3>8, <3>9, <3>10, <3>11 DEF Filled
  <2>. QED
    BY <2>6, <2>7
<1>. QED
  BY <1>4, <1>5, <1>6, <1>7 DEF Next, WriterStep, ReaderStep, Log, Check, Drain, Drained,
     Reset, WriteFails, AddSize, Count, Post, Dispatch, ReadBusy, ReadCreates, ReadNothing,
     ReadPending, Decrement, SubSize, Register, Unregister, vars, logVars

----------------------------------------------------------------------------
\* Calm, when t is the only thread that may be writing.
Solo(t) ==
  /\ Len(pipe) = pending + Bit(pc[t] \in {"size", "count"}) + Bit(reader = "read")
  /\ pc[t] = "reset" => pending = 0
  /\ pc[t] = "size" => pipe # <<>> /\ pipe[Len(pipe)] = Size(t)
  /\ pc[t] = "write" => HasRoom(t) \/ (t # Ui /\ reader = "read" /\ Len(pipe) = 1)
  /\ used + Taking <= pipe_size + (IF pc[t] = "size" THEN pipe[Len(pipe)] ELSE 0)
  /\ pipe_size + (IF pc[t] = "size" THEN pipe[Len(pipe)] ELSE 0) <= used + Taking + Left

Alone(t) ==
  /\ registered /\ open
  /\ \A u \in Thread : u # t => pc[u] = "idle"

AloneIsSolo == \A t \in Thread : Alone(t) => (Calm <=> Solo(t))

\* Then what Calm says of all threads is about t.
LEMMA SoloCalm == AloneIsSolo
<1>. SUFFICES ASSUME NEW t \in Thread, Alone(t) PROVE Calm <=> Solo(t)
  BY DEF AloneIsSolo
<1>1. \A u \in Thread : pc[u] # "idle" => u = t
  BY DEF Alone
<1>2. Uncounted <=> pc[t] \in {"size", "count"}
  BY <1>1 DEF Uncounted
<1>3. (\E u \in Thread : pc[u] = "size") <=> pc[t] = "size"
  BY <1>1
<1>4. Adding = IF pc[t] = "size" THEN pipe[Len(pipe)] ELSE 0
  BY <1>3 DEF Adding
<1>5. Bit(Uncounted) = Bit(pc[t] \in {"size", "count"})
  BY <1>2 DEF Bit
<1>6. ASSUME Calm PROVE Solo(t)
  BY <1>4, <1>5, <1>6 DEF Calm, Solo, Alone
<1>7. ASSUME Solo(t) PROVE Calm
  BY <1>1, <1>4, <1>5, <1>7 DEF Calm, Solo, Alone
<1>. QED
  BY <1>6, <1>7

\* While nobody has been disturbed, a step of a thread that writes keeps the counts.
LEMMA WriterCalm ==
  ASSUME LogTypeInv, Filled, Calm, NEW t \in Thread, Log(t) \/ WriterStep(t), ~disturbed'
  PROVE  Calm'
<1>1. /\ pc \in [Thread -> Places] /\ todo \in [Thread -> Seq(Sizes)]
      /\ tmp \in [Thread -> 0..(Wrap - 1)] /\ pending \in 0..(Wrap - 1)
      /\ pipe_size \in 0..(Wrap - 1) /\ pipe \in Seq(1..PipeSize) /\ used \in 0..PipeSize
      /\ PipeSize \in Nat /\ Wrap \in Nat /\ rtmp.bytes \in 0..PipeSize
      /\ Len(pipe) \in Nat /\ Len(pipe) <= used
  BY SizesTyped, FilledFacts DEF LogTypeInv, TypeOK
<1>2. registered /\ open /\ \A u \in Thread : u # t => pc[u] = "idle"
  <2>1. CASE Log(t)
    BY <2>1 DEF Log
  <2>2. CASE WriterStep(t)
    <3>1. pc[t] # "idle"
      BY <2>2 DEF WriterStep, Check, Drain, Drained, Reset, Write, WriteFails, AddSize,
         Count, Post
    <3>. QED
      BY <3>1 DEF Calm, LogTypeInv, InPlace
  <2>. QED
    BY <2>1, <2>2
<1>3. /\ registered' = registered /\ open' = open /\ regs' = regs /\ rtmp' = rtmp
      /\ \A u \in Thread : u # t => pc'[u] = pc[u]
  BY <1>1 DEF WriterStep, Log, Check, Drain, Drained, Reset, Write, WriteFails, AddSize,
     Count, Post, Go, logVars, readerVars, boundVars
<1>4. Alone(t) /\ Alone(t)'
  BY <1>2, <1>3 DEF Alone
<1>5. Solo(t)
  BY <1>4, SoloCalm DEF AloneIsSolo
<1>6. (Alone(t) => (Calm <=> Solo(t)))'
  <2>1. AloneIsSolo'
    BY SoloCalm, PTL
  <2>. QED
    BY <2>1 DEF AloneIsSolo
<1>7. SUFFICES Solo(t)'
  BY <1>4, <1>6
<1>8. Left' = Left /\ Left \in Nat /\ Left + 3 * PipeSize < Wrap
  BY <1>2, <1>3, NoWrap DEF Left
<1>9. Taking \in 0..PipeSize /\ (reader' = reader => Taking' = Taking)
  BY <1>1, <1>3 DEF Taking
<1>10. pc[t] # "idle" => Size(t) \in 1..PipeSize
  BY TodoTyped
<1>11. CASE Log(t) \/ Drain(t) \/ Drained(t) \/ Post(t)
  <2>1. /\ pc'[t] \in {"check", "sent", "drain", "reset", "idle"}
        /\ pc'[t] = "reset" => pending = 0
        /\ pc[t] \in {"idle", "drain", "post"}
    BY <1>1, <1>11 DEF Log, Drain, Drained, Post, Go
  <2>2. UNCHANGED logVars /\ (reader' = reader \/ (reader = "none" /\ reader' = "enter"))
    BY <1>11 DEF Log, Drain, Drained, Post, readerVars, Free
  <2>3. pending' = pending /\ pipe_size' = pipe_size /\ pipe' = pipe /\ used' = used
    BY <2>2 DEF logVars
  <2>4. Taking' = Taking /\ (reader' = "read" <=> reader = "read")
    BY <1>3, <2>2 DEF Taking
  <2>5. Bit(reader' = "read") = Bit(reader = "read")
    BY <2>4 DEF Bit
  <2>. QED
    BY <1>5, <1>8, <2>1, <2>3, <2>4, <2>5 DEF Solo
<1>12. CASE Check(t)
  <2>1. /\ UNCHANGED <<pending, pipe_size, pipe, used, todo, reader>> /\ pc[t] = "check"
        /\ pc'[t] \in {"drain", "write"} /\ (t = Ui => reader = "none")
        /\ pc'[t] = "write" => ~((pipe_size + Size(t)) % Wrap > PipeSize /\ pending > 0)
    BY <1>1, <1>12 DEF Check, Go, logVars, readerVars, Free
  <2>2. /\ Len(pipe) = pending + Bit(reader = "read")
        /\ used + Taking <= pipe_size /\ pipe_size <= used + Taking + Left
    BY <1>1, <1>5, <1>9, <2>1 DEF Solo, Bit
  <2>3. ASSUME pc'[t] = "write"
        PROVE  used + Size(t) <= PipeSize \/ (t # Ui /\ reader = "read" /\ Len(pipe) = 1)
    <3>1. (pipe_size + Size(t)) % Wrap = pipe_size + Size(t)
      <4>1. pipe_size + Size(t) \in 0..(Wrap - 1)
        BY <1>1, <1>8, <1>9, <1>10, <2>1, <2>2, SMTT(30)
      <4>. QED
        BY <4>1, Wraps
    <3>2. CASE pipe_size + Size(t) <= PipeSize
      BY <1>1, <1>9, <1>10, <2>1, <2>2, <3>2
    <3>3. CASE pending = 0 /\ reader = "read"
      BY <2>1, <2>2, <3>3 DEF Bit
    <3>4. CASE pending = 0 /\ reader # "read"
      <4>1. Len(pipe) = 0
        BY <2>2, <3>4 DEF Bit
      <4>2. used = 0
        BY <1>1, <4>1, FilledFacts
      <4>. QED
        BY <1>1, <1>10, <2>1, <4>2
    <3>. QED
      BY <1>1, <1>10, <2>1, <2>3, <3>1, <3>2, <3>3, <3>4
  <2>4. HasRoom(t)' <=> used + Size(t) <= PipeSize
    BY <2>1 DEF HasRoom, Size
  <2>5. Taking' = Taking
    BY <1>9, <2>1
  <2>. QED
    BY <1>5, <1>8, <2>1, <2>3, <2>4, <2>5 DEF Solo
<1>13. CASE Reset(t)
  <2>1. /\ UNCHANGED <<pending, pipe, used, todo, reader>> /\ reader = "none"
        /\ pc[t] = "reset" /\ pc'[t] = "write" /\ pipe_size' = 0
    BY <1>1, <1>13 DEF Reset, Go, readerVars
  <2>2. Len(pipe) = 0 /\ pending = 0
    BY <1>1, <1>5, <2>1 DEF Solo, Bit
  <2>3. used = 0 /\ Taking' = 0
    BY <1>1, <2>1, <2>2, FilledFacts DEF Taking
  <2>4. HasRoom(t)'
    BY <1>1, <1>10, <2>1, <2>3 DEF HasRoom, Size
  <2>. QED
    BY <1>8, <2>1, <2>2, <2>3, <2>4 DEF Solo, Bit
<1>14. CASE Write(t)
  <2>1. /\ UNCHANGED <<pending, pipe_size, todo, reader>>
        /\ pc[t] = "write" /\ pc'[t] = "size" /\ used' = used + Size(t)
        /\ pipe' = Append(pipe, Size(t))
    BY <1>1, <1>14 DEF Write, Go, readerVars
  <2>2. Size(t)' = Size(t)
    BY <2>1 DEF Size
  <2>3. Len(pipe') = Len(pipe) + 1 /\ pipe' # <<>> /\ pipe'[Len(pipe')] = Size(t)
    <3>1. Size(t) \in 1..PipeSize
      BY <1>10, <2>1
    <3>2. Len(Append(pipe, Size(t))) = Len(pipe) + 1
      BY <1>1, <3>1
    <3>3. Append(pipe, Size(t))[Len(pipe) + 1] = Size(t)
      BY <1>1, <3>1
    <3>4. Len(pipe') # 0
      BY <1>1, <2>1, <3>2
    <3>. QED
      BY <2>1, <3>2, <3>3, <3>4
  <2>4. /\ Len(pipe) = pending + Bit(reader = "read")
        /\ used + Taking <= pipe_size /\ pipe_size <= used + Taking + Left
    BY <1>1, <1>5, <1>9, <2>1 DEF Solo, Bit
  <2>5. /\ used' + Taking <= pipe_size + Size(t)
        /\ pipe_size + Size(t) <= used' + Taking + Left
    <3>1. /\ used \in Int /\ Taking \in Int /\ Left \in Int /\ pipe_size \in Int
          /\ Size(t) \in Int
      BY <1>1, <1>8, <1>9, <1>10, <2>1
    <3>2. used' = used + Size(t)
      BY <2>1
    <3>. QED
      BY <2>4, <3>1, <3>2
  <2>6. Len(pipe') = pending + 1 + Bit(reader = "read")
    BY <1>1, <2>3, <2>4 DEF Bit
  <2>. QED
    BY <1>8, <1>9, <2>1, <2>2, <2>3, <2>5, <2>6 DEF Solo, Bit
<1>15. CASE WriteFails(t)
  BY <1>2, <1>15 DEF WriteFails
<1>16. CASE AddSize(t)
  <2>1. /\ UNCHANGED <<pending, pipe, used, todo, reader>>
        /\ pc[t] = "size" /\ pc'[t] = "count" /\ tmp[t] = pipe_size
        /\ pipe_size' = (pipe_size + Size(t)) % Wrap
    BY <1>1, <1>16 DEF AddSize, Go, readerVars
  <2>2. /\ used + Taking <= pipe_size + Size(t)
        /\ pipe_size + Size(t) <= used + Taking + Left
    BY <1>5, <2>1 DEF Solo
  <2>3. pipe_size + Size(t) \in 0..(Wrap - 1)
    <3>1. Size(t) \in Nat /\ pipe_size \in Nat
      BY <1>1, <1>10, <2>1
    <3>2. used \in Nat /\ used <= PipeSize /\ Taking \in Nat /\ Taking <= PipeSize
      BY <1>1, <1>9
    <3>3. used + Taking + Left < Wrap
      BY <1>1, <1>8, <3>2
    <3>. QED
      BY <1>1, <1>8, <2>2, <3>1, <3>2, <3>3
  <2>4. pipe_size' = pipe_size + Size(t)
    BY <2>1, <2>3, Wraps
  <2>5. Len(pipe) = pending + 1 + Bit(reader = "read")
    BY <1>5, <2>1 DEF Solo, Bit
  <2>6. Len(pipe') = pending' + Bit(pc'[t] \in {"size", "count"}) + Bit(reader' = "read")
    BY <2>1, <2>5 DEF Bit
  <2>7. used' + Taking' <= pipe_size' /\ pipe_size' <= used' + Taking' + Left'
    BY <1>8, <1>9, <2>1, <2>2, <2>4
  <2>8. pipe_size' + 0 = pipe_size'
    BY <1>1, <1>10, <2>1, <2>4
  <2>. QED
    BY <2>1, <2>6, <2>7, <2>8 DEF Solo
<1>17. CASE Count(t)
  <2>1. /\ UNCHANGED <<pipe_size, pipe, used, todo, reader>>
        /\ pc[t] = "count" /\ pc'[t] = "post" /\ tmp[t] = pending
        /\ pending' = (pending + 1) % Wrap
    BY <1>1, <1>17 DEF Count, Go, readerVars
  <2>2. /\ Len(pipe) = pending + 1 + Bit(reader = "read")
        /\ used + Taking <= pipe_size /\ pipe_size <= used + Taking + Left
    BY <1>1, <1>5, <1>9, <2>1 DEF Solo, Bit
  <2>3. pending + 1 \in 0..(Wrap - 1)
    BY <1>1, <1>8, <2>2 DEF Bit
  <2>4. pending' = pending + 1
    BY <2>1, <2>3, Wraps
  <2>. QED
    BY <1>1, <1>8, <1>9, <2>1, <2>2, <2>4 DEF Solo, Bit
<1>. QED
  BY <1>11, <1>12, <1>13, <1>14, <1>15, <1>16, <1>17 DEF WriterStep

\* So does a step of the window's thread: a thread that waits for it goes on.
LEMMA ReaderCalm ==
  ASSUME LogTypeInv, Filled, Calm, ReaderStep \/ Register \/ Unregister, ~disturbed'
  PROVE  Calm'
<1>1. /\ pc \in [Thread -> Places] /\ todo \in [Thread -> Seq(Sizes)]
      /\ pending \in 0..(Wrap - 1)
      /\ pipe_size \in 0..(Wrap - 1) /\ pipe \in Seq(1..PipeSize) /\ used \in 0..PipeSize
      /\ PipeSize \in Nat /\ Wrap \in Nat /\ rtmp.bytes \in 0..PipeSize
      /\ Len(pipe) \in Nat /\ Len(pipe) <= used /\ Left \in Nat
  BY SizesTyped, FilledFacts, NoWrap DEF LogTypeInv, TypeOK
<1>2. /\ todo' = todo
      /\ \A t \in Thread : \/ pc'[t] = pc[t]
                           \/ pc[t] = "sent" /\ pc'[t] = "drain"
  BY EndReadTyped DEF ReaderStep, Dispatch, ReadBusy, ReadCreates, ReadNothing,
     ReadPending, Decrement, Read, SubSize, Register, Unregister, threadVars
<1>3. \A t \in Thread : pc'[t] # "idle" => pc[t] # "idle"
  BY <1>2
<1>4. \A t \in Thread : \A place \in {"reset", "write", "size", "count"} :
        pc'[t] = place <=> pc[t] = place
  BY <1>2
<1>5. Uncounted' <=> Uncounted
  BY <1>4 DEF Uncounted
<1>6. (\E t \in Thread : pc[t] = "size")' <=> \E t \in Thread : pc[t] = "size"
  BY <1>4
<1>7. \A t \in Thread : Size(t)' = Size(t)
  BY <1>2 DEF Size
<1>8. \A t, u \in Thread : pc'[t] # "idle" /\ pc'[u] # "idle" => t = u
  BY <1>3 DEF Calm
<1>9. (\E t \in Thread : pc[t] = "size") =>
        pipe # <<>> /\ pipe[Len(pipe)] \in 1..PipeSize /\ pipe[Len(pipe)] <= used
  BY FilledFacts DEF Calm
<1>10. Adding \in 0..PipeSize /\ Adding <= used /\ Taking \in 0..PipeSize
  BY <1>1, <1>9 DEF Adding, Taking
<1>11. CASE Dispatch \/ ReadBusy \/ ReadNothing \/ ReadPending
  <2>1. /\ UNCHANGED <<registered, open, pending, pipe_size, pipe, used, regs>>
        /\ reader \in {"none", "enter"} /\ reader' \in {"none", "enter", "store"}
    BY <1>11, EndReadTyped DEF Dispatch, InLoop, ReadBusy, ReadNothing, ReadPending,
       logVars, boundVars
  <2>2. Taking' = Taking /\ Left' = Left /\ Adding' = Adding
    BY <1>6, <2>1 DEF Taking, Left, Adding
  <2>3. Bit(Uncounted)' = Bit(Uncounted) /\ Bit(reader = "read")' = Bit(reader = "read")
    BY <1>5, <2>1 DEF Bit
  <2>4. \A t \in Thread : HasRoom(t)' <=> HasRoom(t)
    BY <1>7, <2>1 DEF HasRoom
  <2>. QED
    BY <1>3, <1>4, <1>7, <1>8, <2>1, <2>2, <2>3, <2>4 DEF Calm
<1>12. CASE Decrement
  <2>1. /\ UNCHANGED <<registered, open, pipe_size, pipe, used, regs>>
        /\ reader = "store" /\ reader' = "read"
        /\ pending' = pending - 1 /\ pending = rtmp.value
    BY <1>12 DEF Decrement, boundVars
  <2>2. open /\ pending > 0
    BY <2>1 DEF LogTypeInv, InPlace
  <2>3. Taking' = Taking /\ Left' = Left /\ Adding' = Adding
    BY <1>6, <2>1 DEF Taking, Left, Adding
  <2>4. Bit(Uncounted)' = Bit(Uncounted)
    BY <1>5 DEF Bit
  <2>5. Len(pipe) = pending + Bit(Uncounted)
    BY <1>1, <2>1, <2>2 DEF Calm, Bit
  <2>6. Len(pipe') = pending' + Bit(Uncounted)' + Bit(reader = "read")'
    BY <1>1, <2>1, <2>4, <2>5 DEF Bit
  <2>7. \A t \in Thread : HasRoom(t)' <=> HasRoom(t)
    BY <1>7, <2>1 DEF HasRoom
  <2>8. \A t \in Thread : pc[t] = "reset" => pending' = 0
    BY <2>1, <2>2 DEF Calm
  <2>. QED
    BY <1>3, <1>4, <1>7, <1>8, <2>1, <2>2, <2>3, <2>6, <2>7, <2>8 DEF Calm
<1>13. CASE Read
  <2>1. PICK b \in ReadSizes :
          LET fits == Head(pipe) <= b
              n == IF fits THEN Head(pipe) ELSE b
          IN /\ pipe' = IF fits THEN Tail(pipe) ELSE <<Head(pipe) - n>> \o Tail(pipe)
             /\ used' = used - n
             /\ rtmp' = [value |-> pipe_size, bytes |-> n]
             /\ disturbed' = (disturbed \/ ~fits)
    BY <1>13 DEF Read
  <2>2. Head(pipe) <= b
    BY <2>1
  <2>3. /\ pipe' = Tail(pipe) /\ used' = used - Head(pipe)
        /\ rtmp' = [value |-> pipe_size, bytes |-> Head(pipe)]
    BY <2>1, <2>2
  <2>4. /\ UNCHANGED <<registered, open, pipe_size, pending, regs>> /\ pipe # <<>>
        /\ reader = "read" /\ reader' = "sub"
    BY <1>13 DEF Read, boundVars
  <2>5. open /\ Head(pipe) \in 1..PipeSize /\ Head(pipe) <= used
    BY <2>4, FilledFacts DEF LogTypeInv, InPlace
  <2>6. /\ Tail(pipe) \in Seq(1..PipeSize) /\ Len(pipe') = Len(pipe) - 1
        /\ \A k \in 1..(Len(pipe) - 1) : pipe'[k] = pipe[k + 1]
    BY <1>1, <2>3, <2>4, HeadTailProperties
  <2>7. Len(pipe) = pending + Bit(Uncounted) + 1
    BY <2>4, <2>5 DEF Calm, Bit
  <2>8. Uncounted => pipe' # <<>> /\ pipe'[Len(pipe')] = pipe[Len(pipe)]
    <3>1. SUFFICES ASSUME Uncounted PROVE pipe' # <<>> /\ pipe'[Len(pipe')] = pipe[Len(pipe)]
      OBVIOUS
    <3>2. Len(pipe) >= 2
      BY <1>1, <2>7, <3>1 DEF Bit
    <3>3. pipe'[Len(pipe) - 1] = pipe[Len(pipe)]
      <4>1. Len(pipe) - 1 \in 1..(Len(pipe) - 1) /\ (Len(pipe) - 1) + 1 = Len(pipe)
        BY <1>1, <3>2
      <4>. QED
        BY <2>6, <4>1
    <3>4. Len(pipe') > 0
      BY <1>1, <2>6, <3>2
    <3>5. pipe' # <<>>
      BY <3>4
    <3>. QED
      BY <2>6, <3>3, <3>5
  <2>9. (\E t \in Thread : pc[t] = "size") => Uncounted
    BY DEF Uncounted
  <2>10. Adding' = Adding
    BY <1>6, <2>8, <2>9 DEF Adding
  <2>11. Taking = 0 /\ Taking' = Head(pipe) /\ Left' = Left
    BY <2>3, <2>4 DEF Taking, Left
  <2>12. Bit(Uncounted)' = Bit(Uncounted) /\ Bit(reader = "read")' = 0
    BY <1>5, <2>4 DEF Bit
  <2>13. Len(pipe') = pending' + Bit(Uncounted)' + Bit(reader = "read")'
    BY <1>1, <2>4, <2>6, <2>7, <2>12 DEF Bit
  <2>14. used' + Taking' = used + Taking
    BY <1>1, <2>3, <2>5, <2>11
  <2>15. \A t \in Thread : pc[t] = "write" => HasRoom(t)'
    <3>1. SUFFICES ASSUME NEW t \in Thread, pc[t] = "write" PROVE used' + Size(t) <= PipeSize
      BY <1>7 DEF HasRoom
    <3>2. Size(t) \in 1..PipeSize
      BY <3>1, TodoTyped
    <3>3. CASE HasRoom(t)
      BY <1>1, <2>3, <2>5, <3>2, <3>3 DEF HasRoom
    <3>4. CASE Len(pipe) = 1
      <4>1. used' = 0
        BY <1>1, <2>3, <2>5, <3>4, FilledFacts
      <4>. QED
        BY <1>1, <3>2, <4>1
    <3>. QED
      BY <3>1, <3>3, <3>4 DEF Calm
  <2>16. \A t \in Thread : pc[t] = "size" => pipe' # <<>> /\ pipe'[Len(pipe')] = Size(t)
    BY <2>8, <2>9 DEF Calm
  <2>17. \A t \in Thread : pc[t] = "reset" => pending' = 0
    BY <2>4 DEF Calm
  <2>18. \A t \in Thread : pc'[t] # "idle" => registered'
    BY <1>3, <2>4 DEF Calm
  <2>19. /\ used' + Taking' <= pipe_size' + Adding'
         /\ pipe_size' + Adding' <= used' + Taking' + Left'
    BY <2>4, <2>10, <2>11, <2>14 DEF Calm
  <2>. QED
    BY <1>4, <1>7, <1>8, <2>13, <2>15, <2>16, <2>17, <2>18, <2>19 DEF Calm
<1>14. CASE SubSize
  <2>1. /\ UNCHANGED <<registered, open, pending, pipe, used, regs>>
        /\ reader = "sub" /\ reader' = "none" /\ pipe_size = rtmp.value
        /\ pipe_size' = (pipe_size - rtmp.bytes) % Wrap
    BY <1>14, EndReadTyped DEF SubSize, boundVars
  <2>2. Taking = rtmp.bytes /\ Taking' = 0 /\ Left' = Left /\ Adding' = Adding
    BY <1>6, <2>1 DEF Taking, Left, Adding
  <2>3. used + Taking <= pipe_size + Adding /\ pipe_size + Adding <= used + Taking + Left
    BY DEF Calm
  <2>4. pipe_size - rtmp.bytes \in 0..(Wrap - 1)
    <3>1. /\ used \in Int /\ Taking \in Nat /\ Adding \in Int /\ Adding <= used
          /\ pipe_size \in Int /\ pipe_size <= Wrap - 1 /\ Wrap \in Int
      BY <1>1, <1>10
    <3>. QED
      BY <2>2, <2>3, <3>1
  <2>5. pipe_size' = pipe_size - rtmp.bytes
    BY <2>1, <2>4, Wraps
  <2>6. Bit(Uncounted)' = Bit(Uncounted) /\ Bit(reader = "read")' = Bit(reader = "read")
    BY <1>5, <2>1 DEF Bit
  <2>7. \A t \in Thread : HasRoom(t)' <=> HasRoom(t)
    BY <1>7, <2>1 DEF HasRoom
  <2>8. /\ used' + Taking' <= pipe_size' + Adding'
        /\ pipe_size' + Adding' <= used' + Taking' + Left'
    <3>1. /\ used' = used /\ Taking' = 0 /\ Adding' = Adding /\ Left' = Left
          /\ pipe_size' = pipe_size - Taking
      BY <2>1, <2>2, <2>5
    <3>2. /\ used \in Int /\ Taking \in Int /\ Adding \in Int /\ Left \in Int
          /\ pipe_size \in Int
      BY <1>1, <1>10
    <3>. QED
      BY <2>3, <3>1, <3>2
  <2>. QED
    BY <1>3, <1>4, <1>7, <1>8, <2>1, <2>6, <2>7, <2>8 DEF Calm
<1>15. ASSUME ReadCreates \/ Register \/ Unregister
       PROVE  /\ \A t \in Thread : pc[t] = "idle" /\ pc'[t] = "idle"
              /\ ~Uncounted /\ Adding = 0 /\ Adding' = 0
  <2>1. \A t \in Thread : pc[t] = "idle"
    BY <1>15 DEF ReadCreates, Register, Unregister
  <2>2. \A t \in Thread : pc'[t] = "idle"
    BY <1>3, <2>1
  <2>. QED
    BY <2>1, <2>2 DEF Uncounted, Adding
<1>16. CASE ReadCreates \/ Register
  <2>1. /\ ~open /\ pending' = 0 /\ UNCHANGED <<pipe_size, pipe, used>>
        /\ reader \in {"none", "enter"} /\ reader' = "none"
    BY <1>16, EndReadTyped DEF ReadCreates, Register, InLoop, readerVars
  <2>2. pipe = <<>> /\ used = 0 /\ Len(pipe) = 0 /\ ~registered
    BY <1>1, <2>1 DEF LogTypeInv, InPlace
  <2>3. Taking = 0 /\ Taking' = 0
    BY <2>1 DEF Taking
  <2>4. Left' = Left
    <3>1. CASE ReadCreates
      BY <3>1 DEF ReadCreates, boundVars, Left
    <3>2. CASE Register
      <4>1. registered' /\ regs' = regs + 1 /\ regs \in Nat
        BY <3>2 DEF Register, LogTypeInv, TypeOK
      <4>2. (regs + 1) - 1 = regs
        BY <4>1
      <4>. QED
        BY <2>2, <4>1, <4>2 DEF Left
    <3>. QED
      BY <1>16, <3>1, <3>2
  <2>5. Bit(Uncounted)' = 0 /\ Bit(reader = "read")' = 0
    BY <1>5, <1>15, <1>16, <2>1 DEF Bit
  <2>6. Len(pipe') = pending' + Bit(Uncounted)' + Bit(reader = "read")'
    BY <2>1, <2>2, <2>5
  <2>7. used + Taking <= pipe_size + Adding /\ pipe_size + Adding <= used + Taking + Left
    BY DEF Calm
  <2>8. /\ used' + Taking' <= pipe_size' + Adding'
        /\ pipe_size' + Adding' <= used' + Taking' + Left'
    BY <1>15, <1>16, <2>1, <2>3, <2>4, <2>7
  <2>. QED
    BY <1>15, <1>16, <2>6, <2>8 DEF Calm
<1>17. CASE Unregister
  <2>1. /\ registered /\ ~open' /\ ~registered' /\ pipe' = <<>> /\ used' = 0
        /\ UNCHANGED <<pipe_size, regs>> /\ reader = "none" /\ reader' = "none"
    BY <1>17 DEF Unregister, InLoop, boundVars, readerVars
  <2>2. Taking = 0 /\ Taking' = 0
    BY <2>1 DEF Taking
  <2>3. Left' = Left + PipeSize
    BY <2>1, NoWrap DEF Left
  <2>4. used + Taking <= pipe_size + Adding /\ pipe_size + Adding <= used + Taking + Left
    BY DEF Calm
  <2>5. /\ used' + Taking' <= pipe_size' + Adding'
        /\ pipe_size' + Adding' <= used' + Taking' + Left'
    BY <1>1, <1>15, <1>17, <2>1, <2>2, <2>3, <2>4
  <2>. QED
    BY <1>15, <1>17, <2>1, <2>5 DEF Calm
<1>. QED
  BY <1>11, <1>12, <1>13, <1>14, <1>16, <1>17 DEF ReaderStep

\* The invariant holds of the initial state ...
LEMMA LogInvInit == Init => LogInv
<1>. SUFFICES ASSUME Init PROVE LogInv
  OBVIOUS
<1>1. LogTypeInv
  BY LogTypeInit
<1>2. pipe = <<>> /\ Len(pipe) = 0 /\ used = 0 /\ pending = 0 /\ pipe_size = 0 /\ reader = "none"
      /\ \A t \in Thread : pc[t] = "idle"
  BY DEF Init
<1>3. Filled
  <2>. DEFINE new == [k \in 0..Len(pipe) |-> 0]
  <2>1. PipeSize \in Nat /\ \A j, k \in 0..Len(pipe) : j = 0 /\ k = 0
    BY <1>2, SizesTyped
  <2>2. new \in [0..Len(pipe) -> 0..PipeSize] /\ new[0] = 0 /\ new[Len(pipe)] = used
    BY <1>2, <2>1
  <2>3. \A j, k \in 0..Len(pipe) : j <= k => new[j] + (k - j) <= new[k]
    BY <2>1, <2>2
  <2>4. \A k \in 1..Len(pipe) : new[k] = new[k - 1] + pipe[k]
    BY <1>2
  <2>. HIDE DEF new
  <2>. QED
    BY <2>2, <2>3, <2>4 DEF Filled
<1>4. Calm
  <2>1. Bit(Uncounted) = 0 /\ Bit(reader = "read") = 0 /\ Adding = 0 /\ Taking = 0
    BY <1>2 DEF Bit, Uncounted, Adding, Taking
  <2>2. Left \in Nat
    BY <1>1, NoWrap
  <2>. QED
    BY <1>2, <2>1, <2>2 DEF Calm
<1>. QED
  BY <1>1, <1>3, <1>4 DEF LogInv

\* ... and every step keeps it.
LEMMA LogInvStep == LogInv /\ [Next]_vars => LogInv'
<1>. SUFFICES ASSUME LogInv, [Next]_vars PROVE LogInv'
  OBVIOUS
<1>1. LogTypeInv' /\ Filled'
  BY LogTypeStep, FilledStep DEF LogInv
<1>2. ASSUME ~disturbed' PROVE Calm'
  <2>1. ~disturbed /\ Calm
    BY <1>2, Disturbance DEF LogInv, LogTypeInv, TypeOK
  <2>2. CASE UNCHANGED vars
    BY <2>1, <2>2 DEF Calm, Uncounted, Adding, Taking, Left, HasRoom, Size, vars, logVars,
       threadVars, readerVars, boundVars
  <2>. QED
    BY <1>2, <2>1, <2>2, WriterCalm, ReaderCalm DEF LogInv, Next
<1>. QED
  BY <1>1, <1>2 DEF LogInv

\* The counts are right until two threads have got in each other's way.
LEMMA LoggerInvariant == Spec => []LogInv
BY LogInvInit, LogInvStep, PTL DEF Spec

\* The window's thread never waits for a message that is not in the pipe, whatever
\* notifications are late: pending and the pipe agree but for the message in hand.
THEOREM WindowFindsMessage == Spec => []ReadHasMessage
<1>1. LogInv => ReadHasMessage
  <2>1. SUFFICES ASSUME LogInv, ~disturbed, reader = "read" PROVE pipe # <<>>
    BY DEF ReadHasMessage
  <2>2. open /\ Len(pipe) = pending + Bit(Uncounted) + Bit(reader = "read")
    BY <2>1 DEF LogInv, LogTypeInv, InPlace, Calm
  <2>3. pending \in Nat /\ pipe \in Seq(1..PipeSize)
    BY <2>1, SizesTyped DEF LogInv, LogTypeInv, TypeOK
  <2>4. Len(pipe) > 0
    BY <2>1, <2>2, <2>3 DEF Bit
  <2>. QED
    BY <2>4
<1>. QED
  BY <1>1, LoggerInvariant, PTL

\* No writer waits in WriteFile for room that nobody makes, however many windows were
\* registered before and whatever they left unread.
THEOREM WriterFindsRoom == Spec => []WriteHasRoom
<1>1. LogInv => WriteHasRoom
  BY DEF LogInv, Calm, WriteHasRoom
<1>. QED
  BY <1>1, LoggerInvariant, PTL
----------------------------------------------------------------------------
(* The notifications.                                                      *)

\* The line the window's thread is about to read, and the one a thread is about to announce.
InHand == Bit(reader \in {"enter", "store", "read"})
Announcing == Bit(\E t \in Thread : pc[t] \in {"size", "count", "post"})

Announced == Len(pipe) <= posted + InHand + Announcing

\* What InHand and Announcing count, is a line or none.
LEMMA HandsTyped ==
  /\ InHand \in 0..1 /\ Announcing \in 0..1
  /\ LinesAnnounced <=> (~disturbed /\ busy = 0 /\ registered => Announced)
BY DEF InHand, Announcing, Bit, LinesAnnounced, Announced

\* A step of the thread that writes: it has written one line more than it has announced
\* while, and only while, it is about to announce it.
LEMMA WriterAnnounces ==
  ASSUME LogInv, ~disturbed, Announced, registered, NEW t \in Thread, Log(t) \/ WriterStep(t)
  PROVE  Announced'
<1>1. /\ Len(pipe) \in Nat /\ posted \in Nat /\ pc \in [Thread -> Places] /\ open
      /\ \A u, v \in Thread : pc[u] # "idle" /\ pc[v] # "idle" => u = v
  BY SizesTyped DEF LogInv, LogTypeInv, InPlace, TypeOK, Calm
<1>2. InHand \in 0..1 /\ Announcing \in 0..1 /\ InHand' \in 0..1 /\ Announcing' \in 0..1
  BY DEF InHand, Announcing, Bit
<1>3. CASE Log(t) \/ Check(t) \/ Drain(t) \/ Drained(t) \/ Reset(t)
  <2>1. /\ UNCHANGED <<pipe, posted>> /\ (reader' = reader \/ reader' = "enter")
        /\ \A u \in Thread : pc[u] \in {"size", "count", "post"} => pc'[u] = pc[u]
    BY <1>1, <1>3 DEF Log, Check, Drain, Drained, Reset, Go, logVars, readerVars
  <2>2. InHand <= InHand' /\ Announcing <= Announcing'
    BY <2>1 DEF InHand, Announcing, Bit
  <2>. QED
    BY <1>1, <1>2, <2>1, <2>2 DEF Announced
<1>4. CASE Write(t)
  <2>1. /\ pipe' = Append(pipe, Size(t)) /\ pc[t] = "write" /\ pc'[t] = "size"
        /\ UNCHANGED <<posted, reader>>
    BY <1>1, <1>4 DEF Write, Go, readerVars
  <2>2. Len(pipe') = Len(pipe) + 1
    BY <1>4, <2>1, TodoTyped, AppendProperties DEF LogInv, LogTypeInv, TypeOK
  <2>3. Announcing = 0
    BY <1>1, <2>1 DEF Announcing, Bit
  <2>4. Announcing' = 1 /\ InHand' = InHand
    BY <2>1 DEF Announcing, InHand, Bit
  <2>. QED
    BY <1>1, <1>2, <2>1, <2>2, <2>3, <2>4 DEF Announced
<1>5. CASE AddSize(t) \/ Count(t)
  <2>1. UNCHANGED <<pipe, posted, reader>> /\ pc'[t] \in {"count", "post"}
    BY <1>1, <1>5 DEF AddSize, Count, Go, readerVars
  <2>2. Announcing' = 1 /\ InHand' = InHand
    BY <2>1 DEF Announcing, InHand, Bit
  <2>. QED
    BY <1>1, <1>2, <2>1, <2>2 DEF Announced
<1>6. CASE Post(t)
  <2>1. UNCHANGED <<pipe, reader>> /\ posted' = posted + 1
    BY <1>6 DEF Post, logVars, readerVars
  <2>2. InHand' = InHand
    BY <2>1 DEF InHand
  <2>. QED
    BY <1>1, <1>2, <2>1, <2>2 DEF Announced
<1>7. ~WriteFails(t)
  BY <1>1 DEF WriteFails
<1>. QED
  BY <1>3, <1>4, <1>5, <1>6, <1>7 DEF WriterStep

\* A step of the window's thread: it takes a notification for a line, or finds that the
\* line it was told of has been read already.
LEMMA ReaderAnnounced ==
  ASSUME LogInv, ~disturbed', busy' = 0, Announced, registered, registered',
         ReaderStep \/ Register \/ Unregister
  PROVE  Announced'
<1>1. /\ Len(pipe) \in Nat /\ posted \in Nat /\ pending \in Nat /\ open /\ ~disturbed /\ Calm
      /\ pipe \in Seq(1..PipeSize) /\ busy \in Nat
  <2>1. ~disturbed
    BY Disturbance DEF LogInv, LogTypeInv, TypeOK, Next
  <2>. QED
    BY <2>1, SizesTyped DEF LogInv, LogTypeInv, InPlace, TypeOK
<1>2. InHand \in 0..1 /\ Announcing \in 0..1 /\ InHand' \in 0..1 /\ Announcing' \in 0..1
  BY DEF InHand, Announcing, Bit
<1>3. Announcing' = Announcing
  <2>1. \A t \in Thread : \/ pc'[t] = pc[t]
                          \/ pc[t] = "sent" /\ pc'[t] = "drain"
    BY EndReadTyped DEF LogInv, ReaderStep, Dispatch, ReadBusy, ReadCreates, ReadNothing,
       ReadPending, Decrement, Read, SubSize, Register, Unregister, threadVars
  <2>2. (\E t \in Thread : pc[t] \in {"size", "count", "post"})'
          <=> \E t \in Thread : pc[t] \in {"size", "count", "post"}
    BY <2>1
  <2>. QED
    BY <2>2 DEF Announcing, Bit
<1>4. CASE Dispatch
  <2>1. /\ pipe' = pipe /\ reader = "none" /\ reader' = "enter"
        /\ posted' \in {posted - 1, posted}
    BY <1>4 DEF Dispatch, InLoop, logVars
  <2>2. InHand = 0 /\ InHand' = 1
    BY <2>1 DEF InHand, Bit
  <2>. QED
    BY <1>1, <1>2, <1>3, <2>1, <2>2 DEF Announced
<1>5. CASE ReadNothing
  <2>1. /\ UNCHANGED <<pipe, posted>> /\ reader = "enter" /\ pending = 0
    BY <1>5 DEF ReadNothing, logVars
  <2>2. Len(pipe) = pending + Bit(Uncounted) + Bit(reader = "read")
    BY <1>1 DEF Calm
  <2>3. Bit(reader = "read") = 0 /\ Bit(Uncounted) \in 0..1 /\ Bit(Uncounted) <= Announcing
    BY <2>1 DEF Bit, Uncounted, Announcing
  <2>. QED
    BY <1>1, <1>2, <1>3, <2>1, <2>2, <2>3 DEF Announced
<1>6. CASE ReadPending \/ Decrement
  <2>1. /\ UNCHANGED <<pipe, posted>> /\ reader \in {"enter", "store"}
        /\ reader' \in {"store", "read"}
    BY <1>6 DEF ReadPending, Decrement, logVars
  <2>2. InHand = 1 /\ InHand' = 1
    BY <2>1 DEF InHand, Bit
  <2>. QED
    BY <1>3, <2>1, <2>2 DEF Announced
<1>7. CASE Read
  <2>1. /\ pipe' = Tail(pipe) /\ pipe # <<>> /\ posted' = posted
        /\ reader = "read" /\ reader' = "sub"
    BY <1>7 DEF Read
  <2>2. Len(pipe') = Len(pipe) - 1
    BY <1>1, <2>1, HeadTailProperties
  <2>3. InHand = 1 /\ InHand' = 0
    BY <2>1 DEF InHand, Bit
  <2>. QED
    BY <1>1, <1>2, <1>3, <2>1, <2>2, <2>3 DEF Announced
<1>8. CASE SubSize
  <2>1. UNCHANGED <<pipe, posted>> /\ reader = "sub" /\ reader' = "none"
    BY <1>8 DEF SubSize, EndRead
  <2>2. InHand' = InHand
    BY <2>1 DEF InHand, Bit
  <2>. QED
    BY <1>3, <2>1, <2>2 DEF Announced
<1>9. ~ReadBusy /\ ~ReadCreates /\ ~Register /\ ~Unregister
  BY <1>1 DEF ReadBusy, ReadCreates, Register, Unregister
<1>. QED
  BY <1>4, <1>5, <1>6, <1>7, <1>8, <1>9 DEF ReaderStep

\* Every step keeps the lines announced.  A window finds an empty pipe when it registers.
LEMMA AnnouncedStep == LogInv /\ LinesAnnounced /\ [Next]_vars => LinesAnnounced'
<1>. SUFFICES ASSUME LogInv, LinesAnnounced, [Next]_vars PROVE LinesAnnounced'
  OBVIOUS
<1>1. SUFFICES ASSUME ~disturbed', busy' = 0, registered' PROVE Announced'
  <2>1. LinesAnnounced' <=> (~disturbed /\ busy = 0 /\ registered => Announced)'
    BY HandsTyped, PTL
  <2>. QED
    BY <1>1, <2>1
<1>2. ~disturbed /\ busy \in Nat /\ posted \in Nat /\ posted' \in Nat
  <2>1. TypeOK /\ TypeOK'
    BY LogTypeStep DEF LogInv, LogTypeInv
  <2>. QED
    BY <1>1, <2>1, Disturbance, LoggerAssumption DEF TypeOK
<1>3. busy = 0
  <2>1. busy' = busy \/ busy' = busy + 1
    BY DEF Next, WriterStep, ReaderStep, Log, Check, Drain, Drained, Reset, Write, WriteFails,
       AddSize, Count, Post, Dispatch, ReadBusy, ReadCreates, ReadNothing, ReadPending,
       Decrement, Read, SubSize, Register, Unregister, vars, boundVars
  <2>. QED
    BY <1>1, <1>2, <2>1
<1>4. CASE registered
  <2>1. Announced
    BY <1>2, <1>3, <1>4, HandsTyped
  <2>2. CASE UNCHANGED vars
    BY <2>1, <2>2 DEF Announced, InHand, Announcing, vars, logVars, threadVars, readerVars
  <2>. QED
    BY <1>1, <1>2, <1>4, <2>1, <2>2, WriterAnnounces, ReaderAnnounced DEF Next
<1>5. CASE ~registered
  <2>1. Register
    BY <1>1, <1>5 DEF Next, WriterStep, ReaderStep, Log, Check, Drain, Drained, Reset, Write,
       WriteFails, AddSize, Count, Post, Dispatch, ReadBusy, ReadCreates, ReadNothing,
       ReadPending, Decrement, Read, SubSize, Unregister, vars, logVars
  <2>2. pipe' = <<>>
    BY <2>1 DEF Register, LogInv, LogTypeInv, InPlace
  <2>3. InHand' \in Nat /\ Announcing' \in Nat
    BY DEF InHand, Announcing, Bit
  <2>4. 0 <= posted' + InHand' + Announcing'
    <3>1. \A a, b, c \in Nat : 0 <= a + b + c
      OBVIOUS
    <3>. QED
      BY <1>2, <2>3, <3>1
  <2>5. Len(pipe') = 0
    BY <2>2
  <2>. QED
    BY <2>4, <2>5 DEF Announced
<1>. QED
  BY <1>4, <1>5

\* No line is forgotten in the pipe: for every one there is a notification, posted or about
\* to be, or the window's thread is about to read it.
THEOREM LinesAreAnnounced == Spec => []LinesAnnounced
<1>1. Init => LinesAnnounced
  BY DEF Init, LinesAnnounced
<1>. QED
  BY <1>1, AnnouncedStep, LoggerInvariant, PTL DEF Spec
=============================================================================
