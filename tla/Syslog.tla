-------------------------------- MODULE Syslog --------------------------------
(* The thread of the installer (installer.c) that follows the log of Windows     *)
(* during an install and sends its new lines to the application.  Windows marks  *)
(* the place where it will go on writing with a line "<ins>", which the next     *)
(* text overwrites.                                                              *)
(*                                                                               *)
(* Abstracted: the text is a sequence of symbols: texts, "ins" for the mark, "CR"*)
(* and "LF"; the conversion of a line to UTF-8, but for an empty line, which     *)
(* cannot be converted: "<Garbled data>" is sent instead, of which the model     *)
(* keeps that it was; how long the thread sleeps.                                *)
EXTENDS Integers, SequencesExt, FiniteSetsExt

CONSTANTS
  Symbol,  \* what texts are made of
  Olds,    \* what the log may hold at first
  Writes   \* bound: the sequence of the texts that Windows writes, one at a time

\* "If there's any "<ins>" line in any log file, it's game over then" (installer.c:407).
ASSUME LogAssumption ==
  /\ {"ins", "CR", "LF"} \subseteq Symbol
  /\ Olds \subseteq Seq(Symbol)
  /\ Writes \in Seq(Seq(Symbol))
  /\ \A i \in DOMAIN Writes : \A j \in DOMAIN Writes[i] : Writes[i][j] # "ins"

VARIABLES
  file,    \* the log
  mark,    \* where Windows goes on writing
  wrote,   \* the number of texts it wrote
  reader,  \* what the thread is about to do
  size,    \* how much it found to read
  pos,     \* its position in the file
  last,    \* last_offset
  sent,    \* the lines it sent
  phase,   \* of the install: "installing", "done", "terminated" once the event is set
  hist     \* what the property remembers: from: where the thread began, due: the lines
           \* that were complete when the install was done, torn: whether the thread
           \* ever read from the middle of what ends a line, garbled: whether it sent
           \* "<Garbled data>", cycle: whether it looked since the install was done
slvars == <<file, mark, wrote, reader, size, pos, last, sent, phase, hist>>

EOL == {"CR", "LF"}
Mark == <<"ins", "CR", "LF">>

(* The lines of a text, as one would read them: without the last one if it is not *)
(* complete, without empty ones and without the marks.                            *)
NoLines == {<<>>, <<"ins">>}
Line(acc, c) ==
  IF c \notin EOL THEN [acc EXCEPT !.line = Append(@, c)]
  ELSE [line |-> <<>>,
        lines |-> IF acc.line \in NoLines THEN acc.lines ELSE Append(acc.lines, acc.line)]
Scan(text) ==
  LET L[i \in 0..Len(text)] ==
        IF i = 0 THEN [line |-> <<>>, lines |-> <<>>] ELSE Line(L[i - 1], text[i])
  IN L[Len(text)]
Lines(text) == Scan(text).lines
New(f, to) == Lines(SubSeq(f, hist.from + 1, to))

SyslogInit ==
  /\ file \in Olds
  /\ mark = IF IsSuffix(Mark, file) THEN Len(file) - Len(Mark) ELSE Len(file)
  /\ wrote = 0 /\ reader = "open" /\ size = 0 /\ pos = 0 /\ last = 0 /\ sent = <<>>
  /\ phase = "installing"
  /\ hist = [from |-> 0, due |-> <<>>, torn |-> FALSE, garbled |-> FALSE, cycle |-> "none"]

--------------------------------------------------------------------------------
Over(f, k, text) ==
  [i \in 1..Max({Len(f), k + Len(text)}) |-> IF i \in (k + 1)..(k + Len(text)) THEN text[i - k] ELSE f[i]]

\* Windows writes a text where its mark is: over the mark only a line that covers it.
WindowsWrites ==
  /\ reader # "open" /\ phase # "terminated" /\ wrote < Len(Writes)
  /\ LET text == Writes[wrote + 1] IN
     /\ (mark = Len(file) \/ Len(text) >= Len(Mark))
     /\ file' = Over(file, mark, text) /\ mark' = mark + Len(text)
  /\ wrote' = wrote + 1
  /\ UNCHANGED <<reader, size, pos, last, sent, phase, hist>>

\* It marks the place behind a line.
WindowsMarks ==
  /\ phase # "terminated" /\ mark = Len(file) /\ mark > 0 /\ file[mark] = "LF"
  /\ file' = file \o Mark
  /\ UNCHANGED <<mark, wrote, reader, size, pos, last, sent, phase, hist>>

\* The thread begins at the end of the log, behind a mark if there is one.
ReaderOpens ==
  /\ reader = "open"
  /\ last' = Len(file) /\ pos' = Len(file) /\ reader' = "look"
  /\ hist' = [hist EXCEPT !.from = Len(file)]
  /\ UNCHANGED <<file, mark, wrote, size, sent, phase>>

\* A round of the thread: the event, then the size of the log.
ReaderLooks ==
  /\ reader = "look"
  /\ IF phase = "terminated"
       THEN reader' = "ended" /\ UNCHANGED <<size, hist>>
       ELSE /\ size' = Len(file) - last
            /\ reader' = IF size' = 0 THEN "look" ELSE "read"
            /\ hist' = IF phase # "done" THEN hist
                       ELSE [hist EXCEPT !.cycle = IF size' = 0 THEN "whole" ELSE "begun"]
  /\ UNCHANGED <<file, mark, wrote, pos, last, sent, phase>>

--------------------------------------------------------------------------------
\* start: where the line begins, lines: what was sent, garbled: whether "<Garbled data>"
\* was, marked: whether it came to the mark.
ProcessStart == [start |-> 0, lines |-> <<>>, garbled |-> FALSE, marked |-> FALSE]

\* Mutant: the mark is taken for a line.
ProcessMarks(p, buffer, i) ==
  LET line == SubSeq(buffer, p.start + 1, i - 1) IN
  IF buffer[i] \notin EOL THEN p
  ELSE IF i > 1 /\ buffer[i - 1] \in EOL THEN [p EXCEPT !.start = i]
  ELSE IF line = <<>> THEN [p EXCEPT !.start = i, !.garbled = TRUE]
  ELSE [p EXCEPT !.start = i, !.lines = Append(@, line)]

\* What process_syslog makes of one more symbol of the buffer: the first of the symbols that
\* end a line ends it, the others are skipped, and the line that is a mark is the last.
Process(p, buffer, i) ==
  LET line == SubSeq(buffer, p.start + 1, i - 1) IN
  IF p.marked \/ buffer[i] \notin EOL THEN p
  ELSE IF i > 1 /\ buffer[i - 1] \in EOL THEN [p EXCEPT !.start = i]
  ELSE IF line = <<"ins">> THEN [p EXCEPT !.marked = TRUE]
  ELSE IF line = <<>> THEN [p EXCEPT !.start = i, !.garbled = TRUE]
  ELSE [p EXCEPT !.start = i, !.lines = Append(@, line)]

(* process_syslog: the lines to send, and where the first begins that is not complete, *)
(* or is the mark.                                                                     *)
ProcessSyslog(buffer) ==
  LET P[i \in 0..Len(buffer)] ==
        IF i = 0 THEN ProcessStart
        ELSE Process(P[i - 1], buffer, i)
  IN P[Len(buffer)]

ReaderReads ==
  /\ reader = "read"
  /\ LET buffer == SubSeq(file, pos + 1, pos + size)
         p == ProcessSyslog(buffer) IN
     /\ sent' = sent \o p.lines
     /\ pos' = pos + p.start
     /\ last' = IF p.start = size THEN last + p.start ELSE pos'
     /\ hist' = [hist EXCEPT !.cycle = IF @ = "begun" THEN "whole" ELSE @,
                             !.torn = @ \/ buffer[1] \in EOL,
                             !.garbled = @ \/ p.garbled]
  /\ reader' = "look"
  /\ UNCHANGED <<file, mark, wrote, size, phase>>

\* A buffer that cannot be allocated, a failing read: nothing is sent any more.
ReaderFails ==
  /\ reader = "read" /\ reader' = "failed"
  /\ UNCHANGED <<file, mark, wrote, size, pos, last, sent, phase, hist>>

--------------------------------------------------------------------------------
InstallDone ==
  /\ phase = "installing" /\ reader # "open" /\ phase' = "done"
  /\ hist' = [hist EXCEPT !.due = New(file, Len(file))]
  /\ UNCHANGED <<file, mark, wrote, reader, size, pos, last, sent>>

(* The installer sleeps for a second before it sets the event, the thread for half a *)
(* second at most: it looks once more before.                                        *)
Terminate ==
  /\ phase = "done" /\ (hist.cycle = "whole" \/ reader = "failed")
  /\ phase' = "terminated"
  /\ UNCHANGED <<file, mark, wrote, reader, size, pos, last, sent, hist>>

SyslogNext ==
  \/ WindowsWrites \/ WindowsMarks \/ ReaderOpens \/ ReaderLooks \/ ReaderReads
  \/ ReaderFails \/ InstallDone \/ Terminate

--------------------------------------------------------------------------------
(* The lines that reach the application are those of the log from where the thread *)
(* began, each once and in order, whatever Windows overwrites; at the end of an    *)
(* install none is missing of those that were there when it was done; and nothing  *)
(* is garbled unless the end of a line was read in two parts.                      *)
SyslogLogged ==
  /\ sent = New(file, last)
  /\ reader = "ended" => IsPrefix(hist.due, sent)
  /\ hist.garbled => hist.torn
=============================================================================
