CONSTANTS
  Ui = ui
  Workers = {w1}
  LineSizes = {1, 2}
  LogBufSize = 2
  NoticeSize = 1
  PipeSize = 3
  ReadSizes = {1, 2}
  Wrap = 64
  MaxLogs = 2
  MaxRegs = 2
  MaxBusy = 1

SPECIFICATION FairSpec

INVARIANTS
  TypeOK
  ReadHasMessage
  WriteHasRoom
  LinesAnnounced

PROPERTIES
  LogReturns
  EverythingRead

\* A thread that waits for one that waits for it is what the code may come to.
CHECK_DEADLOCK FALSE
