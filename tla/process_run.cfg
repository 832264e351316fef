\* Linux and Windows: a child and two more processes, a timeout and a cancellation.
\* Beside it two processes that write three lines each to a log of one line a file,
\* and one HTTP request with at most two redirects.
SPECIFICATION HostFairSpec
CONSTANTS
  Systems = {"linux", "windows"}
  MaxProcs = 3
  Faults = TRUE
  Writers = {1, 2}
  MaxFiles = 2
  MaxBytes = 1
  LinesEach = 3
  LastSecond = 2
  MaxRedirects = 2
  Asked <- MCAsked
  RetryAfters <- MCRetryAfters
  Lengths = {0, 2, 4}
  DurationMax = 63
INVARIANTS
  TreeEnds
  LogsBounded
PROPERTIES
  LimitedRunReturns
  RotatedLogsKept
  AnswerComes
CHECK_DEADLOCK FALSE
