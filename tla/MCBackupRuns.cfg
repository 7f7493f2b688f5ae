CONSTANTS
  w1 = w1
  w2 = w2
  r1 = r1
  runtime = runtime
  Workers = {w1, w2}
  Requests = {r1}
  Destinations = {runtime}
  RuntimeDropbox = runtime
  NoWorker = NoWorker
  NoDestination = NoDestination
  FileCount = 2
  BackupBound = 2
  MonthBound = 1
  FaultBound = 1
SPECIFICATION MonthSpec
INVARIANTS
  CompletedIsWhole
  OneRunnerPerJob
PROPERTIES
  CompletedIsFinal
  JobEnds
