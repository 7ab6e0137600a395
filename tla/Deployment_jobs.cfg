\* Two runs of the workflow and a developer's job, on the same functions.
SPECIFICATION Spec
CONSTANTS
  ci1 = ci1  ci2 = ci2  dev = dev
  Job <- Jobs
  Dispatched <- WorkflowRuns
  Functions <- WorkerThenApi
  Service <- Services
  MaxEdits <- EditsOfWorker
  None = None
INVARIANTS SettingsAreKept FunctionsAreRight
PROPERTIES WorkersFirst SmokeSawRelease
CHECK_DEADLOCK FALSE
