SPECIFICATION FairSpec
CONSTANTS
  Root = root
  Tasks = {root, t1, t2}
  Events = {e1}
  MaxYields = 1
  None = None
INVARIANTS
  TypeOK
  QueueExact
  WakesAreQueued
  RefsExact
  RunsEveryTask
PROPERTIES
  DroppedOnlyWhenForgotten
  EveryWakeIsPolled
  CompletionIsHandled
