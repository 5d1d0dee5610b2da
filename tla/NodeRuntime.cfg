SPECIFICATION NodeSpec
CONSTANTS
  Worker = {w1, w2}
  Client = {scheduler}
  Task = {t1, t2}
  None = None
  MaxTasks = 2
  MaxTime = 2
  Delay = {1, 2}
INVARIANTS
  ExactlyOnce
  NoLostWakeup
  CallbacksServed
  NoOversleep
PROPERTIES
  CancelWins
  IsExecutor
  EveryTaskFires
  NodeStopReturns
