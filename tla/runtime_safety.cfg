SPECIFICATION Spec
CONSTANTS
  t = t
  a = a
  b = b
  h = h
  Node = {t, a, b, h}
  NoNode = NoNode
  NoHandle = NoHandle
  MaxAttempts = 2
  Checkpointer = TRUE
  SinkMayFail = TRUE
  Processes <- AllProcesses
INVARIANTS TypeOK NoLostCancel InflightIsCurrent GivenUpIsCancelled OnlyActiveNodesRun CancelWins EventsTellStatus
PROPERTIES HaltedStaysHalted ImplementsProcessRun
