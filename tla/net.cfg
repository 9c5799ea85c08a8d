SPECIFICATION Spec
CONSTANTS
  None = None
  Conns <- MCConns
  Styles <- MCStyles
  PollLimit = 1
  BufferSize = 1
  QueueSize = 1
  MaxPushes = 1
INVARIANTS NothingUnhandled
PROPERTIES ConnectionsEndOnce RepliesArrive CloseReturns
CHECK_DEADLOCK FALSE
