SPECIFICATION Spec
CONSTANTS
  HardReplyBytes = 2
  HardPendingReplyBytesPane = 4
  Panes = {p1}
  NoPane = NoPane
  Protocols = {"kitty"}
  ReplySizes = {1}
  Deadline = 1
  MaxTime = 3
  MaxToken = 2
  MaxSequence = 2
  MaxGeneration = 3
PROPERTY CancelsOnlyStale
CHECK_DEADLOCK FALSE
