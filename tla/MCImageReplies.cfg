SPECIFICATION MCSpec
CONSTANTS
  HardReplyBytes = 2
  HardPendingReplyBytesPane = 3
  Panes = {p1}
  WidePanes = {p1, p2}
  NoPane = NoPane
  Protocols = {"kitty"}
  ReplySizes = {1, 2}
  Deadline = 1
  MaxTime = 2
  MaxToken = 2
  MaxSequence = 2
  MaxGeneration = 1
INVARIANTS RepliesKept KeyOfPending DeadlineAgreed
PROPERTIES VerdictFinal DecodesSettle
CHECK_DEADLOCK FALSE
