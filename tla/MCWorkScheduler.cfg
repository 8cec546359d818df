SPECIFICATION FairSpec
CONSTANTS
  w1 = w1
  w2 = w2
  w3 = w3
  w4 = w4
  p1 = p1
  p2 = p2
  p3 = p3
  Works <- MCWorks
  Keys <- MCKeys
  KeyOf <- MCKeyOf
  Workers = {g1, g2}
  QueueCapacity = 2
  NoWork = NoWork
INVARIANTS EndsOnce ResultsAnnounced NoLostSignal StampIsCurrent QuietAfterClose
PROPERTIES ImplementsLedger WorkEnds
CHECK_DEADLOCK FALSE
