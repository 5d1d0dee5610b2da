SPECIFICATION TimersSpec
CONSTANTS
  Number = {1, 2, 3, 4}
  Snapshotting = TRUE
INVARIANTS
  TimersOwned
  NeverStranded
  QuietAfterStop
PROPERTIES
  KeepsCampaigning
  KeepsBeating
CHECK_DEADLOCK FALSE
