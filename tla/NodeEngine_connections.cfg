SPECIFICATION Spec
CONSTANTS
  Programs <- EnginePrograms
  Given <- EngineGiven
  NeedsOf <- EngineNeeds
  RepliesOf <- EngineReplies
  LeaksOf <- EngineLeaks
  MaxRoutines = 5
INVARIANTS Screened ToldOnce NothingLeft
CHECK_DEADLOCK FALSE
