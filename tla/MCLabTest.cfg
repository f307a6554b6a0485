CONSTANTS
  MaxTime = 3
  MaxPoll = 2
  MaxOversleep = 1
  Slot <- MCSlot
  Documents <- MCDocuments
  Expectations <- MCExpectations
  MaxChanges = 2
  Frames <- MCFrames
SPECIFICATION TestSpec
INVARIANTS
  StableConditionIsNoticed
  OverrunIsBounded
  SuccessIsUnanimous
  FrameIsTheSenders
  ReadsInsideFrame
PROPERTIES
  PollingEnds
CHECK_DEADLOCK FALSE
