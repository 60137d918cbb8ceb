SPECIFICATION MCSpec
CONSTANTS
  Flows = {1, 2}
  Big = 2
  Closed = Closed
  Blank = Blank
  MaxFaults = 1
  Starts <- MCStarts
INVARIANTS AnswerIsReal ShortOnlyIfOvertaken
PROPERTY Answered
CHECK_DEADLOCK FALSE
