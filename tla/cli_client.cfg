CONSTANTS
  login = login
  none = none
  some = some
  Story <- MCStory
  Ballots <- MCBallots
  Line <- MCLine
  Length <- MCLength
  ChannelSize = 1
  MaxStates = 2
  MaxLines = 3
CHECK_DEADLOCK FALSE
SPECIFICATION Spec
INVARIANTS
  TypeOK
  AnswersPairUp
  StatesInOrder
  NewestLoopIsCurrent
PROPERTIES
  StatesAreShown
  CallersAreServed
  LinesAreTaken
