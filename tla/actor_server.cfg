CONSTANTS
  ann = ann
  bob = bob
  invalid = invalid
  c1 = c1
  c2 = c2
  t = t
  NoVote = NoVote
  Winner <- AnyWinner
  Session <- MCSession
  StoryId <- MCStoryId
  Title <- MCTitle
  Story <- MCStory
  Points <- MCPoints
  Invalid = invalid
  NameOf <- OneName
  Leavers <- MCSession
  MaxRequests = 3
CHECK_DEADLOCK FALSE
SPECIFICATION Spec
INVARIANTS
  TypeOK
  OneRequestInFlight
  LatestStateIsCurrent
  StateOnlyAfterOk
  OkBeforeItsState
  OnlyFormerNamesStay
