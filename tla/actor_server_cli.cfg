CONSTANTS
  ann = ann
  bob = bob
  invalid = invalid
  c1 = c1
  c2 = c2
  t = t
  NoVote = NoVote
  Winner <- CliWinner
  Session <- MCSession
  StoryId <- MCStoryId
  Title <- MCTitle
  Story <- MCStory
  Points <- MCPoints
  Invalid = invalid
  NameOf <- OwnName
  Leavers <- MCSession
  MaxRequests = 3
CHECK_DEADLOCK FALSE
SPECIFICATION CliSpec
INVARIANTS
  SeatsAreConnected
PROPERTIES
  OnlyOwnersLeave
  RequestsAreAnswered
  SeatsAreGivenUp
  MembersCatchUp
