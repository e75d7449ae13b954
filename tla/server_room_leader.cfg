CONSTANTS
  ann = ann
  bob = bob
  cas = cas
  dee = dee
  login = login
  search = search
  nobody = nobody
  Winner <- MCWinner
  Story <- MCStory
  Points <- MCPoints
  NoOne = nobody
CHECK_DEADLOCK FALSE
SPECIFICATION Spec
INVARIANT
  LeaderIsPresent
