CONSTANTS
  ann = ann
  bob = bob
  c1 = c1
  c2 = c2
  login = login
  nobody = nobody
  Winner <- MCWinner
  Conn <- MCConn
  Steady <- MCSteady
  Story <- MCStory
  Points <- MCPoints
  NoOne = nobody
  Capacity = 3
  MaxRequests = 2
CHECK_DEADLOCK FALSE
SPECIFICATION Spec
INVARIANTS
  TypeOK
  OneSeatEach
  WaitsForOneAnswer
  RequestsComeFromSeats
  OnlyTheLostBreakTheRoom
PROPERTIES
  BallotsAreOwn
  RequestsAreAnswered
  LeaversGiveUpTheirSeat
  BrokenRoomsAreNoticed
  EntrantsWaitForVotesOnly
