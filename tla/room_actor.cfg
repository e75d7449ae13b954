CONSTANTS
  ann = ann
  bob = bob
  cas = cas
  c1 = c1
  small = small
  large = large
  NoVote = NoVote
  Winner <- MCWinner
  Session <- MCSession
  StoryId <- MCStoryId
  Title <- MCTitle
  Story <- MCStory
  Points <- MCPoints
SPECIFICATION Spec
INVARIANTS
  TypeOK
  OpenVoteMissesABallot
  FightIsADisagreement
PROPERTIES
  ElectorateFrozen
  ResultIsUnanimous
  EmptyVoteNeverEnds
  ImplementsRound
