SPECIFICATION FairSpec
CONSTANTS
  ann = ann  bob = bob
  hawks = hawks  nets = nets
  r1 = r1  r2 = r2
  Member <- Two
  Team <- TwoTeams
  NumPicks = 2
  sizeToDraftOrder <- TwoPicks
  NoTeam = NoTeam
  me = ann
  pools <- UndraftedPool
  Request <- TwoRequests
  NoRecord = NoRecord
  NoAlert = NoAlert
  MaxGames = 1
PROPERTIES
  RefreshEnds
  CatchesUp
