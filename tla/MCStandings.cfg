SPECIFICATION Spec
CONSTANTS
  ann = ann  bob = bob
  hawks = hawks  nets = nets
  r1 = r1  r2 = r2
  Member <- Two
  Team <- TwoTeams
  NumPicks = 2
  sizeToDraftOrder <- TwoPicks
  NoTeam = NoTeam
  me = ann
  pools <- BothPools
  Request <- TwoRequests
  NoRecord = NoRecord
  NoAlert = NoAlert
  MaxGames = 2
SYMMETRY MCSymmetry
INVARIANTS
  TableIsReal
  AlertIsTrue
PROPERTIES
  ChangeIsAnnounced
  RankAlertHasReason
