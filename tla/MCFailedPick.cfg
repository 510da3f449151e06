SPECIFICATION Spec
CONSTANTS
  ann = ann  bob = bob  cat = cat
  hawks = hawks  nets = nets  suns = suns
  t1 = t1  t2 = t2
  Member <- Two
  Device <- Two
  currentMember <- OwnDevice
  Team <- ThreeTeams
  NumPicks = 3
  sizeToDraftOrder <- ThreePicks
  Txn <- OneTxn
  NoTeam = NoTeam
  NoPool = NoPool
  kRetryCount = 1
  MaxLeaves = 0
  MaxCrashes = 0
SYMMETRY MCSymmetry
INVARIANTS
  FailedPickWasNotMade
