SPECIFICATION Spec
CONSTANTS
  ann = ann  bob = bob  cat = cat
  hawks = hawks  nets = nets  suns = suns
  t1 = t1  t2 = t2
  Member <- Two
  Device <- Two
  currentMember <- OwnDevice
  Team <- TwoTeams
  NumPicks = 2
  sizeToDraftOrder <- TwoPicks
  Txn <- OneTxn
  NoTeam = NoTeam
  NoPool = NoPool
  kRetryCount = 1
  MaxLeaves = 1
  MaxCrashes = 1
SYMMETRY MCSymmetry
INVARIANTS
  FlagMeansAlert
  

  
